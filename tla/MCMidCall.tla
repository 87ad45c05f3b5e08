----------------------------- MODULE MCMidCall ------------------------------
(***************************************************************************)
(* Instances of MidCall for TLC.                                           *)
(***************************************************************************)
EXTENDS MidCall, TLC

Symmetry == Permutations(ReInvites) \cup Permutations(Refers)
=============================================================================
