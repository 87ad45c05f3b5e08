------------------------------ MODULE PortPool ------------------------------
(***************************************************************************)
(* What the media port allocator promises its users: a pool of RTP/RTCP    *)
(* port pairs.  Taking hands out some pair the pool still has, giving      *)
(* returns pairs to it.  The pool counts the copies of a pair, because the *)
(* allocator does not check what it is given: a pair returned twice is in  *)
(* its free list twice, and is then handed out to two holders.             *)
(*                                                                         *)
(* PortAllocator shows the allocator of media.go implements this pool;     *)
(* CallBridge uses the pool.                                               *)
(***************************************************************************)
EXTENDS Naturals

CONSTANT Pairs       \* the port pairs of the configured range

VARIABLE free        \* free[p]: how often p can still be handed out

PoolTypeOK == free \in [Pairs -> Nat]

PoolInit == free = [p \in Pairs |-> 1]

Exhausted == \A p \in Pairs : free[p] = 0

\* A defect: an allocator that never runs out.
MutTakeUnchecked(p) == free' = [free EXCEPT ![p] = @ - 1]

Take(p) ==
    /\ free[p] > 0
    /\ free' = [free EXCEPT ![p] = @ - 1]

Give(S) == free' = [p \in Pairs |-> IF p \in S THEN free[p] + 1 ELSE free[p]]

PoolNext == \E p \in Pairs : Take(p) \/ Give({p})

PoolSpec == PoolInit /\ [][PoolNext]_free
=============================================================================
