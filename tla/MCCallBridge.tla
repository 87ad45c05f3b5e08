---------------------------- MODULE MCCallBridge ----------------------------
(***************************************************************************)
(* Instances of CallBridge for TLC.                                        *)
(***************************************************************************)
EXTENDS CallBridge, TLC

\* Application chains.
TapSkip == [media |-> "tap", onFailure |-> "skip", uri |-> "ok", transport |-> "plain"]
Plain == [TapSkip EXCEPT !.media = "none"]
PlainAbort == [Plain EXCEPT !.onFailure = "abort"]
BadURI == [Plain EXCEPT !.uri = "bad"]

NoApps == <<>>
OneTap == <<TapSkip>>
TapThenPlain == <<TapSkip, PlainAbort>>
PlainThenBad == <<Plain, BadURI>>

\* Two calls compete for the pool: the first is tapped and goes all the way under
\* every disturbance; a contender has no application and is followed until its media
\* is registered or it failed.
CONSTANT Contenders
Contention ==
    /\ eng = "run"
    /\ \A c \in Contenders :
        /\ \A i \in Apps : outcome[c][i] = "unrouted"
        /\ inb[c] \in {"none", "pending", "rejected"}
        /\ pc[c] # "waitPBX"

PairSymmetry == Permutations(Pairs)
=============================================================================
