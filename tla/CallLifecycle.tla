--------------------------- MODULE CallLifecycle ----------------------------
(***************************************************************************)
(* What Call and Registry promise the rest of the engine (the handlers of  *)
(* mid-dialog requests, the reaper, the metrics gauges): a call is         *)
(* registered from its INVITE on, is established at most once and only     *)
(* while registered, starts to tear down at most once and never comes      *)
(* back, and leaves the registry once, after its teardown has begun.       *)
(***************************************************************************)
CONSTANT Calls

VARIABLES
    state,   \* the call's state, "none" before its INVITE
    calls    \* the registered calls

vars == <<state, calls>>

Init ==
    /\ state = [c \in Calls |-> "none"]
    /\ calls = {}

Admit(c) ==
    /\ state[c] = "none"
    /\ state' = [state EXCEPT ![c] = "setup"]
    /\ calls' = calls \cup {c}

Establish(c) ==
    /\ state[c] = "setup" /\ c \in calls
    /\ state' = [state EXCEPT ![c] = "established"]
    /\ UNCHANGED calls

End(c) ==
    /\ state[c] \in {"setup", "established"}
    /\ state' = [state EXCEPT ![c] = "tearingDown"]
    /\ UNCHANGED calls

Remove(c) ==
    /\ state[c] = "tearingDown" /\ c \in calls
    /\ calls' = calls \ {c}
    /\ UNCHANGED state

Next == \E c \in Calls : Admit(c) \/ Establish(c) \/ End(c) \/ Remove(c)

Spec == Init /\ [][Next]_vars
=============================================================================
