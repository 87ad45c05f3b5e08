------------------------------ MODULE Recorder ------------------------------
(***************************************************************************)
(* The recording application (applications/recording/recorder/record.go):  *)
(* one handleInvite goroutine per INVITE, the registry of sessions OnBye   *)
(* looks in, one recordLoop per stream, and the goroutine that closes all  *)
(* sessions when the process is told to stop.                              *)
(*                                                                         *)
(* Every INVITE has a Call-ID of its own, as the sequencer's legs have, so *)
(* the registry is a set of INVITEs.                                       *)
(***************************************************************************)
EXTENDS Naturals

CONSTANTS
    Invites,      \* the INVITEs the application receives
    NumStreams    \* m=audio sections of an offer: caller and callee

ASSUME RecorderAssumption == NumStreams \in Nat \ {0}

Streams == 1 .. NumStreams

VARIABLES
    pc,         \* where handleInvite is
    pos,        \* how far its current loop over the streams has come
    open,       \* the RTP sockets that are open
    sessions,   \* callRegistry.sessions
    loop,       \* the recording goroutines
    bye,        \* the BYE of the peer and its OnBye handler
    ending,     \* who closes the sockets of a session taken out of the registry
    srv,        \* Serve
    ids         \* the sessions closeAll has yet to terminate

vars == <<pc, pos, open, sessions, loop, bye, ending, srv, ids>>

TypeOK ==
    /\ pc \in [Invites -> {"idle", "binding", "answered", "registered", "done", "failed"}]
    /\ pos \in [Invites -> 0 .. NumStreams]
    /\ open \subseteq Invites \X Streams
    /\ sessions \subseteq Invites
    /\ loop \in [Invites -> [Streams -> {"none", "recording", "failed", "stopped"}]]
    /\ bye \in [Invites -> {"none", "read", "done"}]
    /\ ending \in [Invites -> {"no", "bye", "shutdown"}]
    /\ srv \in {"run", "closing", "stopped"}
    /\ ids \subseteq Invites

Init ==
    /\ pc = [i \in Invites |-> "idle"]
    /\ pos = [i \in Invites |-> 0]
    /\ open = {}
    /\ sessions = {}
    /\ loop = [i \in Invites |-> [s \in Streams |-> "none"]]
    /\ bye = [i \in Invites |-> "none"]
    /\ ending = [i \in Invites |-> "no"]
    /\ srv = "run"
    /\ ids = {}

Sockets(i) == {i} \X Streams

-----------------------------------------------------------------------------
(* handleInvite.  Definitions named Mut... are defects the code might have had, one step
   away from the definition that follows them. *)

\* An offer without audio is answered 488.
Reject(i) ==
    /\ pc[i] = "idle"
    /\ pc' = [pc EXCEPT ![i] = "failed"]
    /\ UNCHANGED <<pos, open, sessions, loop, bye, ending, srv, ids>>

Bind(i) ==
    /\ pc[i] \in {"idle", "binding"} /\ pos[i] < NumStreams
    /\ pc' = [pc EXCEPT ![i] = "binding"]
    /\ pos' = [pos EXCEPT ![i] = @ + 1]
    /\ open' = open \cup {<<i, pos[i] + 1>>}
    /\ UNCHANGED <<sessions, loop, bye, ending, srv, ids>>

MutLastSocketKept(i) ==
    /\ pc' = [pc EXCEPT ![i] = "failed"]
    /\ open' = open \ {<<i, s>> : s \in 1 .. pos[i] - 1}
    /\ UNCHANGED <<pos, sessions, loop, bye, ending, srv, ids>>

\* An early return: the sockets bound so far are closed.
GiveUp(i) ==
    /\ pc' = [pc EXCEPT ![i] = "failed"]
    /\ open' = open \ Sockets(i)
    /\ UNCHANGED <<pos, sessions, loop, bye, ending, srv, ids>>

BindFails(i) == pc[i] \in {"idle", "binding"} /\ pos[i] < NumStreams /\ GiveUp(i)

\* The answer cannot be built, the dialog not be created or the 200 not be sent.
AnswerFails(i) == pc[i] = "binding" /\ pos[i] = NumStreams /\ GiveUp(i)

Respond(i) ==
    /\ pc[i] = "binding" /\ pos[i] = NumStreams
    /\ pc' = [pc EXCEPT ![i] = "answered"]
    /\ UNCHANGED <<pos, open, sessions, loop, bye, ending, srv, ids>>

\* The folder cannot be made: the dialog is answered and stays.
MkdirFails(i) == pc[i] = "answered" /\ GiveUp(i)

\* reg.add
Register(i) ==
    /\ pc[i] = "answered"
    /\ pc' = [pc EXCEPT ![i] = "registered"]
    /\ pos' = [pos EXCEPT ![i] = 0]
    /\ sessions' = sessions \cup {i}
    /\ UNCHANGED <<open, loop, bye, ending, srv, ids>>

\* The file of the next stream is created and its goroutine started, or the stream is
\* skipped.
StartStream(i) ==
    /\ pc[i] = "registered" /\ pos[i] < NumStreams
    /\ pos' = [pos EXCEPT ![i] = @ + 1]
    /\ \E k \in {"recording", "failed"} : loop' = [loop EXCEPT ![i][pos[i] + 1] = k]
    /\ UNCHANGED <<pc, open, sessions, bye, ending, srv, ids>>

\* The dialog is confirmed or the transaction has ended.
HandlerReturns(i) ==
    /\ pc[i] = "registered" /\ pos[i] = NumStreams
    /\ pc' = [pc EXCEPT ![i] = "done"]
    /\ UNCHANGED <<pos, open, sessions, loop, bye, ending, srv, ids>>

HandleInvite(i) ==
    \/ Bind(i) \/ BindFails(i) \/ AnswerFails(i) \/ Respond(i) \/ MkdirFails(i)
    \/ Register(i) \/ StartStream(i) \/ HandlerReturns(i)

-----------------------------------------------------------------------------
(* recordLoop *)

ReadFails(i, s) ==
    /\ loop[i][s] = "recording" /\ <<i, s>> \notin open
    /\ loop' = [loop EXCEPT ![i][s] = "stopped"]
    /\ UNCHANGED <<pc, pos, open, sessions, bye, ending, srv, ids>>

WriteFails(i, s) ==
    /\ loop[i][s] = "recording"
    /\ loop' = [loop EXCEPT ![i][s] = "failed"]
    /\ UNCHANGED <<pc, pos, open, sessions, bye, ending, srv, ids>>

-----------------------------------------------------------------------------
(* BYE and shutdown *)

\* A BYE for an answered INVITE arrives and is read into its dialog.
ByeArrives(i) ==
    /\ pc[i] \in {"answered", "registered", "done"} /\ bye[i] = "none"
    /\ bye' = [bye EXCEPT ![i] = "read"]
    /\ UNCHANGED <<pc, pos, open, sessions, loop, ending, srv, ids>>

\* callRegistry.terminate under its lock: the session is taken out, its sockets are
\* closed after the unlock.  No session, nothing to close.
Terminate(i, who) ==
    /\ sessions' = sessions \ {i}
    /\ ending' = IF i \in sessions THEN [ending EXCEPT ![i] = who] ELSE ending

MutByeOnlyWhenDone(i) ==
    /\ bye[i] = "read"
    /\ bye' = [bye EXCEPT ![i] = "done"]
    /\ \/ pc[i] = "done" /\ Terminate(i, "bye")
       \/ pc[i] # "done" /\ UNCHANGED <<sessions, ending>>
    /\ UNCHANGED <<pc, pos, open, loop, srv, ids>>

OnBye(i) ==
    /\ bye[i] = "read"
    /\ bye' = [bye EXCEPT ![i] = "done"]
    /\ Terminate(i, "bye")
    /\ UNCHANGED <<pc, pos, open, loop, srv, ids>>

CloseSockets(i) ==
    /\ ending[i] # "no"
    /\ ending' = [ending EXCEPT ![i] = "no"]
    /\ open' = open \ Sockets(i)
    /\ UNCHANGED <<pc, pos, sessions, loop, bye, srv, ids>>

\* closeAll: the Call-IDs under the lock, then terminate for each in turn.
CloseAll ==
    /\ srv = "run"
    /\ srv' = "closing"
    /\ ids' = sessions
    /\ UNCHANGED <<pc, pos, open, sessions, loop, bye, ending>>

CloserIdle == srv = "closing" /\ \A i \in Invites : ending[i] # "shutdown"

MutCloseAllSkips(i) ==
    /\ CloserIdle /\ i \in ids
    /\ ids' = {}
    /\ Terminate(i, "shutdown")
    /\ UNCHANGED <<pc, pos, open, loop, bye, srv>>

CloseNext(i) ==
    /\ CloserIdle /\ i \in ids
    /\ ids' = ids \ {i}
    /\ Terminate(i, "shutdown")
    /\ UNCHANGED <<pc, pos, open, loop, bye, srv>>

\* l.Close
StopListening ==
    /\ CloserIdle /\ ids = {}
    /\ srv' = "stopped"
    /\ UNCHANGED <<pc, pos, open, sessions, loop, bye, ending, ids>>

\* Serve has returned and the process is about to exit.
Rest == srv = "stopped" /\ UNCHANGED vars

Next ==
    \/ \E i \in Invites :
        \/ Reject(i) \/ HandleInvite(i)
        \/ \E s \in Streams : ReadFails(i, s) \/ WriteFails(i, s)
        \/ ByeArrives(i) \/ OnBye(i) \/ CloseSockets(i) \/ CloseNext(i)
    \/ CloseAll \/ StopListening \/ Rest

Spec == Init /\ [][Next]_vars

\* Every goroutine that can run is run; whether an INVITE or a BYE comes is free.
Fairness ==
    /\ \A i \in Invites :
        /\ WF_vars(pc[i] # "idle" /\ HandleInvite(i))
        /\ WF_vars(OnBye(i)) /\ WF_vars(CloseSockets(i)) /\ WF_vars(CloseNext(i))
        /\ \A s \in Streams : WF_vars(ReadFails(i, s))
    /\ WF_vars(StopListening)

FairSpec == Spec /\ Fairness

-----------------------------------------------------------------------------
(* Properties *)

\* A socket is open only while somebody answers for it: the handler before it
\* registers, the registry, or the one who is just closing the session.  No early return
\* of handleInvite and no order of BYE and shutdown leaves one behind.
SocketsAccounted ==
    \A i \in Invites : open \cap Sockets(i) # {} =>
        pc[i] \in {"binding", "answered"} \/ i \in sessions \/ ending[i] # "no"

Silent(i) ==
    /\ open \cap Sockets(i) = {}
    /\ \A s \in Streams : loop[i][s] # "recording"

\* OnBye of a registered call closes its sockets and ends its recordings for good, the
\* ones handleInvite starts only after the BYE included.
ByeEndsRecording ==
    \A i \in Invites : bye[i] = "read" /\ pc[i] \in {"registered", "done"} ~> []Silent(i)

\* closeAll ends every recording registered when it ran, although BYEs take sessions out
\* of the registry meanwhile.
ShutdownEndsRecordings == \A i \in Invites : i \in ids ~> []Silent(i)

=============================================================================
