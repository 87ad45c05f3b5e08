--------------------------- MODULE RecorderProofs ---------------------------
(***************************************************************************)
(* Theorems about Recorder, for any number of calls and streams.           *)
(***************************************************************************)
EXTENDS Recorder, TLAPS

RecorderInv == TypeOK /\ SocketsAccounted

LEMMA RecorderInit == Init => RecorderInv
BY RecorderAssumption DEF Init, RecorderInv, TypeOK, SocketsAccounted, Streams, Sockets

\* An early return closes what its handler has bound and touches no other call.
LEMMA GiveUpKeeps ==
    ASSUME RecorderInv, NEW i \in Invites, GiveUp(i)
    PROVE  RecorderInv'
BY DEF RecorderInv, GiveUp, TypeOK, SocketsAccounted, Sockets

\* Taking a session out of the registry leaves its sockets to who closes them.
LEMMA TerminateKeeps ==
    ASSUME RecorderInv, NEW i \in Invites, NEW who \in {"bye", "shutdown"}, Terminate(i, who),
           UNCHANGED <<pc, pos, open, loop>>
    PROVE  /\ SocketsAccounted'
           /\ sessions' \subseteq Invites
           /\ ending' \in [Invites -> {"no", "bye", "shutdown"}]
BY DEF RecorderInv, Terminate, TypeOK, SocketsAccounted, Sockets

LEMMA RecorderStep == RecorderInv /\ [Next]_vars => RecorderInv'
<1> SUFFICES ASSUME RecorderInv, [Next]_vars PROVE RecorderInv'
    OBVIOUS
<1> USE RecorderAssumption DEF RecorderInv, TypeOK, SocketsAccounted, Sockets
<1>1. ASSUME NEW i \in Invites, Reject(i) PROVE RecorderInv'
    BY <1>1 DEF Reject
<1>2. ASSUME NEW i \in Invites, Bind(i) PROVE RecorderInv'
    <2>1. pos[i] + 1 \in Streams /\ pos[i] + 1 \in 0 .. NumStreams
        BY <1>2 DEF Bind, Streams
    <2> QED
        BY <1>2, <2>1 DEF Bind
<1>3. ASSUME NEW i \in Invites, BindFails(i) \/ AnswerFails(i) \/ MkdirFails(i)
      PROVE RecorderInv'
    BY <1>3, GiveUpKeeps DEF BindFails, AnswerFails, MkdirFails
<1>4. ASSUME NEW i \in Invites, Respond(i) PROVE RecorderInv'
    BY <1>4 DEF Respond
<1>5. ASSUME NEW i \in Invites, Register(i) PROVE RecorderInv'
    BY <1>5 DEF Register
<1>6. ASSUME NEW i \in Invites, StartStream(i) PROVE RecorderInv'
    <2>1. pos[i] + 1 \in Streams /\ pos[i] + 1 \in 0 .. NumStreams
        BY <1>6 DEF StartStream, Streams
    <2> QED
        BY <1>6, <2>1 DEF StartStream
<1>7. ASSUME NEW i \in Invites, HandlerReturns(i) PROVE RecorderInv'
    BY <1>7 DEF HandlerReturns
<1>8. ASSUME NEW i \in Invites, NEW s \in Streams, ReadFails(i, s) \/ WriteFails(i, s)
      PROVE RecorderInv'
    <2>1. loop' \in [Invites -> [Streams -> {"none", "recording", "failed", "stopped"}]]
        <3>1. \E k \in {"stopped", "failed"} : loop' = [loop EXCEPT ![i][s] = k]
            BY <1>8 DEF ReadFails, WriteFails
        <3>2. PICK k \in {"stopped", "failed"} : loop' = [loop EXCEPT ![i][s] = k]
            BY <3>1
        <3> QED
            BY <3>2
    <2> QED
        BY <1>8, <2>1 DEF ReadFails, WriteFails
<1>9. ASSUME NEW i \in Invites, ByeArrives(i) PROVE RecorderInv'
    BY <1>9 DEF ByeArrives
<1>10. ASSUME NEW i \in Invites, OnBye(i) PROVE RecorderInv'
    BY <1>10, TerminateKeeps DEF OnBye
<1>11. ASSUME NEW i \in Invites, CloseSockets(i) PROVE RecorderInv'
    BY <1>11 DEF CloseSockets
<1>12. ASSUME NEW i \in Invites, CloseNext(i) PROVE RecorderInv'
    BY <1>12, TerminateKeeps DEF CloseNext
<1>13. ASSUME CloseAll \/ StopListening \/ UNCHANGED vars PROVE RecorderInv'
    BY <1>13 DEF CloseAll, StopListening, vars
<1> QED
    BY <1>1, <1>2, <1>3, <1>4, <1>5, <1>6, <1>7, <1>8, <1>9, <1>10, <1>11, <1>12, <1>13
       DEF Next, HandleInvite, Rest

\* No failure, BYE or shutdown, in any order, leaves an RTP socket open that neither its
\* handler nor the registry nor somebody closing the session answers for.
THEOREM SocketsAlwaysAccounted == Spec => []SocketsAccounted
<1>1. RecorderInv => SocketsAccounted
    BY DEF RecorderInv
<1> QED
    BY <1>1, RecorderInit, RecorderStep, PTL DEF Spec
=============================================================================
