-------------------------- MODULE MediaRelayProofs --------------------------
(***************************************************************************)
(* Theorems about MediaRelay, for any copy loops, timeout, period and lag. *)
(***************************************************************************)
EXTENDS MediaRelay, TLAPS

\* Nothing is closed before closeOnce is entered.
SidesOpen ==
    /\ once \in {"no", "half", "done"}
    /\ once = "no" => open = Peers
    /\ why \in [Dirs -> {"none", "closed", "error", "bad"}]

IsolationInv == SidesOpen /\ FailureIsIsolated

LEMMA IsolationInit == Init => IsolationInv
BY DEF Init, IsolationInv, SidesOpen, FailureIsIsolated

LEMMA SrcDst == \A d \in Dirs : Src(d) \in Peers /\ Dst(d) \in Peers
BY DEF Src, Dst, Peers

\* The steps of the copy loops read the sides, those of the closers change them.
LEMMA IsolationStep == IsolationInv /\ [Next]_vars => IsolationInv'
<1> SUFFICES ASSUME IsolationInv, [Next]_vars PROVE IsolationInv'
    OBVIOUS
<1> USE DEF IsolationInv, SidesOpen, FailureIsIsolated
<1>1. ASSUME NEW d \in Dirs, ReadPacket(d) \/ WritePacket(d) PROVE IsolationInv'
    BY <1>1 DEF ReadPacket, WritePacket, sideVars
<1>2. ASSUME NEW d \in Dirs, ReadErrors(d) PROVE IsolationInv'
    BY <1>2 DEF ReadErrors, sideVars
<1>3. ASSUME NEW d \in Dirs, ReadFails(d) PROVE IsolationInv'
    BY <1>3, SrcDst DEF ReadFails, sideVars
<1>4. ASSUME NEW d \in Dirs, WriteFails(d) PROVE IsolationInv'
    <2>1. Dst(d) \notin open => once # "no"
        BY SrcDst
    <2>2. UNCHANGED <<open, once>>
        BY <1>4 DEF WriteFails, sideVars
    <2>3. PICK k \in {"closed", "error", "bad"} :
              why' = [why EXCEPT ![d] = k] /\ (k = "closed" => Dst(d) \notin open)
        BY <1>4 DEF WriteFails
    <2> QED
        BY <2>1, <2>2, <2>3
<1>5. ASSUME TrackArrives PROVE IsolationInv'
    BY <1>5 DEF TrackArrives, copyVars
<1>6. ASSUME Bridging PROVE IsolationInv'
    BY <1>6 DEF Bridging, StartRelay, BridgeWakes, BridgeCloses, BridgeReturns, copyVars, sideVars
<1>7. ASSUME EndCall \/ EngineStops \/ TeardownCancel \/ TeardownReleases PROVE IsolationInv'
    BY <1>7 DEF EndCall, EngineStops, TeardownCancel, TeardownReleases, copyVars, sideVars
<1>8. ASSUME CloseFirst \/ CloseSecond PROVE IsolationInv'
    BY <1>8 DEF CloseFirst, CloseSecond, copyVars
<1>9. ASSUME Elapse \/ Reaping \/ UNCHANGED vars PROVE IsolationInv'
    BY <1>9 DEF Elapse, Reaping, Tick, Check, Reap, vars, copyVars, sideVars
<1> QED
    BY <1>1, <1>2, <1>3, <1>4, <1>5, <1>6, <1>7, <1>8, <1>9 DEF Next, Copy, TearingDown, Rest

\* For any set of copy loops, no loop finds a side closed that nobody has begun to close:
\* a failing direction takes no other with it.
THEOREM FailuresStayIsolated == Spec => []FailureIsIsolated
<1>1. IsolationInv => FailureIsIsolated
    BY DEF IsolationInv
<1> QED
    BY <1>1, IsolationInit, IsolationStep, PTL DEF Spec

-----------------------------------------------------------------------------
(* The reaper *)

\* What the reaper sees is never older than the truth: lastActivity is stored with every
\* packet, and the staleness of its tick works in the call's favour.
ReaperInv ==
    /\ age \in Nat /\ silence = age /\ seen \in Nat
    /\ lag \in Nat
    /\ cause \in {"none", "idle", "other"}
    /\ reaper \in {"idle", "checking", "expired"}
    /\ reaper = "expired" => seen > IdleTimeout
    /\ ReapedWasSilent

\* Once a teardown has a cause, seen changes no more; until then nothing depends on it.
CauseInv == td = "none" => cause = "none"

LEMMA ReaperInit == Init => ReaperInv /\ CauseInv
BY DEF Init, ReaperInv, CauseInv, ReapedWasSilent

LEMMA ReaperStep == ReaperInv /\ CauseInv /\ [Next]_vars => ReaperInv' /\ CauseInv'
<1> SUFFICES ASSUME ReaperInv, CauseInv, [Next]_vars PROVE ReaperInv' /\ CauseInv'
    OBVIOUS
<1> USE RelayAssumption DEF ReaperInv, CauseInv, ReapedWasSilent
<1>1. ASSUME NEW d \in Dirs, ReadPacket(d) PROVE ReaperInv' /\ CauseInv'
    BY <1>1 DEF ReadPacket, MarkActivity
<1>2. ASSUME NEW d \in Dirs, ReadErrors(d) \/ Copy(d) PROVE ReaperInv' /\ CauseInv'
    BY <1>2 DEF ReadErrors, Copy, ReadFails, WritePacket, WriteFails, timeVars
<1>3. ASSUME TrackArrives PROVE ReaperInv' /\ CauseInv'
    BY <1>3 DEF TrackArrives, timeVars
<1>4. ASSUME Bridging PROVE ReaperInv' /\ CauseInv'
    BY <1>4 DEF Bridging, StartRelay, BridgeWakes, BridgeCloses, BridgeReturns, timeVars
<1>5. ASSUME EndCall \/ EngineStops PROVE ReaperInv' /\ CauseInv'
    BY <1>5 DEF EndCall, EngineStops, timeVars
<1>6. ASSUME TearingDown PROVE ReaperInv' /\ CauseInv'
    BY <1>6 DEF TearingDown, TeardownCancel, TeardownReleases, CloseFirst, CloseSecond, timeVars
<1>7. ASSUME Elapse PROVE ReaperInv' /\ CauseInv'
    BY <1>7 DEF Elapse, Later
<1>8. ASSUME Tick PROVE ReaperInv' /\ CauseInv'
    BY <1>8 DEF Tick
<1>9. ASSUME Check PROVE ReaperInv' /\ CauseInv'
    <2>1. CASE IdleExpired
        BY <1>9, <2>1 DEF Check, IdleExpired
    <2>2. CASE ~IdleExpired
        BY <1>9, <2>2 DEF Check
    <2> QED
        BY <2>1, <2>2
<1>10. ASSUME Reap PROVE ReaperInv' /\ CauseInv'
    BY <1>10 DEF Reap
<1>11. ASSUME UNCHANGED vars PROVE ReaperInv' /\ CauseInv'
    BY <1>11 DEF vars, timeVars
<1> QED
    BY <1>1, <1>2, <1>3, <1>4, <1>5, <1>6, <1>7, <1>8, <1>9, <1>10, <1>11 DEF Next, Reaping, Rest

\* Whatever the timeout, the ticker's period and the lag, the reaper ends only calls that
\* were silent in all directions for longer than the timeout.
THEOREM ReapedWereSilent == Spec => []ReapedWasSilent
<1>1. ReaperInv => ReapedWasSilent
    BY DEF ReaperInv
<1> QED
    BY <1>1, ReaperInit, ReaperStep, PTL DEF Spec

-----------------------------------------------------------------------------
(* Timeliness *)

LEMMA Periods ==
    /\ Interval \in Nat
    /\ MaxLag <= Interval
    /\ IdleTimeout + Interval + MaxLag <= Patience
    /\ Patience \in Nat
<1>1. IdleTimeout \div 2 \in Nat
    BY RelayAssumption
<1> QED
    BY <1>1, RelayAssumption DEF Interval, Patience

\* At its last tick the reaper found the call active, so it has been silent for at most
\* the timeout more than the ticker has run since; while the reaper is at it, for at most
\* one period and the lag more.
Watched == td = "none" /\ eng = "run" /\ bridge # "idle"
ClockInv ==
    /\ since \in Nat
    /\ reaper = "idle" => since <= Interval
    /\ reaper # "idle" => since = lag /\ lag <= MaxLag
    /\ Watched /\ reaper = "idle" => age <= IdleTimeout + since
    /\ Watched /\ reaper # "idle" => age <= IdleTimeout + Interval + lag

LEMMA ClockInit == Init => ClockInv
BY Periods DEF Init, ClockInv, Watched

LEMMA ClockStep == ReaperInv /\ ClockInv /\ [Next]_vars => ClockInv'
<1> SUFFICES ASSUME ReaperInv, ClockInv, [Next]_vars PROVE ClockInv'
    OBVIOUS
<1>t. age \in Nat /\ lag \in Nat /\ reaper \in {"idle", "checking", "expired"}
    BY DEF ReaperInv
<1> USE RelayAssumption, Periods, <1>t DEF ClockInv, Watched
<1>1. ASSUME NEW d \in Dirs, ReadPacket(d) PROVE ClockInv'
    BY <1>1 DEF ReadPacket, MarkActivity
<1>2. ASSUME NEW d \in Dirs, ReadErrors(d) \/ Copy(d) PROVE ClockInv'
    BY <1>2 DEF ReadErrors, Copy, ReadFails, WritePacket, WriteFails, timeVars
<1>3. ASSUME TrackArrives PROVE ClockInv'
    BY <1>3 DEF TrackArrives, timeVars
<1>4. ASSUME StartRelay PROVE ClockInv'
    BY <1>4 DEF StartRelay
<1>5. ASSUME BridgeWakes \/ BridgeCloses \/ BridgeReturns PROVE ClockInv'
    BY <1>5 DEF BridgeWakes, BridgeCloses, BridgeReturns, timeVars
<1>6. ASSUME EndCall \/ EngineStops PROVE ClockInv'
    BY <1>6 DEF EndCall, EngineStops, timeVars
<1>7. ASSUME TearingDown PROVE ClockInv'
    BY <1>7 DEF TearingDown, TeardownCancel, TeardownReleases, CloseFirst, CloseSecond, timeVars
<1>8. ASSUME Elapse PROVE ClockInv'
    <2>1. age' <= age + 1
        BY <1>8 DEF Elapse, Later
    <2>2. since' = since + 1 /\ UNCHANGED <<reaper, td, eng, bridge>>
        BY <1>8 DEF Elapse
    <2>3. CASE reaper = "idle"
        BY <1>8, <2>1, <2>2, <2>3 DEF Elapse, Later
    <2>4. CASE reaper # "idle"
        BY <1>8, <2>1, <2>2, <2>4 DEF Elapse, Later
    <2> QED
        BY <2>3, <2>4
<1>9. ASSUME Tick PROVE ClockInv'
    BY <1>9 DEF Tick
<1>10. ASSUME Check PROVE ClockInv'
    <2>1. CASE IdleExpired
        BY <1>10, <2>1 DEF Check
    <2>2. CASE ~IdleExpired
        BY <1>10, <2>2 DEF Check, IdleExpired
    <2> QED
        BY <2>1, <2>2
<1>11. ASSUME Reap PROVE ClockInv'
    BY <1>11 DEF Reap
<1>12. ASSUME UNCHANGED vars PROVE ClockInv'
    BY <1>12 DEF vars, timeVars
<1> QED
    BY <1>1, <1>2, <1>3, <1>4, <1>5, <1>6, <1>7, <1>8, <1>9, <1>10, <1>11, <1>12
       DEF Next, Bridging, Reaping, Rest

\* Whatever the timeout and the ticker's period, a silent call is ended within one and a
\* half timeouts and the lag.
THEOREM ReapedAlwaysInTime == Spec => []ReapedInTime
<1>1. ReaperInv /\ ClockInv => ReapedInTime
    BY RelayAssumption, Periods DEF ReaperInv, ClockInv, Watched, ReapedInTime
<1> QED
    BY <1>1, ReaperInit, ReaperStep, ClockInit, ClockStep, PTL DEF Spec
=============================================================================
