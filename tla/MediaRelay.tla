----------------------------- MODULE MediaRelay -----------------------------
(***************************************************************************)
(* The media path of one established call: MediaSession.bridgeLegs and its *)
(* four copy loops (media.go), the secured endpoint they read when the     *)
(* caller is a webphone (webrtc.go), the idle reaper (reaper.go), and the  *)
(* two goroutines that close the session: bridgeLegs itself and the call's *)
(* teardown.                                                               *)
(*                                                                         *)
(* Packets are abstracted to whether they parse.  Time passes in units:    *)
(* age is the time since lastActivity was stored, silence the time since a *)
(* packet was really read, lag the time since the reaper took its tick.    *)
(***************************************************************************)
EXTENDS Integers

CONSTANTS
    Dirs,               \* the copy loops: all four, or those an instance looks at
    IdleTimeout,        \* e.idleTimeout
    ReaperMaxInterval,  \* reaperMaxInterval
    MaxLag              \* how long other calls may keep the reaper from this one

MutInterval == 3 * IdleTimeout

\* startReaper's ticker.
Interval ==
    IF IdleTimeout \div 2 > ReaperMaxInterval THEN ReaperMaxInterval ELSE IdleTimeout \div 2

ASSUME RelayAssumption ==
    /\ Dirs \subseteq {"rtpOut", "rtpIn", "rtcpOut", "rtcpIn"}
    /\ IdleTimeout \in Nat /\ IdleTimeout > 1
    /\ ReaperMaxInterval \in Nat \ {0}
    /\ MaxLag \in Nat /\ MaxLag <= IdleTimeout \div 2 /\ MaxLag <= ReaperMaxInterval

Peers == {"endpoint", "pbx"}
Src(d) == IF d \in {"rtpOut", "rtcpOut"} THEN "endpoint" ELSE "pbx"
Dst(d) == IF d \in {"rtpOut", "rtcpOut"} THEN "pbx" ELSE "endpoint"

\* Silence the reaper may let pass, and the bound of the clocks, one beyond it.
Patience == IdleTimeout + IdleTimeout \div 2 + MaxLag
Later(t) == IF t > Patience THEN t ELSE t + 1

VARIABLES
    secured,  \* whether the endpoint is a WebRTC (DTLS-SRTP) leg
    copier,   \* the copy loops
    held,     \* what each has read and not written yet
    why,      \* why it stopped
    track,    \* pionEndpoint.ready: the remote track is there (TRUE for a plain endpoint)
    open,     \* the sides whose sockets, or PeerConnection, are open
    once,     \* MediaSession.closeOnce
    bridge,   \* the goroutine in bridgeLegs
    td,       \* the call's teardown
    cause,    \* what started it
    eng,      \* runCtx
    age, silence, seen,      \* see above; seen is the silence when the reaper looked
    reaper, since, lag       \* the reaper, its ticker and how stale its now is

copyVars == <<copier, held, why>>
sideVars == <<secured, track, open, once>>
timeVars == <<age, silence, seen, reaper, since, lag>>
vars == <<copyVars, sideVars, bridge, td, cause, eng, timeVars>>

TypeOK ==
    /\ copier \in [Dirs -> {"off", "reading", "holding", "stopped"}]
    /\ held \in [Dirs -> {"good", "bad"}]
    /\ why \in [Dirs -> {"none", "closed", "error", "bad"}]
    /\ secured \in BOOLEAN /\ track \in BOOLEAN
    /\ open \subseteq Peers
    /\ once \in {"no", "half", "done"}
    /\ bridge \in {"idle", "copying", "closing", "waiting", "returned"}
    /\ td \in {"none", "committed", "cancelled", "done"}
    /\ cause \in {"none", "idle", "other"}
    /\ eng \in {"run", "stopped"}
    /\ age \in 0 .. Patience + 1 /\ silence \in 0 .. Patience + 1 /\ seen \in 0 .. Patience + 1
    /\ reaper \in {"idle", "checking", "expired"}
    /\ since \in Nat /\ lag \in 0 .. MaxLag

Init ==
    /\ copier = [d \in Dirs |-> "off"]
    /\ held = [d \in Dirs |-> "good"]
    /\ why = [d \in Dirs |-> "none"]
    /\ secured \in BOOLEAN /\ track = ~secured
    /\ open = Peers
    /\ once = "no"
    /\ bridge = "idle"
    /\ td = "none" /\ cause = "none" /\ eng = "run"
    /\ age = 0 /\ silence = 0 /\ seen = 0
    /\ reaper = "idle" /\ since = 0 /\ lag = 0

\* The call's context.
Cancelled == td \in {"cancelled", "done"} \/ eng = "stopped"

-----------------------------------------------------------------------------
(* bridgeLegs and its copy loops.  Definitions named Mut... are defects the code might
   have had, one step away from the definition that follows them. *)

\* relay or bridgeSecuredToPBX enters bridgeLegs: markActivity, then the four loops.
StartRelay ==
    /\ bridge = "idle"
    /\ bridge' = "copying"
    /\ copier' = [d \in Dirs |-> "reading"]
    /\ age' = 0 /\ silence' = 0
    /\ UNCHANGED <<held, why, sideVars, td, cause, eng, seen, reaper, since, lag>>

\* OnTrack: until then ReadRTP and ReadRTCP wait on ready.
TrackArrives ==
    /\ ~track /\ "endpoint" \in open
    /\ track' = TRUE
    /\ UNCHANGED <<copyVars, secured, open, once, bridge, td, cause, eng, timeVars>>

CanRead(d) == copier[d] = "reading" /\ Src(d) \in open /\ (Src(d) = "endpoint" => track)

MutMarkActivity(d) == age' = IF d \in {"rtpOut", "rtpIn"} THEN 0 ELSE age

MarkActivity(d) == age' = 0

\* What can come: a packet that does not parse only matters to a secured endpoint, which
\* unmarshals what it is given before it encrypts it.
Packets(d) == IF secured /\ Dst(d) = "endpoint" THEN {"good", "bad"} ELSE {"good"}

ReadPacket(d) ==
    /\ CanRead(d)
    /\ copier' = [copier EXCEPT ![d] = "holding"]
    /\ \E k \in Packets(d) : held' = [held EXCEPT ![d] = k]
    /\ MarkActivity(d)
    /\ silence' = 0
    /\ UNCHANGED <<why, sideVars, bridge, td, cause, eng, seen, reaper, since, lag>>

MutReadyNotClosed(d) ==
    /\ copier[d] = "reading" /\ Src(d) \notin open
    /\ Src(d) = "endpoint" => track
    /\ copier' = [copier EXCEPT ![d] = "stopped"]
    /\ why' = [why EXCEPT ![d] = "closed"]
    /\ UNCHANGED <<held, sideVars, bridge, td, cause, eng, timeVars>>

\* Closing a side ends the read on it; a secured endpoint's Close also closes ready, so
\* that a read waiting for the track ends as well.
ReadFails(d) ==
    /\ copier[d] = "reading" /\ Src(d) \notin open
    /\ copier' = [copier EXCEPT ![d] = "stopped"]
    /\ why' = [why EXCEPT ![d] = "closed"]
    /\ UNCHANGED <<held, sideVars, bridge, td, cause, eng, timeVars>>

\* A track that ends, or any other read error, ends the direction.
ReadErrors(d) ==
    /\ CanRead(d)
    /\ copier' = [copier EXCEPT ![d] = "stopped"]
    /\ why' = [why EXCEPT ![d] = "error"]
    /\ UNCHANGED <<held, sideVars, bridge, td, cause, eng, timeVars>>

\* The write to the other side and the fan-out to the taps, whose errors are skipped.
WritePacket(d) ==
    /\ copier[d] = "holding" /\ Dst(d) \in open /\ held[d] = "good"
    /\ copier' = [copier EXCEPT ![d] = "reading"]
    /\ UNCHANGED <<held, why, sideVars, bridge, td, cause, eng, timeVars>>

MutFailureClosesSource(d) ==
    /\ copier[d] = "holding"
    /\ copier' = [copier EXCEPT ![d] = "stopped"]
    /\ why' = [why EXCEPT ![d] = "error"]
    /\ open' = open \ {Src(d)}
    /\ UNCHANGED <<held, secured, track, once, bridge, td, cause, eng, timeVars>>

\* A write error of any kind ends the direction.
WriteFails(d) ==
    /\ copier[d] = "holding"
    /\ copier' = [copier EXCEPT ![d] = "stopped"]
    /\ why' = [why EXCEPT ![d] = IF Dst(d) \notin open THEN "closed"
                                 ELSE IF held[d] = "bad" THEN "bad" ELSE "error"]
    /\ UNCHANGED <<held, sideVars, bridge, td, cause, eng, timeVars>>

\* <-ctx.Done(), m.Close(), wg.Wait()
BridgeWakes ==
    /\ bridge = "copying" /\ Cancelled
    /\ bridge' = "closing"
    /\ UNCHANGED <<copyVars, sideVars, td, cause, eng, timeVars>>

BridgeCloses ==
    /\ bridge = "closing" /\ once = "done"
    /\ bridge' = "waiting"
    /\ UNCHANGED <<copyVars, sideVars, td, cause, eng, timeVars>>

BridgeReturns ==
    /\ bridge = "waiting" /\ \A d \in Dirs : copier[d] = "stopped"
    /\ bridge' = "returned"
    /\ UNCHANGED <<copyVars, sideVars, td, cause, eng, timeVars>>

-----------------------------------------------------------------------------
(* Teardown and MediaSession.Close *)

EndCall ==
    /\ td = "none"
    /\ td' = "committed" /\ cause' = "other"
    /\ UNCHANGED <<copyVars, sideVars, bridge, eng, timeVars>>

TeardownCancel ==
    /\ td = "committed"
    /\ td' = "cancelled"
    /\ UNCHANGED <<copyVars, sideVars, bridge, cause, eng, timeVars>>

TeardownReleases ==
    /\ td = "cancelled" /\ once = "done"
    /\ td' = "done"
    /\ UNCHANGED <<copyVars, sideVars, bridge, cause, eng, timeVars>>

Closing == td = "cancelled" \/ bridge = "closing"

\* closeOnce.Do by whichever of the two comes first, the other waits: the endpoint
\* side and then the PBX side, or the PBX side and then the secured leg.
CloseFirst ==
    /\ Closing /\ once = "no"
    /\ once' = "half"
    /\ open' = IF secured THEN {"endpoint"} ELSE {"pbx"}
    /\ UNCHANGED <<copyVars, secured, track, bridge, td, cause, eng, timeVars>>

CloseSecond ==
    /\ once = "half"
    /\ once' = "done" /\ open' = {}
    /\ UNCHANGED <<copyVars, secured, track, bridge, td, cause, eng, timeVars>>

\* Run ends (a signal, a listener's failure) and cancels runCtx.
EngineStops ==
    /\ eng = "run"
    /\ eng' = "stopped"
    /\ UNCHANGED <<copyVars, sideVars, bridge, td, cause, timeVars>>

-----------------------------------------------------------------------------
(* Time and the reaper *)

\* Time passes while the reaper can still act on the call; a due tick is taken at once,
\* and other calls delay the reaper by at most MaxLag.
Elapse ==
    /\ td = "none" /\ eng = "run"
    /\ reaper = "idle" => since < Interval
    /\ reaper # "idle" => lag < MaxLag
    /\ age' = Later(age) /\ silence' = Later(silence)
    /\ since' = since + 1
    /\ lag' = IF reaper = "idle" THEN lag ELSE lag + 1
    /\ UNCHANGED <<copyVars, sideVars, bridge, td, cause, eng, seen, reaper>>

Tick ==
    /\ reaper = "idle" /\ since >= Interval /\ eng = "run"
    /\ reaper' = "checking"
    /\ since' = since - Interval /\ lag' = 0
    /\ UNCHANGED <<copyVars, sideVars, bridge, td, cause, eng, age, silence, seen>>

\* idleExpired: idleFor(now) of a session whose relay has started, with the now of the
\* tick.
IdleExpired == td = "none" /\ bridge # "idle" /\ age - lag > IdleTimeout

Check ==
    /\ reaper = "checking"
    /\ \/ IdleExpired /\ reaper' = "expired" /\ seen' = silence /\ lag' = lag
       \/ ~IdleExpired /\ reaper' = "idle" /\ seen' = seen /\ lag' = 0
    /\ UNCHANGED <<copyVars, sideVars, bridge, td, cause, eng, age, silence, since>>

\* teardown("media inactivity timeout"), if nothing else has started it.
Reap ==
    /\ reaper = "expired"
    /\ reaper' = "idle" /\ lag' = 0
    /\ \/ td = "none" /\ td' = "committed" /\ cause' = "idle"
       \/ td # "none" /\ UNCHANGED <<td, cause>>
    /\ UNCHANGED <<copyVars, sideVars, bridge, eng, age, silence, seen, since>>

\* The engine goes on without the call, whether or not its goroutines have ended.
Rest ==
    /\ td = "done" /\ reaper = "idle"
    /\ UNCHANGED vars

Copy(d) == ReadFails(d) \/ WritePacket(d) \/ WriteFails(d)
Bridging == StartRelay \/ BridgeWakes \/ BridgeCloses \/ BridgeReturns
TearingDown == TeardownCancel \/ TeardownReleases \/ CloseFirst \/ CloseSecond
Reaping == Tick \/ Check \/ Reap

Next ==
    \/ \E d \in Dirs : ReadPacket(d) \/ ReadErrors(d) \/ Copy(d)
    \/ TrackArrives
    \/ Bridging
    \/ EndCall \/ EngineStops
    \/ TearingDown
    \/ Elapse
    \/ Reaping
    \/ Rest

Spec == Init /\ [][Next]_vars

\* Every goroutine that can run is run, and time passes, in a process that lives on:
\* CallBridge has its exit.  Peers, hang-ups and the end of Run are free.
Fairness ==
    /\ \A d \in Dirs : WF_vars(Copy(d))
    /\ WF_vars(Bridging) /\ WF_vars(TearingDown) /\ WF_vars(Reaping) /\ WF_vars(Elapse)

FairSpec == Spec /\ Fairness

-----------------------------------------------------------------------------
(* Properties *)

\* A read or write error stops its own direction only (copyLegRTP): no loop finds a
\* side closed before bridgeLegs or teardown has begun to close the session.
FailureIsIsolated == \A d \in Dirs : why[d] = "closed" => once # "no"

\* A call is reaped only if no packet, RTCP included, was read in any direction for
\* longer than idle_timeout when the reaper looked, however stale its tick.
ReapedWasSilent == cause = "idle" => seen > IdleTimeout

\* A call whose relay runs and whose peers are silent is reaped within one and a half
\* idle timeouts, plus the delay other calls cause.
ReapedInTime == td = "none" /\ eng = "run" /\ bridge # "idle" => silence <= Patience

\* Once the context is cancelled all loops end and bridgeLegs returns, also when the
\* webphone's track has never arrived or teardown closes the session meanwhile.
RelayUnwinds == Cancelled ~> (bridge = "returned" /\ \A d \in Dirs : copier[d] = "stopped")
=============================================================================
