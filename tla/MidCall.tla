------------------------------ MODULE MidCall -------------------------------
(***************************************************************************)
(* What happens inside an established call: re-INVITEs (midcall.go), REFER *)
(* transfers (refer.go) and the teardown that may overtake them.  Every    *)
(* request has a handler goroutine of its own; they meet only in the       *)
(* critical sections of call.mu and in the registry.                       *)
(*                                                                         *)
(* The call starts established, as CallBridge leaves it (EstablishedIs-    *)
(* Whole).  Media addresses are named by the request that brought them:    *)
(* "initial" for the INVITE's own offer and answer.                        *)
(***************************************************************************)
CONSTANTS
    ReInvites,   \* the re-INVITEs of the caller
    Refers       \* its REFERs; each has a transfer target of its own

ASSUME RequestAssumption ==
    /\ ReInvites \cap Refers = {}
    /\ {"initial", "none"} \cap (ReInvites \cup Refers) = {}

Requests == ReInvites \cup Refers

VARIABLES
    state,           \* call.state
    registered,      \* whether the registry still has the call
    epRemote,        \* where the endpoint side sends
    pbxRemote,       \* where the PBX side sends
    answerSDP,       \* call.pbxLeg.answerSDP
    transferTarget,  \* call.transferTarget
    detached,        \* call.inboundDetached
    step,            \* where each request's handler stands
    result,          \* its final response or final NOTIFY
    inb,             \* the inbound dialog
    pbx,             \* the PBX dialog
    target,          \* the dialogs with the transfer targets
    td,              \* how far teardown has got
    tdTarget,        \* the transfer target it snapshotted
    cause            \* who committed it

mediaVars == <<epRemote, pbxRemote, answerSDP>>
transferVars == <<transferTarget, detached>>
handlerVars == <<step, result>>
tdVars == <<state, registered, td, tdTarget, cause>>
vars == <<mediaVars, transferVars, handlerVars, inb, pbx, target, tdVars>>

\* A dialog's end waits for its hook: ended by the peer, left by a referrer that has
\* had its NOTIFY, or dropped by our own BYE at the end of a transfer.
Ending == {"ended", "left", "dropped"}

TypeOK ==
    /\ state \in {"established", "tearingDown"}
    /\ registered \in BOOLEAN
    /\ epRemote \in {"initial"} \cup Requests
    /\ pbxRemote \in {"initial"} \cup ReInvites
    /\ answerSDP \in {"initial"} \cup ReInvites
    /\ transferTarget \in {"none"} \cup Refers
    /\ detached \in BOOLEAN
    /\ step \in [Requests -> {"idle", "asked", "accepted", "dial", "wait", "answered", "hook",
                              "notify", "detach", "bye", "done"}]
    /\ result \in [Requests -> {"none", "ok", "failed"}]
    /\ inb \in {"up", "gone", "byed"} \cup Ending
    /\ pbx \in {"up", "ended", "gone", "byed"}
    /\ target \in [Refers -> {"none", "ringing", "up", "hooked", "lost", "ended", "failed",
                              "gone", "byed"}]
    /\ td \in {"none", "committed", "removed", "done"}
    /\ tdTarget \in {"none"} \cup Refers
    /\ cause \in {"none", "pbx", "target", "engine"} \cup Ending

Init ==
    /\ state = "established" /\ registered = TRUE
    /\ epRemote = "initial" /\ pbxRemote = "initial" /\ answerSDP = "initial"
    /\ transferTarget = "none" /\ detached = FALSE
    /\ step = [q \in Requests |-> "idle"]
    /\ result = [q \in Requests |-> "none"]
    /\ inb = "up" /\ pbx = "up"
    /\ target = [r \in Refers |-> "none"]
    /\ td = "none" /\ tdTarget = "none" /\ cause = "none"

Goto(q, s) == step' = [step EXCEPT ![q] = s]

Finish(q, how) ==
    /\ step' = [step EXCEPT ![q] = "done"]
    /\ result' = [result EXCEPT ![q] = how]

\* The handler's first critical section lets the request in.
Admissible == registered /\ state = "established"

-----------------------------------------------------------------------------
(* handleReInvite.  Definitions named Mut... are defects the code might have had, one step
   away from the definition that follows them; each shows that a property notices. *)

\* 481 at the door, 488 for a WebRTC call (it has no plain endpoint side) or an offer
\* that cannot be parsed, 500 for a PBX dialog without a Contact; nothing has changed.
ReInviteRejected(q) ==
    /\ step[q] = "idle" /\ inb = "up"
    /\ Finish(q, "failed")
    /\ UNCHANGED <<mediaVars, transferVars, inb, pbx, target, tdVars>>

\* No body: a session refresh, answered from the recorded PBX answer.
ReInviteRefresh(q) ==
    /\ step[q] = "idle" /\ inb = "up" /\ Admissible
    /\ Finish(q, "ok")
    /\ UNCHANGED <<mediaVars, transferVars, inb, pbx, target, tdVars>>

\* pbxSess.Do sends the re-INVITE on.
ReInviteAsks(q) ==
    /\ step[q] = "idle" /\ inb = "up" /\ Admissible
    /\ Goto(q, "asked")
    /\ UNCHANGED <<mediaVars, transferVars, result, inb, pbx, target, tdVars>>

\* The PBX refuses, does not answer, or answers what cannot be parsed.
ReInviteFails(q) ==
    /\ step[q] = "asked"
    /\ Finish(q, "failed")
    /\ UNCHANGED <<mediaVars, transferVars, inb, pbx, target, tdVars>>

ReInviteAccepted(q) ==
    /\ step[q] = "asked" /\ pbx = "up"
    /\ Goto(q, "accepted")
    /\ UNCHANGED <<mediaVars, transferVars, result, inb, pbx, target, tdVars>>

MutAnswerForgotten(q) ==
    /\ step[q] = "accepted"
    /\ epRemote' = q /\ pbxRemote' = q
    /\ Finish(q, "ok")
    /\ UNCHANGED <<answerSDP, transferVars, inb, pbx, target, tdVars>>

\* Under call.mu both sides move to the new addresses; then the 200, or, with the sides
\* moved, a 500 if the answer cannot be rewritten for the endpoint.  (parseMedia has refused
\* what rewriteToAnchor refuses by then, so that the 500 is there for completeness.)
Reanchor(q) ==
    /\ step[q] = "accepted"
    /\ epRemote' = q /\ pbxRemote' = q /\ answerSDP' = q
    /\ \E how \in {"ok", "failed"} : Finish(q, how)
    /\ UNCHANGED <<transferVars, inb, pbx, target, tdVars>>

ReInvite(q) ==
    \/ ReInviteFails(q) \/ ReInviteAccepted(q) \/ Reanchor(q)

-----------------------------------------------------------------------------
(* handleRefer *)

\* 481, 403 or (WebRTC) 488 at the door, or a 202 and then a NOTIFY for a missing or
\* malformed Refer-To.
ReferRejected(r) ==
    /\ step[r] = "idle" /\ inb = "up"
    /\ Finish(r, "failed")
    /\ UNCHANGED <<mediaVars, transferVars, inb, pbx, target, tdVars>>

\* 202 Accepted.
ReferAccepted(r) ==
    /\ step[r] = "idle" /\ inb = "up" /\ Admissible
    /\ Goto(r, "dial")
    /\ UNCHANGED <<mediaVars, transferVars, result, inb, pbx, target, tdVars>>

\* The INVITE to the target runs under runCtx: teardown does not cancel it.
ReferDial(r) ==
    /\ step[r] = "dial"
    /\ target' = [target EXCEPT ![r] = "ringing"]
    /\ Goto(r, "wait")
    /\ UNCHANGED <<mediaVars, transferVars, result, inb, pbx, tdVars>>

ReferAnswered(r) ==
    /\ step[r] = "wait"
    /\ target' = [target EXCEPT ![r] = "up"]
    /\ Goto(r, "answered")
    /\ UNCHANGED <<mediaVars, transferVars, result, inb, pbx, tdVars>>

MutNoFinalNotify(r) ==
    /\ step[r] \in {"dial", "wait"}
    /\ target' = [target EXCEPT ![r] = "failed"]
    /\ Goto(r, "done")
    /\ UNCHANGED <<mediaVars, transferVars, result, inb, pbx, tdVars>>

\* The target cannot be reached or refuses.
ReferFails(r) ==
    /\ step[r] \in {"dial", "wait"}
    /\ target' = [target EXCEPT ![r] = "failed"]
    /\ Finish(r, "failed")
    /\ UNCHANGED <<mediaVars, transferVars, inb, pbx, tdVars>>

\* The target's answer cannot be parsed: it is BYE'd.
ReferUnparsed(r) ==
    /\ step[r] = "answered"
    /\ target' = [target EXCEPT ![r] = IF @ = "up" THEN "byed" ELSE @]
    /\ Finish(r, "failed")
    /\ UNCHANGED <<mediaVars, transferVars, inb, pbx, tdVars>>

\* Under call.mu the endpoint side moves to the target, which the call records.
ReferRepoints(r) ==
    /\ step[r] = "answered"
    /\ epRemote' = r /\ transferTarget' = r
    /\ Goto(r, "hook")
    /\ UNCHANGED <<pbxRemote, answerSDP, detached, result, inb, pbx, target, tdVars>>

\* targetSess.OnState; a target that has gone already stays unnoticed.
ReferHooks(r) ==
    /\ step[r] = "hook"
    /\ target' = [target EXCEPT ![r] = IF @ = "up" THEN "hooked" ELSE @]
    /\ Goto(r, "notify")
    /\ UNCHANGED <<mediaVars, transferVars, result, inb, pbx, tdVars>>

\* sendReferNotify(200).
ReferNotifies(r) ==
    /\ step[r] = "notify"
    /\ step' = [step EXCEPT ![r] = "detach"]
    /\ result' = [result EXCEPT ![r] = "ok"]
    /\ UNCHANGED <<mediaVars, transferVars, inb, pbx, target, tdVars>>

MutNoDetach(r) ==
    /\ step[r] = "detach"
    /\ Goto(r, "bye")
    /\ UNCHANGED <<mediaVars, transferVars, result, inb, pbx, target, tdVars>>

ReferDetaches(r) ==
    /\ step[r] = "detach"
    /\ detached' = TRUE
    /\ Goto(r, "bye")
    /\ UNCHANGED <<mediaVars, transferTarget, result, inb, pbx, target, tdVars>>

\* inboundSession.Bye
ReferByes(r) ==
    /\ step[r] = "bye"
    /\ inb' = IF inb = "up" THEN "dropped" ELSE inb
    /\ Goto(r, "done")
    /\ UNCHANGED <<mediaVars, transferVars, result, pbx, target, tdVars>>

Refer(r) ==
    \/ ReferDial(r) \/ ReferAnswered(r) \/ ReferFails(r) \/ ReferUnparsed(r) \/ ReferRepoints(r)
    \/ ReferHooks(r) \/ ReferNotifies(r) \/ ReferDetaches(r) \/ ReferByes(r)

-----------------------------------------------------------------------------
(* The dialogs' ends and teardown *)

\* Call.teardown up to its unlock.
Teardown(why) ==
    IF state = "established"
    THEN /\ state' = "tearingDown" /\ td' = "committed"
         /\ tdTarget' = transferTarget /\ cause' = why
         /\ UNCHANGED registered
    ELSE UNCHANGED tdVars

\* The caller hangs up; a referrer may do so on its NOTIFY.
CallerByes ==
    /\ inb = "up"
    /\ inb' = IF \E r \in Refers : result[r] = "ok" THEN "left" ELSE "ended"
    /\ UNCHANGED <<mediaVars, transferVars, handlerVars, pbx, target, tdVars>>

InboundHook ==
    /\ inb \in Ending
    /\ inb' = "gone"
    /\ \/ detached /\ UNCHANGED tdVars
       \/ ~detached /\ Teardown(inb)
    /\ UNCHANGED <<mediaVars, transferVars, handlerVars, pbx, target>>

PBXByes ==
    /\ pbx = "up"
    /\ pbx' = "ended"
    /\ UNCHANGED <<mediaVars, transferVars, handlerVars, inb, target, tdVars>>

PBXHook ==
    /\ pbx = "ended"
    /\ pbx' = "gone"
    /\ Teardown("pbx")
    /\ UNCHANGED <<mediaVars, transferVars, handlerVars, inb, target>>

TargetByes(r) ==
    /\ target[r] \in {"up", "hooked"}
    /\ target' = [target EXCEPT ![r] = IF @ = "hooked" THEN "ended" ELSE "lost"]
    /\ UNCHANGED <<mediaVars, transferVars, handlerVars, inb, pbx, tdVars>>

MutTargetEndIgnored(r) ==
    /\ target[r] = "ended"
    /\ target' = [target EXCEPT ![r] = "gone"]
    /\ UNCHANGED <<mediaVars, transferVars, handlerVars, inb, pbx, tdVars>>

TargetHook(r) ==
    /\ target[r] = "ended"
    /\ target' = [target EXCEPT ![r] = "gone"]
    /\ Teardown("target")
    /\ UNCHANGED <<mediaVars, transferVars, handlerVars, inb, pbx>>

\* The idle reaper, Shutdown, or an application leg's end.
EngineEnds ==
    /\ state = "established"
    /\ Teardown("engine")
    /\ UNCHANGED <<mediaVars, transferVars, handlerVars, inb, pbx, target>>

\* The media is closed and the call leaves the registry ...
TeardownRemove ==
    /\ td = "committed"
    /\ td' = "removed" /\ registered' = FALSE
    /\ UNCHANGED <<mediaVars, transferVars, handlerVars, inb, pbx, target, state, tdTarget, cause>>

MutTargetNotByed ==
    /\ td = "removed"
    /\ td' = "done"
    /\ inb' = IF inb = "up" THEN "byed" ELSE inb
    /\ pbx' = IF pbx = "up" THEN "byed" ELSE pbx
    /\ UNCHANGED <<mediaVars, transferVars, handlerVars, target, state, registered, tdTarget, cause>>

\* ... then the BYEs of the snapshot are sent.
TeardownByes ==
    /\ td = "removed"
    /\ td' = "done"
    /\ inb' = IF inb = "up" THEN "byed" ELSE inb
    /\ pbx' = IF pbx = "up" THEN "byed" ELSE pbx
    /\ target' = [r \in Refers |-> IF r = tdTarget /\ target[r] \in {"up", "hooked"}
                                   THEN "byed" ELSE target[r]]
    /\ UNCHANGED <<mediaVars, transferVars, handlerVars, state, registered, tdTarget, cause>>

Rest ==
    /\ td = "done" /\ \A q \in Requests : step[q] \in {"idle", "done"}
    /\ UNCHANGED vars

Next ==
    \/ \E q \in ReInvites :
        ReInviteRejected(q) \/ ReInviteRefresh(q) \/ ReInviteAsks(q) \/ ReInvite(q)
    \/ \E r \in Refers :
        ReferRejected(r) \/ ReferAccepted(r) \/ Refer(r) \/ TargetByes(r) \/ TargetHook(r)
    \/ CallerByes \/ InboundHook \/ PBXByes \/ PBXHook \/ EngineEnds
    \/ TeardownRemove \/ TeardownByes
    \/ Rest

Spec == Init /\ [][Next]_vars

\* Handlers, hooks and teardown are goroutines the scheduler runs, and each of their
\* exchanges is bounded by legTimeout, 5 s or Timer B.  The peers are free.
Fairness ==
    /\ \A q \in ReInvites : WF_vars(ReInvite(q))
    /\ \A r \in Refers : WF_vars(Refer(r)) /\ WF_vars(TargetHook(r))
    /\ WF_vars(InboundHook) /\ WF_vars(PBXHook)
    /\ WF_vars(TeardownRemove) /\ WF_vars(TeardownByes)

FairSpec == Spec /\ Fairness

-----------------------------------------------------------------------------
(* Properties *)

\* However re-INVITEs and REFERs overlap, the answer that a session refresh and a
\* transfer offer are built from is the one the PBX side is anchored to, and the endpoint
\* side sends to the party of the last transfer or to an address of the same exchange as the
\* PBX side's, never to one that a later exchange has replaced.  (A re-INVITE in flight across
\* a transfer does take the endpoint side back to the referrer.)
AnchorsAgree ==
    /\ answerSDP = pbxRemote
    /\ epRemote \in {pbxRemote, transferTarget}

\* A transfer's own BYE to the referrer does not tear the transferred call down,
\* whichever hook, handler or second REFER runs in between.
OwnByeKeepsTransfer == cause # "dropped"

\* A transfer target that was on the call when teardown committed does not stay up.
RecordedTargetIsByed ==
    td = "done" /\ tdTarget # "none" => target[tdTarget] \notin {"ringing", "up", "hooked"}

\* Every accepted REFER ends with a final NOTIFY and every re-INVITE with a final
\* response, also when the call is torn down under them.
HandlersFinish ==
    \A q \in Requests : step[q] \in {"asked", "dial"} ~> (step[q] = "done" /\ result[q] # "none")

\* When a transfer target whose hook is installed hangs up, the call is unwound.
TargetEndUnwindsCall ==
    \A r \in Refers : target[r] = "ended" ~> ~registered

=============================================================================
