----------------------------- MODULE CallBridge -----------------------------
(***************************************************************************)
(* The sequencer's core, internal/b2bua/bridge.go and call.go: the         *)
(* goroutine that bridges an inbound INVITE through the application chain  *)
(* to the PBX, and Call.teardown, which any dialog's end, the idle reaper  *)
(* or Engine.Shutdown may start at any moment of it.                       *)
(*                                                                         *)
(* One step is what the code does between two points where another         *)
(* goroutine can act: a critical section of call.mu, of the port           *)
(* allocator or of the registry, or a blocking SIP exchange.  SIP peers    *)
(* (caller, applications, PBX) and the socket layer choose freely.         *)
(*                                                                         *)
(* Legs are numbered: 1..Len(Sequence) are the application legs, the next  *)
(* number is the PBX leg, and 0 is the inbound leg where teardown lists    *)
(* the dialogs it will BYE.                                                *)
(***************************************************************************)
EXTENDS PortPool, Sequences

CONSTANTS
    Calls,       \* the inbound INVITEs that may arrive (call IDs)
    Sequence,    \* cfg.Sequence: the application chain
    NextHopTransport,  \* cfg.NextHop.Transport: "plain" (udp or tcp) or "tls"
    Offers       \* the kinds of SDP offer callers send

\* What the code can tell of an offer: whether it is WebRTC, whether its audio
\* codecs can be listed (extractAudioCodecs) and its address read (parseMedia).
OfferKinds == {"plain", "nohost", "nocodecs", "nothing", "webrtc", "webrtcVideo"}
OfferIsWebRTC(o) == o \in {"webrtc", "webrtcVideo"}
HasCodecs(o) == o \in {"plain", "nohost", "webrtc"}
HasMedia(o) == o \in {"plain", "nocodecs"}

Transports == {"plain", "tls"}
Application == [media : {"none", "tap"}, onFailure : {"skip", "abort"},
                uri : {"ok", "bad"}, transport : Transports]

ASSUME ConfigAssumption ==
    /\ Sequence \in Seq(Application)
    /\ NextHopTransport \in Transports
    /\ Offers \subseteq OfferKinds

Apps == 1 .. Len(Sequence)
PBX == Len(Sequence) + 1
Legs == 1 .. PBX
Inbound == 0

VARIABLES
    \* the Call object and the registry
    state,      \* call.state, "none" before the INVITE
    calls,      \* Registry.m and byDialog: the registered calls
    legs,       \* call.appLegs and call.pbxLeg: the legs recorded on the call
    pend,       \* the pairs of call.pendingTaps
    sess,       \* call.media: none, open or closed
    fixed,      \* the pairs the call's releaseMedia hook will return
    taps,       \* the pairs of the taps on the media session
    \* the bridge goroutine
    pc,         \* where it stands
    at,         \* index of the application it is at
    offer,      \* kind of the inbound offer
    cur,        \* pairs it has acquired and recorded nowhere else yet
    outcome,    \* per application: routing decision, then the metric it counts
    \* the dialogs, as the SIP stack sees them
    inb,        \* the inbound dialog and its INVITE transaction
    leg,        \* the outbound legs
    \* teardown
    td,         \* how far teardown has got
    tdLegs,     \* dialogs it snapshotted to BYE
    tdHook,     \* whether it snapshotted a releaseMedia hook
    cause,      \* who committed it
    returned,   \* pairs its release hook has returned to the pool
    \* the engine
    open,       \* pairs whose sockets are bound
    eng,        \* run; runCtx cancelled; draining (in Shutdown); the process exited
    drain,      \* calls Shutdown has still to visit
    busy,       \* call whose teardown Shutdown is waiting for
    relays      \* calls whose media goroutine (relay or bridgeLegs) waits for callCtx

callVars == <<state, calls, legs, pend, sess, fixed, taps>>
bridgeVars == <<pc, at, offer, cur, outcome>>
dialogVars == <<inb, leg>>
tdVars == <<td, tdLegs, tdHook, cause, returned>>
engVars == <<eng, drain, busy, relays>>
vars == <<callVars, bridgeVars, dialogVars, tdVars, engVars, open, free>>

CallStates == {"none", "setup", "established", "tearingDown"}
BridgeSteps == {"idle", "admitted", "chain", "tapCallee", "tapBind", "dial", "wait",
                "append", "hook", "anchor", "anchorPBX", "bind", "register", "dialPBX",
                "waitPBX", "hookPBX", "establish", "answer", "abort", "relay", "done"}
\* none; INVITE sent, or sent with a context already cancelled; answered, then with
\* the teardown hook installed; ended by the peer with the hook still to run,
\* before there was a hook, or by a BYE that OnBye could not match; teardown has
\* tried its BYE, within the five seconds all of them share; failed; ended and the
\* hook has run.
LegStates == {"none", "ringing", "late", "up", "hooked", "ended", "lost", "unmatched",
              "byed", "failed", "gone"}
\* none; final response owed; 200 sent; failure sent; CANCELled (the stack sent
\* 487) or ended by BYE with the hook still to run; hook has run, or nobody told;
\* BYE'd by teardown; the 200 could not be sent; handler returned without a final.
InboundStates == {"none", "pending", "answered", "rejected", "cancelled", "ended",
                  "gone", "byed", "unreachable", "dropped"}
Outcomes == {"unrouted", "todo", "failed", "tapless", "invoked"}
TeardownSteps == {"none", "committed", "cancelled", "closed", "released", "removed", "done"}
Causes == {"none", "bridge", "inbound", "leg", "idle", "shutdown"}

TypeOK ==
    /\ state \in [Calls -> CallStates]
    /\ calls \subseteq Calls
    /\ legs \in [Calls -> SUBSET Legs]
    /\ pend \in [Calls -> SUBSET Pairs]
    /\ sess \in [Calls -> {"none", "open", "closed"}]
    /\ fixed \in [Calls -> SUBSET Pairs]
    /\ taps \in [Calls -> SUBSET Pairs]
    /\ pc \in [Calls -> BridgeSteps]
    /\ at \in [Calls -> Legs]
    /\ offer \in [Calls -> OfferKinds]
    /\ cur \in [Calls -> SUBSET Pairs]
    /\ outcome \in [Calls -> [Apps -> Outcomes]]
    /\ inb \in [Calls -> InboundStates]
    /\ leg \in [Calls -> [Legs -> LegStates]]
    /\ td \in [Calls -> TeardownSteps]
    /\ tdLegs \in [Calls -> SUBSET (Legs \cup {Inbound})]
    /\ tdHook \in [Calls -> BOOLEAN]
    /\ cause \in [Calls -> Causes]
    /\ returned \in [Calls -> SUBSET Pairs]
    /\ open \subseteq Pairs
    /\ eng \in {"run", "cancelled", "draining", "exited"}
    /\ drain \subseteq Calls
    /\ busy \subseteq Calls
    /\ relays \subseteq Calls
    /\ free \in [Pairs -> Nat]

Init ==
    /\ state = [c \in Calls |-> "none"]
    /\ calls = {}
    /\ legs = [c \in Calls |-> {}]
    /\ pend = [c \in Calls |-> {}]
    /\ sess = [c \in Calls |-> "none"]
    /\ fixed = [c \in Calls |-> {}]
    /\ taps = [c \in Calls |-> {}]
    /\ pc = [c \in Calls |-> "idle"]
    /\ at = [c \in Calls |-> 1]
    /\ offer = [c \in Calls |-> "plain"]
    /\ cur = [c \in Calls |-> {}]
    /\ outcome = [c \in Calls |-> [i \in Apps |-> "unrouted"]]
    /\ inb = [c \in Calls |-> "none"]
    /\ leg = [c \in Calls |-> [l \in Legs |-> "none"]]
    /\ td = [c \in Calls |-> "none"]
    /\ tdLegs = [c \in Calls |-> {}]
    /\ tdHook = [c \in Calls |-> FALSE]
    /\ cause = [c \in Calls |-> "none"]
    /\ returned = [c \in Calls |-> {}]
    /\ open = {}
    /\ eng = "run"
    /\ drain = {}
    /\ busy = {}
    /\ relays = {}
    /\ PoolInit

-----------------------------------------------------------------------------
(* Pieces shared by the steps *)

\* Definitions named Mut... are defects the code might have had, one step away from
\* the definition that follows them; each is there to show that a property notices.

MutRevive(from, to) ==
    \/ from \in {"setup", "tearingDown"} /\ to = "established"
    \/ from \in {"setup", "established"} /\ to = "tearingDown"

CanTransition(from, to) ==
    \/ from = "setup" /\ to \in {"established", "tearingDown"}
    \/ from = "established" /\ to = "tearingDown"

\* callCtx is cancelled by the call's teardown or, through runCtx, by the end of Run.
Cancelled(c) == td[c] \notin {"none", "committed"} \/ eng # "run"

\* Goroutines and peers act on a call as long as the process lives.
Running == eng # "exited"

Goto(c, l) == pc' = [pc EXCEPT ![c] = l]

App(c) == Sequence[at[c]]
AtApp(c) == pc[c] = "chain" /\ at[c] \in Apps /\ outcome[c][at[c]] = "todo"

MutNoPBXBye(c) == (legs[c] \ {PBX}) \cup (IF state[c] = "established" THEN {Inbound} ELSE {})

\* The dialogs teardown snapshots: every recorded leg, and the caller's dialog if it
\* can have been answered.
LiveDialogs(c) == legs[c] \cup (IF state[c] = "established" THEN {Inbound} ELSE {})

\* Call.teardown up to its unlock: the first caller commits, the others return.
Teardown(c, why) ==
    IF CanTransition(state[c], "tearingDown")
    THEN /\ state' = [state EXCEPT ![c] = "tearingDown"]
         /\ td' = [td EXCEPT ![c] = "committed"]
         /\ tdLegs' = [tdLegs EXCEPT ![c] = LiveDialogs(c)]
         /\ tdHook' = [tdHook EXCEPT ![c] = sess[c] # "none"]
         /\ cause' = [cause EXCEPT ![c] = why]
    ELSE UNCHANGED <<state, td, tdLegs, tdHook, cause>>

MutNoResponse(c) == UNCHANGED inb

\* The final failure response, if the stack has not sent one for a CANCEL.
Reject(c) == inb' = [inb EXCEPT ![c] = IF @ = "pending" THEN "rejected" ELSE @]

\* Engine.fail and respondInboundFromLegError up to their teardown: the final
\* response, then the pending taps closed and returned to the pool.  The pairs of S
\* are those the caller of fail has just returned, B those it had bound and closed.
Fail(c, S, B) ==
    /\ Reject(c)
    /\ Give(S \cup pend[c])
    /\ open' = open \ (B \cup pend[c])
    /\ pend' = [pend EXCEPT ![c] = {}]
    /\ cur' = [cur EXCEPT ![c] = {}]
    /\ Goto(c, "abort")

MutAlwaysSkip(c) == "skip"

FailureAction(c) == App(c).onFailure

\* failureAction on an application that failed before it was recorded: abort fails
\* the call, skip returns the tap's pairs (closing those of B) and moves on.
AppFailed(c, B) ==
    /\ outcome' = [outcome EXCEPT ![c][at[c]] = "failed"]
    /\ \/ /\ FailureAction(c) = "abort"
          /\ Fail(c, cur[c], B)
          /\ UNCHANGED at
       \/ /\ FailureAction(c) = "skip"
          /\ Give(cur[c])
          /\ open' = open \ B
          /\ cur' = [cur EXCEPT ![c] = {}]
          /\ at' = [at EXCEPT ![c] = @ + 1]
          /\ Goto(c, "chain")
          /\ UNCHANGED <<inb, pend>>

\* PortAllocator.Acquire into the goroutine's local variables.
AcquirePair(c, then) ==
    /\ \E p \in Pairs : Take(p) /\ cur' = [cur EXCEPT ![c] = @ \cup {p}]
    /\ Goto(c, then)

\* newAnchorSide on every pair of cur; a port still bound cannot be bound again.
BindPairs(c, then) ==
    /\ cur[c] \cap open = {}
    /\ open' = open \cup cur[c]
    /\ Goto(c, then)

-----------------------------------------------------------------------------
(* handleInvite *)

\* A new INVITE: the Call is created and registered, then bridged.  R is the set
\* of applications whose routing rule matches it.
HandleInvite(c, o, R) ==
    /\ Running /\ pc[c] = "idle"
    /\ state' = [state EXCEPT ![c] = "setup"]
    /\ calls' = calls \cup {c}
    /\ offer' = [offer EXCEPT ![c] = o]
    /\ outcome' = [outcome EXCEPT ![c] = [i \in Apps |-> IF i \in R THEN "todo" ELSE "unrouted"]]
    /\ inb' = [inb EXCEPT ![c] = "pending"]
    /\ Goto(c, "admitted")
    /\ UNCHANGED <<legs, pend, sess, fixed, taps, at, cur, leg, tdVars, engVars, open, free>>

\* dss.OnState installs the hook that tears the call down with the inbound dialog.
HookInbound(c) ==
    /\ Running /\ pc[c] = "admitted"
    /\ Goto(c, "chain")
    /\ UNCHANGED <<callVars, at, offer, cur, outcome, dialogVars, tdVars, engVars, open, free>>

-----------------------------------------------------------------------------
(* runAppChain *)

SkipUnrouted(c) ==
    /\ Running /\ pc[c] = "chain" /\ at[c] \in Apps /\ outcome[c][at[c]] = "unrouted"
    /\ at' = [at EXCEPT ![c] = @ + 1]
    /\ UNCHANGED <<callVars, pc, offer, cur, outcome, dialogVars, tdVars, engVars, open, free>>

BadAppURI(c) ==
    /\ Running /\ AtApp(c) /\ App(c).uri = "bad"
    /\ Fail(c, {}, {})
    /\ UNCHANGED <<state, calls, legs, sess, fixed, taps, at, offer, outcome, leg, tdVars, engVars>>

\* acquireTap's two Acquires.
AcquireTapCaller(c) ==
    /\ Running /\ AtApp(c) /\ App(c).uri = "ok" /\ App(c).media = "tap"
    /\ AcquirePair(c, "tapCallee")
    /\ UNCHANGED <<callVars, at, offer, outcome, dialogVars, tdVars, engVars, open>>

AcquireTapCallee(c) ==
    /\ Running /\ pc[c] = "tapCallee"
    /\ AcquirePair(c, "tapBind")
    /\ UNCHANGED <<callVars, at, offer, outcome, dialogVars, tdVars, engVars, open>>

\* acquireTap's binds, and the tap offer.
BindTap(c) ==
    /\ Running /\ pc[c] = "tapBind" /\ HasCodecs(offer[c])
    /\ BindPairs(c, "dial")
    /\ UNCHANGED <<callVars, at, offer, cur, outcome, dialogVars, tdVars, engVars, free>>

\* acquireTap is all or nothing: out of pairs at either Acquire, or a socket that
\* cannot be bound, and what it took goes back.
TapSetupFails(c) ==
    /\ Running
    /\ \/ AtApp(c) /\ App(c).uri = "ok" /\ App(c).media = "tap" /\ Exhausted
       \/ pc[c] = "tapCallee" /\ Exhausted
       \/ pc[c] = "tapBind"
    /\ AppFailed(c, {})
    /\ UNCHANGED <<state, calls, legs, sess, fixed, taps, offer, leg, tdVars, engVars>>

\* An application without a tap is offered inactive media.
OfferInactive(c) ==
    /\ Running /\ AtApp(c) /\ App(c).uri = "ok" /\ App(c).media = "none" /\ HasCodecs(offer[c])
    /\ Goto(c, "dial")
    /\ UNCHANGED <<callVars, at, offer, cur, outcome, dialogVars, tdVars, engVars, open, free>>

\* An offer whose codecs cannot be listed fails the call, whatever the policy.
BuildOfferFails(c) ==
    /\ Running /\ ~HasCodecs(offer[c])
    /\ \/ AtApp(c) /\ App(c).uri = "ok" /\ App(c).media = "none"
       \/ pc[c] = "tapBind" /\ cur[c] \cap open = {}
    /\ Fail(c, cur[c], {})
    /\ UNCHANGED <<state, calls, legs, sess, fixed, taps, at, offer, outcome, leg, tdVars, engVars>>

\* cache.Invite sends the INVITE.
DialApp(c) ==
    /\ Running /\ pc[c] = "dial"
    /\ leg' = [leg EXCEPT ![c][at[c]] = IF Cancelled(c) THEN "late" ELSE "ringing"]
    /\ Goto(c, "wait")
    /\ UNCHANGED <<callVars, at, offer, cur, outcome, inb, tdVars, engVars, open, free>>

\* WaitAnswer and the ACK.  An INVITE sent before the cancellation can still be
\* answered after it: WaitAnswer may have taken the 200 before ctx was done.
WaitAnswerApp(c) ==
    /\ Running /\ pc[c] = "wait"
    /\ leg[c][at[c]] = "ringing"
    /\ leg' = [leg EXCEPT ![c][at[c]] = "up"]
    /\ Goto(c, "append")
    /\ UNCHANGED <<callVars, at, offer, cur, outcome, inb, tdVars, engVars, open, free>>

\* The leg cannot be originated, is rejected, times out or is cancelled.
AppLegFails(c) ==
    /\ Running /\ pc[c] \in {"dial", "wait"}
    /\ leg' = [leg EXCEPT ![c][at[c]] = "failed"]
    /\ AppFailed(c, cur[c])
    /\ UNCHANGED <<state, calls, legs, sess, fixed, taps, offer, tdVars, engVars>>

\* The accepted tap is stashed on the call and the leg is recorded.
AppendAppLeg(c) ==
    /\ Running /\ pc[c] = "append"
    /\ pend' = [pend EXCEPT ![c] = @ \cup cur[c]]
    /\ cur' = [cur EXCEPT ![c] = {}]
    /\ legs' = [legs EXCEPT ![c] = @ \cup {at[c]}]
    /\ outcome' = [outcome EXCEPT ![c][at[c]] = "invoked"]
    /\ Goto(c, "hook")
    /\ UNCHANGED <<state, calls, sess, fixed, taps, at, offer, dialogVars, tdVars, engVars, open,
                   free>>

MutUnparsedTapKept(c) ==
    /\ Running /\ pc[c] = "append" /\ App(c).media = "tap"
    /\ Give(cur[c])
    /\ open' = open \ cur[c]
    /\ pend' = [pend EXCEPT ![c] = @ \cup cur[c]]
    /\ cur' = [cur EXCEPT ![c] = {}]
    /\ legs' = [legs EXCEPT ![c] = @ \cup {at[c]}]
    /\ outcome' = [outcome EXCEPT ![c][at[c]] = "tapless"]
    /\ Goto(c, "hook")
    /\ UNCHANGED <<state, calls, sess, fixed, taps, at, offer, dialogVars, tdVars, engVars>>

\* A tap answer that cannot be parsed: the tap is returned, and the leg recorded and
\* counted as invoked all the same.
TapAnswerUnparsed(c) ==
    /\ Running /\ pc[c] = "append" /\ App(c).media = "tap"
    /\ Give(cur[c])
    /\ open' = open \ cur[c]
    /\ cur' = [cur EXCEPT ![c] = {}]
    /\ legs' = [legs EXCEPT ![c] = @ \cup {at[c]}]
    /\ outcome' = [outcome EXCEPT ![c][at[c]] = "tapless"]
    /\ Goto(c, "hook")
    /\ UNCHANGED <<state, calls, pend, sess, fixed, taps, at, offer, dialogVars, tdVars, engVars>>

\* appSess.OnState; a leg that ended before it stays unnoticed.
HookAppLeg(c) ==
    /\ Running /\ pc[c] = "hook"
    /\ leg' = [leg EXCEPT ![c][at[c]] = IF @ = "up" THEN "hooked" ELSE @]
    /\ at' = [at EXCEPT ![c] = @ + 1]
    /\ Goto(c, "chain")
    /\ UNCHANGED <<callVars, offer, cur, outcome, inb, tdVars, engVars, open, free>>

ChainDone(c) ==
    /\ Running /\ pc[c] = "chain" /\ at[c] = PBX
    /\ Goto(c, "anchor")
    /\ UNCHANGED <<callVars, at, offer, cur, outcome, dialogVars, tdVars, engVars, open, free>>

-----------------------------------------------------------------------------
(* anchorMedia, anchorWebRTC and the media half of bridgeSecuredToPBX *)

\* The endpoint's pair, for a plain offer whose address can be read.
AnchorEndpoint(c) ==
    /\ Running /\ pc[c] = "anchor" /\ ~OfferIsWebRTC(offer[c]) /\ HasMedia(offer[c])
    /\ AcquirePair(c, "anchorPBX")
    /\ UNCHANGED <<callVars, at, offer, outcome, dialogVars, tdVars, engVars, open>>

\* newSecuredLeg and its registerMedia: the secured endpoint needs no pair.
AnchorWebRTC(c) ==
    /\ Running /\ pc[c] = "anchor" /\ OfferIsWebRTC(offer[c])
    /\ state[c] # "tearingDown"
    /\ sess' = [sess EXCEPT ![c] = "open"]
    /\ Goto(c, "anchorPBX")
    /\ UNCHANGED <<state, calls, legs, pend, fixed, taps, at, offer, cur, outcome, dialogVars,
                   tdVars, engVars, open, free>>

\* The PBX side's pair, in both paths.
AnchorPBX(c) ==
    /\ Running /\ pc[c] = "anchorPBX"
    /\ AcquirePair(c, "bind")
    /\ UNCHANGED <<callVars, at, offer, outcome, dialogVars, tdVars, engVars, open>>

BindAnchor(c) ==
    /\ Running /\ pc[c] = "bind"
    /\ BindPairs(c, "register")
    /\ UNCHANGED <<callVars, at, offer, cur, outcome, dialogVars, tdVars, engVars, free>>

\* No address in the offer, a WebRTC endpoint that cannot be brought up, no pair
\* left, or a socket that cannot be bound: what was acquired goes back.
AnchorFails(c) ==
    /\ Running
    /\ \/ pc[c] = "anchor" /\ (OfferIsWebRTC(offer[c]) \/ ~HasMedia(offer[c]) \/ Exhausted)
       \/ pc[c] = "anchorPBX" /\ Exhausted
       \/ pc[c] = "bind"
    /\ Fail(c, cur[c], {})
    /\ UNCHANGED <<state, calls, legs, sess, fixed, taps, at, offer, outcome, leg, tdVars, engVars>>

\* registerMedia gives the pairs to the call's release hook.
RegisterMedia(c) ==
    /\ Running /\ pc[c] = "register"
    /\ state[c] # "tearingDown"
    /\ sess' = [sess EXCEPT ![c] = "open"]
    /\ fixed' = [fixed EXCEPT ![c] = cur[c]]
    /\ cur' = [cur EXCEPT ![c] = {}]
    /\ Goto(c, "dialPBX")
    /\ UNCHANGED <<state, calls, legs, pend, taps, at, offer, outcome, dialogVars, tdVars,
                   engVars, open, free>>

\* registerMedia refuses a call that is tearing down: the secured leg or the pairs
\* are closed and returned here, and bridge returns without a final response.
RegisterRefused(c) ==
    /\ Running
    /\ pc[c] = "register" \/ (pc[c] = "anchor" /\ OfferIsWebRTC(offer[c]))
    /\ state[c] = "tearingDown"
    /\ Give(cur[c])
    /\ open' = open \ cur[c]
    /\ cur' = [cur EXCEPT ![c] = {}]
    /\ inb' = [inb EXCEPT ![c] = IF @ = "pending" THEN "dropped" ELSE @]
    /\ Goto(c, "done")
    /\ UNCHANGED <<callVars, at, offer, outcome, leg, tdVars, engVars>>

-----------------------------------------------------------------------------
(* originatePBX, dialPBX and answerSecuredEndpoint *)

MutPBXUnrecorded(c) ==
    /\ Running /\ pc[c] = "dialPBX"
    /\ OfferIsWebRTC(offer[c]) => HasCodecs(offer[c])
    /\ leg' = [leg EXCEPT ![c][PBX] = IF Cancelled(c) THEN "late" ELSE "ringing"]
    /\ Goto(c, "waitPBX")
    /\ UNCHANGED <<callVars, at, offer, cur, outcome, inb, tdVars, engVars, open, free>>

\* The PBX INVITE is sent and its leg recorded; a secured call needs codecs for the
\* plain offer first.
DialPBX(c) ==
    /\ Running /\ pc[c] = "dialPBX"
    /\ OfferIsWebRTC(offer[c]) => HasCodecs(offer[c])
    /\ leg' = [leg EXCEPT ![c][PBX] = IF Cancelled(c) THEN "late" ELSE "ringing"]
    /\ legs' = [legs EXCEPT ![c] = @ \cup {PBX}]
    /\ Goto(c, "waitPBX")
    /\ UNCHANGED <<state, calls, pend, sess, fixed, taps, at, offer, cur, outcome, inb, tdVars,
                   engVars, open, free>>

WaitAnswerPBX(c) ==
    /\ Running /\ pc[c] = "waitPBX"
    /\ leg[c][PBX] = "ringing"
    /\ leg' = [leg EXCEPT ![c][PBX] = "up"]
    /\ Goto(c, "hookPBX")
    /\ UNCHANGED <<callVars, at, offer, cur, outcome, inb, tdVars, engVars, open, free>>

MutRedials(c) ==
    /\ Running /\ pc[c] \in {"dialPBX", "waitPBX"}
    /\ leg' = [leg EXCEPT ![c][PBX] = "failed"]
    /\ Goto(c, "dialPBX")
    /\ UNCHANGED <<callVars, at, offer, cur, outcome, inb, tdVars, engVars, open, free>>

\* No offer for the PBX, or a leg that cannot be originated, is rejected or times out.
PBXFails(c) ==
    /\ Running /\ pc[c] \in {"dialPBX", "waitPBX"}
    /\ leg' = [leg EXCEPT ![c][PBX] = "failed"]
    /\ Fail(c, {}, {})
    /\ UNCHANGED <<state, calls, legs, sess, fixed, taps, at, offer, outcome, tdVars, engVars>>

\* pbxSess.OnState
HookPBX(c) ==
    /\ Running /\ pc[c] = "hookPBX"
    /\ leg' = [leg EXCEPT ![c][PBX] = IF @ = "up" THEN "hooked" ELSE @]
    /\ Goto(c, "establish")
    /\ UNCHANGED <<callVars, at, offer, cur, outcome, inb, tdVars, engVars, open, free>>

\* parseMedia rejects the PBX answer.
PBXAnswerUnparsed(c) ==
    /\ Running /\ pc[c] = "establish"
    /\ Fail(c, {}, {})
    /\ UNCHANGED <<state, calls, legs, sess, fixed, taps, at, offer, outcome, leg, tdVars, engVars>>

\* Under call.mu: established if that is still possible, and the pending taps move
\* to the media session in any case.
Establish(c) ==
    /\ Running /\ pc[c] = "establish"
    /\ state' = [state EXCEPT ![c] = IF CanTransition(@, "established") THEN "established" ELSE @]
    /\ taps' = [taps EXCEPT ![c] = @ \cup pend[c]]
    /\ pend' = [pend EXCEPT ![c] = {}]
    /\ Goto(c, "answer")
    /\ UNCHANGED <<calls, legs, sess, fixed, at, offer, cur, outcome, dialogVars, tdVars, engVars,
                   open, free>>

\* Respond(200) to the caller, and the media goroutine starts.
AnswerInbound(c) ==
    /\ Running /\ pc[c] = "answer" /\ inb[c] = "pending"
    /\ inb' = [inb EXCEPT ![c] = "answered"]
    /\ relays' = relays \cup {c}
    /\ Goto(c, "relay")
    /\ UNCHANGED <<callVars, at, offer, cur, outcome, leg, tdVars, eng, drain, busy, open, free>>

\* Respond(200) fails: the caller has gone or cannot be reached.
AnswerFails(c) ==
    /\ Running /\ pc[c] = "answer"
    /\ inb' = [inb EXCEPT ![c] = IF @ = "pending" THEN "unreachable" ELSE @]
    /\ Goto(c, "abort")
    /\ UNCHANGED <<callVars, at, offer, cur, outcome, leg, tdVars, engVars, open, free>>

\* The bridge goroutine's own teardown call, at the end of every failure.
AbortTeardown(c) ==
    /\ Running /\ pc[c] = "abort"
    /\ Teardown(c, "bridge")
    /\ Goto(c, "done")
    /\ UNCHANGED <<calls, legs, pend, sess, fixed, taps, at, offer, cur, outcome, dialogVars,
                   returned, engVars, open, free>>

\* bridge waits for the end of callCtx, then the handler returns.
BridgeReturns(c) ==
    /\ Running /\ pc[c] = "relay" /\ Cancelled(c)
    /\ Goto(c, "done")
    /\ UNCHANGED <<callVars, at, offer, cur, outcome, dialogVars, tdVars, engVars, open, free>>

Bridge(c) ==
    \/ HookInbound(c)
    \/ SkipUnrouted(c) \/ BadAppURI(c) \/ AcquireTapCaller(c) \/ AcquireTapCallee(c)
    \/ BindTap(c) \/ TapSetupFails(c) \/ OfferInactive(c) \/ BuildOfferFails(c)
    \/ DialApp(c) \/ WaitAnswerApp(c) \/ AppLegFails(c)
    \/ AppendAppLeg(c) \/ TapAnswerUnparsed(c) \/ HookAppLeg(c) \/ ChainDone(c)
    \/ AnchorEndpoint(c) \/ AnchorWebRTC(c) \/ AnchorPBX(c) \/ BindAnchor(c)
    \/ AnchorFails(c) \/ RegisterMedia(c) \/ RegisterRefused(c)
    \/ DialPBX(c) \/ WaitAnswerPBX(c) \/ PBXFails(c) \/ HookPBX(c)
    \/ PBXAnswerUnparsed(c) \/ Establish(c) \/ AnswerInbound(c) \/ AnswerFails(c)
    \/ AbortTeardown(c) \/ BridgeReturns(c)

\* The media goroutine closes the session when callCtx ends, whoever ended it: a
\* teardown, which closes it too, or the end of Run, which no teardown may know of yet.
RelayCloses(c) ==
    /\ Running /\ c \in relays /\ Cancelled(c)
    /\ relays' = relays \ {c}
    /\ sess' = [sess EXCEPT ![c] = "closed"]
    /\ open' = IF sess[c] = "open" THEN open \ (fixed[c] \cup taps[c]) ELSE open
    /\ UNCHANGED <<state, calls, legs, pend, fixed, taps, bridgeVars, dialogVars, tdVars,
                   eng, drain, busy, free>>

-----------------------------------------------------------------------------
(* Call.teardown after its unlock, run by whoever committed it *)

\* c.cancel()
TeardownCancel(c) ==
    /\ Running /\ td[c] = "committed"
    /\ td' = [td EXCEPT ![c] = "cancelled"]
    /\ UNCHANGED <<callVars, bridgeVars, dialogVars, tdLegs, tdHook, cause, returned, engVars,
                   open, free>>

MutSocketsStayBound(c) ==
    /\ Running /\ td[c] = "cancelled"
    /\ td' = [td EXCEPT ![c] = "closed"]
    /\ sess' = [sess EXCEPT ![c] = IF tdHook[c] THEN "closed" ELSE @]
    /\ UNCHANGED <<state, calls, legs, pend, fixed, taps, bridgeVars, dialogVars,
                   tdLegs, tdHook, cause, returned, engVars, open, free>>

\* The first half of the release hook: MediaSession.Close closes the sides and the
\* taps it finds.
TeardownClose(c) ==
    /\ Running /\ td[c] = "cancelled"
    /\ td' = [td EXCEPT ![c] = "closed"]
    /\ \/ /\ tdHook[c]
          /\ sess' = [sess EXCEPT ![c] = "closed"]
          /\ open' = IF sess[c] = "open" THEN open \ (fixed[c] \cup taps[c]) ELSE open
       \/ ~tdHook[c] /\ UNCHANGED <<sess, open>>
    /\ UNCHANGED <<state, calls, legs, pend, fixed, taps, bridgeVars, dialogVars,
                   tdLegs, tdHook, cause, returned, engVars, free>>

MutTapsNotReturned(c) ==
    /\ Running /\ td[c] = "closed"
    /\ td' = [td EXCEPT ![c] = "released"]
    /\ \/ /\ tdHook[c]
          /\ Give(fixed[c])
          /\ returned' = [returned EXCEPT ![c] = @ \cup fixed[c]]
       \/ ~tdHook[c] /\ UNCHANGED <<free, returned>>
    /\ UNCHANGED <<callVars, bridgeVars, dialogVars, tdLegs, tdHook, cause, engVars, open>>

\* The second half of the hook returns the fixed pairs and those of the taps it
\* finds by then.
TeardownRelease(c) ==
    /\ Running /\ td[c] = "closed"
    /\ td' = [td EXCEPT ![c] = "released"]
    /\ \/ /\ tdHook[c]
          /\ Give(fixed[c] \cup taps[c])
          /\ returned' = [returned EXCEPT ![c] = @ \cup fixed[c] \cup taps[c]]
       \/ ~tdHook[c] /\ UNCHANGED <<free, returned>>
    /\ UNCHANGED <<callVars, bridgeVars, dialogVars, tdLegs, tdHook, cause, engVars, open>>

MutRemovedEarly(c) ==
    /\ Running /\ td[c] \in {"closed", "released"}
    /\ td' = [td EXCEPT ![c] = "removed"]
    /\ calls' = calls \ {c}
    /\ UNCHANGED <<state, legs, pend, sess, fixed, taps, bridgeVars, dialogVars,
                   tdLegs, tdHook, cause, returned, engVars, open, free>>

\* reg.remove
TeardownRemove(c) ==
    /\ Running /\ td[c] = "released"
    /\ td' = [td EXCEPT ![c] = "removed"]
    /\ calls' = calls \ {c}
    /\ UNCHANGED <<state, legs, pend, sess, fixed, taps, bridgeVars, dialogVars,
                   tdLegs, tdHook, cause, returned, engVars, open, free>>

\* The BYEs to the dialogs of the snapshot.  A BYE to a leg that is not answered yet
\* does not reach the peer; whether it is answered later is WaitAnswer's affair.
TeardownByes(c) ==
    /\ Running /\ td[c] = "removed"
    /\ td' = [td EXCEPT ![c] = "done"]
    /\ leg' = [leg EXCEPT ![c] = [l \in Legs |->
                  IF l \in tdLegs[c] /\ @[l] \in {"up", "hooked"} THEN "byed" ELSE @[l]]]
    /\ inb' = [inb EXCEPT ![c] =
                  IF Inbound \in tdLegs[c] /\ @ = "answered" THEN "byed" ELSE @]
    /\ busy' = busy \ {c}
    /\ UNCHANGED <<callVars, bridgeVars, tdLegs, tdHook, cause, returned, eng, drain, relays,
                   open, free>>

TeardownStep(c) ==
    \/ TeardownCancel(c) \/ TeardownClose(c) \/ TeardownRelease(c)
    \/ TeardownRemove(c) \/ TeardownByes(c)

-----------------------------------------------------------------------------
(* What ends a call: its dialogs, the reaper and Shutdown *)

\* CANCEL while the final response is owed: the stack answers 487 and ends the
\* dialog; before dss.OnState nobody is told.
CallerCancels(c) ==
    /\ Running /\ inb[c] = "pending"
    /\ inb' = [inb EXCEPT ![c] = IF pc[c] = "admitted" THEN "gone" ELSE "cancelled"]
    /\ UNCHANGED <<callVars, bridgeVars, leg, tdVars, engVars, open, free>>

CallerByes(c) ==
    /\ Running /\ inb[c] = "answered"
    /\ inb' = [inb EXCEPT ![c] = "ended"]
    /\ UNCHANGED <<callVars, bridgeVars, leg, tdVars, engVars, open, free>>

\* The inbound dialog's end; a transfer suppresses it (inboundTeardownSuppressed), which
\* MidCall models.
InboundHook(c) ==
    /\ Running /\ inb[c] \in {"cancelled", "ended"}
    /\ inb' = [inb EXCEPT ![c] = "gone"]
    /\ Teardown(c, "inbound")
    /\ UNCHANGED <<calls, legs, pend, sess, fixed, taps, bridgeVars, leg, returned, engVars,
                   open, free>>

Transport(l) == IF l = PBX THEN NextHopTransport ELSE Sequence[l].transport

\* BYE from an application or the PBX.  OnBye looks the dialog up in the server
\* cache and in the plain client cache only, so a TLS leg's BYE reaches no hook.
LegEnds(c, l) ==
    /\ Running /\ leg[c][l] \in {"up", "hooked"}
    /\ leg' = [leg EXCEPT ![c][l] =
                  IF Transport(l) = "tls" THEN "unmatched"
                  ELSE IF @ = "hooked" THEN "ended" ELSE "lost"]
    /\ UNCHANGED <<callVars, bridgeVars, inb, tdVars, engVars, open, free>>

MutLegEndIgnored(c, l) ==
    /\ Running /\ leg[c][l] = "ended"
    /\ leg' = [leg EXCEPT ![c][l] = "gone"]
    /\ UNCHANGED <<callVars, bridgeVars, inb, tdVars, engVars, open, free>>

LegHook(c, l) ==
    /\ Running /\ leg[c][l] = "ended"
    /\ leg' = [leg EXCEPT ![c][l] = "gone"]
    /\ Teardown(c, "leg")
    /\ UNCHANGED <<calls, legs, pend, sess, fixed, taps, bridgeVars, inb, returned, engVars,
                   open, free>>

\* startReaper: an established call whose relay has run and gone silent.  A sweep that
\* began before runCtx ended goes on to its end.
Reap(c) ==
    /\ Running /\ state[c] = "established" /\ c \in calls
    /\ pc[c] = "relay"
    /\ Teardown(c, "idle")
    /\ UNCHANGED <<calls, legs, pend, sess, fixed, taps, bridgeVars, dialogVars, returned, engVars,
                   open, free>>

\* A signal, or a listener that fails: Run's context is cancelled, and with it every
\* callCtx, before Run returns and main calls Shutdown.
RunCtxDone ==
    /\ eng = "run"
    /\ eng' = "cancelled"
    /\ UNCHANGED <<callVars, bridgeVars, dialogVars, tdVars, drain, busy, relays, open, free>>

\* Engine.Shutdown: Registry.each snapshots the calls and tears them down one after
\* the other.
Shutdown ==
    /\ eng = "cancelled"
    /\ eng' = "draining"
    /\ drain' = calls
    /\ UNCHANGED <<callVars, bridgeVars, dialogVars, tdVars, busy, relays, open, free>>

MutSetupLeftAlone(c) ==
    /\ eng = "draining" /\ busy = {} /\ c \in drain
    /\ drain' = drain \ {c}
    /\ IF state[c] = "established" THEN busy' = {c} /\ Teardown(c, "shutdown")
       ELSE UNCHANGED <<busy, state, td, tdLegs, tdHook, cause>>
    /\ UNCHANGED <<calls, legs, pend, sess, fixed, taps, bridgeVars, dialogVars, returned, eng,
                   relays, open, free>>

\* One call of the walk.  teardown returns at once for a call that another goroutine
\* is tearing down, and the walk goes on.
ShutdownCall(c) ==
    /\ eng = "draining" /\ busy = {} /\ c \in drain
    /\ drain' = drain \ {c}
    /\ busy' = IF CanTransition(state[c], "tearingDown") THEN {c} ELSE {}
    /\ Teardown(c, "shutdown")
    /\ UNCHANGED <<calls, legs, pend, sess, fixed, taps, bridgeVars, dialogVars, returned, eng,
                   relays, open, free>>

\* Shutdown returns, main returns, and the process takes every goroutine with it.
Exit ==
    /\ eng = "draining" /\ drain = {} /\ busy = {}
    /\ eng' = "exited"
    /\ UNCHANGED <<callVars, bridgeVars, dialogVars, tdVars, drain, busy, relays, open, free>>

Exited ==
    /\ eng = "exited"
    /\ UNCHANGED vars

\* What the goroutines and the peers of a call may do.
CallStep(c) ==
    \/ \E o \in Offers, R \in SUBSET Apps : HandleInvite(c, o, R)
    \/ Bridge(c)
    \/ RelayCloses(c)
    \/ TeardownStep(c)
    \/ CallerCancels(c) \/ CallerByes(c) \/ InboundHook(c)
    \/ \E l \in Legs : LegEnds(c, l) \/ LegHook(c, l)
    \/ Reap(c)
    \/ ShutdownCall(c)

Next ==
    \/ \E c \in Calls : CallStep(c)
    \/ RunCtxDone
    \/ Shutdown
    \/ Exit
    \/ Exited

Spec == Init /\ [][Next]_vars

\* The Go scheduler runs every goroutine that can run while the process lives, and
\* every SIP exchange of the bridge and of a teardown is bounded by a deadline: leg
\* timeouts, shutCtx, Timer B.  main runs from the end of Run to its own.  Peers, the
\* reaper's clock and what ends Run are free.
Fairness ==
    /\ \A c \in Calls :
        /\ WF_vars(Bridge(c))
        /\ WF_vars(RelayCloses(c))
        /\ WF_vars(TeardownStep(c))
        /\ WF_vars(InboundHook(c))
        /\ \A l \in Legs : WF_vars(LegHook(c, l))
        /\ WF_vars(ShutdownCall(c))
    /\ WF_vars(Shutdown)
    /\ WF_vars(Exit)

FairSpec == Spec /\ Fairness

-----------------------------------------------------------------------------
(* Properties *)

\* The pairs a call has taken from the pool and not given back.
Owned(c) == cur[c] \cup pend[c] \cup ((fixed[c] \cup taps[c]) \ returned[c])

\* Neither goroutine of the call will do anything more.
AtRest(c) == pc[c] = "done" /\ td[c] \in {"none", "done"}

\* Teardown was committed under a bridge goroutine that was still setting up.
SetupInterrupted(c) ==
    td[c] # "none" /\ Inbound \notin tdLegs[c] /\ cause[c] # "bridge"

\* Whatever the interleaving of bridges, teardowns and failures, no pair is in the
\* pool twice, in the pool while a call uses it, or in use by two holders: fail,
\* tap.release, releasePendingTaps and the releaseMedia hook never return the same
\* pair twice and never return one that has been handed out again.
PairOwnedOnce ==
    /\ \A p \in Pairs : free[p] <= 1
    /\ \A c \in Calls : \A p \in Owned(c) : free[p] = 0
    /\ \A c, d \in Calls : c # d => Owned(c) \cap Owned(d) = {}
    /\ \A c \in Calls :
        /\ cur[c] \cap (pend[c] \cup fixed[c] \cup taps[c]) = {}
        /\ pend[c] \cap (fixed[c] \cup taps[c]) = {}
        /\ fixed[c] \cap taps[c] = {}

\* An established call is whole, so handleReInvite and handleRefer may use what they
\* read under call.mu: it has its session and its pairs, its PBX leg is recorded and was
\* answered, it is registered, no tap is left pending, and every socket of the session is
\* bound.  Only the end of Run may have closed the session under it, and then every
\* socket with it.
EstablishedIsWhole ==
    \A c \in Calls : state[c] = "established" =>
        /\ fixed[c] # {}
        /\ \/ sess[c] = "open" /\ fixed[c] \cup taps[c] \subseteq open
           \/ sess[c] = "closed" /\ eng # "run" /\ (fixed[c] \cup taps[c]) \cap open = {}
        /\ PBX \in legs[c] /\ leg[c][PBX] \in {"hooked", "ended", "lost", "unmatched", "gone"}
        /\ pend[c] = {} /\ cur[c] = {}
        /\ c \in calls

\* on_failure: a call is established, and its PBX dialled, only if every application
\* routed to it was invoked or failed under the skip policy.
PolicyHonoured ==
    \A c \in Calls : PBX \in legs[c] =>
        \A i \in Apps :
            \/ outcome[c][i] \in {"unrouted", "invoked", "tapless"}
            \/ outcome[c][i] = "failed" /\ Sequence[i].onFailure = "skip"

\* A call that has ended holds no port pair and has no bound socket, unless its
\* teardown was committed while the bridge was still setting it up.
NoLeakUnlessInterrupted ==
    \A c \in Calls : AtRest(c) /\ td[c] = "done" /\ ~SetupInterrupted(c) =>
        Owned(c) = {} /\ sess[c] # "open"

\* When handleInvite returns the caller has its final response (a 200 that the
\* transport refused included), unless teardown overtook the setup.
FinalUnlessInterrupted ==
    \A c \in Calls : pc[c] = "done" /\ ~SetupInterrupted(c) =>
        inb[c] \notin {"pending", "dropped"}

\* Teardown of an established call leaves no outbound dialog up, also when legs end
\* or the caller is answered while it runs.
EstablishedTeardownByesAll ==
    \A c \in Calls : td[c] = "done" /\ Inbound \in tdLegs[c] =>
        \A l \in Legs : leg[c][l] \notin {"ringing", "late", "up", "hooked"}

\* A call leaves the registry (and the active-call gauge) only after its media is
\* closed and the pairs its release hook knows are back in the pool.
DeregisteredIsUnwound ==
    \A c \in Calls : state[c] # "none" /\ c \notin calls =>
        /\ state[c] = "tearingDown"
        /\ sess[c] # "open"
        /\ fixed[c] \subseteq returned[c]

\* A pair in the pool has no socket bound, so the next call that takes it can bind it:
\* the hook closes before it returns, and every early exit closes what it returns.  The
\* one exception is a tap that dialPBX adds to a session the hook has closed already.
FreeIsUnboundUnlessLateTap ==
    \A p \in open : free[p] > 0 => \E c \in Calls : sess[c] = "closed" /\ p \in taps[c]

\* The bridge and teardown implement the lifecycle the registry's users rely on; in
\* particular a PBX answer that arrives late does not bring a dead call back.
Lifecycle == INSTANCE CallLifecycle
RefinesLifecycle == Lifecycle!Spec

\* Setup ends: every INVITE gets out of the chain, the anchoring and the PBX dial,
\* unless the process exits first.
SetupEnds ==
    \A c \in Calls : pc[c] = "admitted" ~> pc[c] \in {"relay", "done"} \/ eng = "exited"

\* The end of a dialog whose hook is installed, or of the inbound dialog, unwinds
\* the whole call: it leaves the registry, its bridge goroutine returns and its media
\* goroutine closes the session, unless the process exits first.
DialogEndUnwindsCall ==
    \A c \in Calls :
        (inb[c] \in {"cancelled", "ended"} \/ \E l \in Legs : leg[c][l] = "ended")
            ~> \/ c \notin calls /\ pc[c] = "done" /\ c \notin relays
               \/ eng = "exited"

\* The end of Run ends the process, and before that every call that Shutdown's snapshot of
\* the registry has, whichever phase of setup the call is in when its turn comes: it leaves
\* the registry and its dialogs get their BYEs.  Two kinds of calls are not promised that:
\* those another goroutine began to tear down first, which the exit may cut short, and those
\* whose INVITE arrives after the snapshot.
SnapshotIsEnded ==
    /\ eng # "run" ~> eng = "exited"
    /\ \A c \in Calls : c \in drain ~>
        \/ c \notin calls /\ td[c] = "done"
        \/ eng = "exited" /\ cause[c] \notin {"none", "shutdown"}

-----------------------------------------------------------------------------
(* What comments and requirements say of the code, and the code does not keep *)

\* "every setup-phase failure must release them" (bridge.go, fail) and "the fork
\* media ports are released" (User-story-10): a call that has ended holds no pair.
NoPortLeak ==
    \A c \in Calls : AtRest(c) /\ td[c] = "done" => Owned(c) = {}

\* A BYE from either side tears the call down, whatever the leg's transport.
LegByeUnwindsCall ==
    \A c \in Calls : (\E l \in Legs : leg[c][l] = "unmatched") ~> c \notin calls

=============================================================================
