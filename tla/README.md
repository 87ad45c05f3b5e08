# The SIP sequencer in TLA+

This project specifies, model-checks and proves the behaviour of
`voipstack-sip-sequencer`: a SIP back-to-back user agent that takes an inbound
INVITE through a chain of application servers to a PBX, anchors the media, forks
it to the applications that asked for it, and takes everything down again
whichever party goes first. It also covers the recording application that ships
with it, the requests it forwards as a proxy, what it makes of session descriptions,
and its start and end as a process. Paths below are relative to `src/`.

## 1. The system

| component | state | operations | models |
|---|---|---|---|
| call bridge: `internal/b2bua/bridge.go`, `call.go`, `state.go` | one `Call` per INVITE: state, application and PBX legs, pending taps, media session, release hook, context | `handleInvite`, `runAppChain`, `anchorMedia` and the WebRTC variants, `originatePBX`, `dialPBX`, `fail`, `Call.teardown` | `CallBridge`, `CallLifecycle` |
| call registry: `registry.go` | calls by id and by dialog | `add`, `addDialog`, `remove`, `each` | `CallBridge`, `CallLifecycle` |
| port allocator: `media.go` | a stack of returned pairs and a cursor | `Acquire`, `Release` | `PortAllocator`, `PortPool` |
| mid-call requests: `midcall.go`, `refer.go` | where each side sends, the PBX's last answer, transfer target, detached flag | `handleReInvite`, `handleRefer` | `MidCall` |
| media relay and idle reaper: `media.go`, `reaper.go` | four copy loops, `closeOnce`, `lastActivity`, the ticker | `bridgeLegs`, `copyLegRTP`/`RTCP`, `Close`, `startReaper` | `MediaRelay` |
| WebRTC leg: `webrtc.go`, `mediasec.go` | PeerConnection, `ready` channel | `ReadRTP`, `WriteRTP`, `ReadRTCP`, `WriteRTCP`, `Close` | `MediaRelay`, in part |
| engine: `engine.go` | listeners, dialers, dialog caches, `runCtx` | `New`, `Run`, the dispatch of requests, `Shutdown` | `Startup`, `Proxy`, `CallBridge` |
| recording application: `applications/recording/recorder` | sessions by Call-ID, sockets, recording goroutines | `handleInvite`, `OnBye`, `closeAll`, its SDP | `Recorder`, `Sdp` |
| SDP operators: `sdp.go` | none | parse, rewrite, build offers and answers | `Sdp`, `MediaNegotiation` |
| proxy: `proxy.go`, `flowtoken.go`, `register.go`, `trickle.go` | none kept; flow tokens in Path and Record-Route | `forwardAndRelay`, `forwardStateless`, `routeToFlow`, `handleRegister`, `handleInfo` | `Proxy`, `ServerTransaction` |
| configuration, routing: `internal/config` | the parsed file | `Load`, defaults, validation, resolution of profiles | `Config` |
| TLS profiles: `internal/tlsprov` | material cache | `LoadAll`, `Load`, `ServerConfig`, `ClientConfig`, verification callbacks | `TLSPolicy`, `Startup` |
| command line: `cmd/sip-sequencer` | exit code | `main` | `Startup` |
| header relay, rtpdump, metrics, end-to-end harness | | | not modelled, see section 8 |

How they meet. The SIP stack (sipgo, external) runs every request in a goroutine
of its own. An INVITE's goroutine is the bridge: it stays in `handleInvite`
until the call is over. Each dialog has an `OnState` hook that the stack calls in
yet another goroutine and that calls `teardown`; the reaper and `Shutdown` call
it too. These goroutines share the `Call` under `call.mu`, the registry and the
allocator under mutexes of their own, and the call's context, whose cancellation
ends blocking SIP exchanges and the relay. The relay adds four goroutines per
call that share two sockets, or a socket and a PeerConnection, with whoever closes
them.

What is hard about it, in the order of what it would cost:

* ports are finite and returned by five different paths, so a path that forgets
  a pair leaks it and one that returns it twice gives it to two calls;
* teardown works on a snapshot of a call that is still being set up;
* the handler must answer the caller on every one of its exits;
* re-INVITE and REFER handlers use what they read before a blocking exchange
  after it, while teardown and each other run;
* a call must come down when its peers are silent and must not when they are
  not, measured by a ticker with a stale clock;
* everything that waits must be woken: setup, relay, Shutdown;
* a forwarded request has one originator and may get answers, a timeout, a CANCEL and the
  end of the run in any order, and may come back through the next hop;
* descriptions are read and rewritten by several passes that do not agree on which media
  section, or whose `c=` line, they mean;
* a configuration is accepted or refused as a whole, before the first socket is bound,
  while material is cached under less than what it depends on.

`PROJECT.json` lists each hazard at its line, with the properties that watch it.

## 2. The modules

| module | models | used by |
|---|---|---|
| `PortPool` | what the bridge may assume of the allocator: a bag of pairs that `Take` and `Give` change | `CallBridge`, `PortAllocator` |
| `PortAllocator` | `PortAllocator` of `media.go`: stack and cursor | |
| `PortAllocatorProofs` | theorems about it | |
| `CallLifecycle` | the abstract life of a call: admitted, established at most once, ended once, removed | `CallBridge` |
| `CallBridge` | setup and teardown of any number of calls | |
| `CallBridgeProofs` | theorems about what a call holds (types, pairs, sessions, sockets) and about its life (refinement, replies, legs, policy, what is left when it ends) | |
| `MidCall`, `MidCallProofs` | re-INVITE, REFER and teardown of one established call | |
| `MediaRelay`, `MediaRelayProofs` | the copy loops, `closeOnce`, the reaper and time | |
| `Recorder`, `RecorderProofs` | the recording application | |
| `ServerTransaction` | what a forwarding handler owes the originator: responses of which only the last is final | `Proxy` |
| `Proxy`, `ProxyProofs` | forwarding, relaying, REGISTER with Path, flows, INFO | |
| `Sdp` | every operator of both `sdp.go` files, over sequences of lines | `MediaNegotiation` |
| `MediaNegotiation`, `MediaNegotiationProofs` | one call's descriptions from the caller's offer to the PBX's answer | |
| `Config` | defaults, validation and resolution of a document | `TLSPolicy` |
| `TLSPolicy` | loading of key material, the two kinds of context, who completes a handshake | `Startup` |
| `Startup`, `StartupProofs` | the process from `main` to its exit | |
| `MCCallBridge`, `MCMidCall`, `MCMediaNegotiation`, `MCStartup` | application chains, descriptions, documents and peers, symmetry and constraints for TLC | |

Definitions whose names start with `Mut` are defects the code might have had. Each
stands before the definition it differs from by one slip. No specification uses them;
`PROJECT.json` pairs each with the property that must fail when it takes the
definition's place.

### CallBridge

The variables are the fields of `Call` (`state`, `legs`, `pend` for
`pendingTaps`, `sess`, `fixed` and `taps` for the media session and what its release
hook will return), the bridge goroutine (`pc`, `at`, `offer`, `cur`, `outcome`), the
dialogs as the peers see them (`inb`, `leg`), the teardown in progress (`td`, its
snapshot `tdLegs` and `tdHook`, `cause`, `returned`), the engine (`eng`, `drain`, `busy`,
`relays` for the media goroutines) and the machine (`open` for bound sockets, `free` for the
pool).

The end of the process has the order of `main`. `RunCtxDone` is the signal or the failed
listener that ends `Run` and cancels `runCtx`, and with it the context of every call: from then
on a call's relay may close the session (`RelayCloses`) while the call still counts as
established. `Shutdown` then takes its snapshot of the registry and walks it (`ShutdownCall`);
for a call that another goroutine is tearing down `teardown` returns at once. When the walk is
over `Exit` ends the process, and with it every goroutine that is still at work.

One action is what the code does between two points at which another goroutine can
act: a critical section of `call.mu`, the allocator or the registry, or one blocking
SIP exchange. Where the code unlocks and goes on, the model has two actions:
teardown commits under the lock, then cancels, closes, releases, removes and sends its
BYEs as separate steps, and the release hook's `Close` and `tapList` are separate
because `addTap` may run in between.

Data is reduced to what a decision depends on. An offer is one of six kinds: whether
it is WebRTC, whether its codecs can be listed, whether its address can be read. An
application is its tap, policy, URI and transport. Routing is a free choice of the
applications a call has. SIP peers, the socket layer and the pion library may succeed
or fail at every call; a leg answers, refuses or stays silent until its deadline. A BYE of a
teardown is tried, within the five seconds they share, whether or not the peer hears of it.

`PortPool` is the allocator seen from outside. That `PortAllocator` implements it is
checked and proved, so what is shown of `CallBridge` holds with the real allocator.

### MidCall

The call starts established, as `EstablishedIsWhole` describes it while `Run` lasts; what its
end closes under a call is in `CallBridge`, and where the sides send to does not depend on it.
Each request has a handler of its own. Media addresses are named by the request that brought them, so
"both sides and the recorded answer belong to the same exchange" is an equation.
`inb` tells apart why the inbound dialog ended: by the caller, by a referrer who had
its NOTIFY, or by our own BYE.

### MediaRelay

A packet either parses or does not, which matters only to a secured leg. `age` is the
time since `lastActivity` was stored, `silence` the time since a packet was really
read, `lag` how stale the reaper's `now` has become by the time it gets to this call.
The clocks stop one unit beyond `Patience`, where no property tells values apart.
Closing the session takes two steps, and the `closeOnce` makes the second closer
wait.

### Recorder

An INVITE has a Call-ID of its own, as all legs of the sequencer have, so the registry
is a set of INVITEs. Terminating a session takes it out under the lock and closes the
sockets afterwards, in two steps. Files and folders are left out.

### Proxy

A transaction is one request and the handler goroutine it runs in. `Handle` is the
dispatch that `Run` sets up, a pure decision: reply at once, bridge (then `CallBridge`
takes over), write an ACK and forget it, or relay. `Receive` acts on the decision, and the
four actions of `RelayStep` are the cases of `forwardAndRelay`'s `select`, any of which may
be taken when it is ready. A decoded flow token is its length, transport code and address;
Max-Forwards is an integer modulo `MaxForwardsModulus`, 2^32 in the code. Around the code
are its peers, marked external: a webphone that registers, is called, speaks on its dialog
and may reconnect from another address, a registrar behind the next hop, a next hop that
hands a request back if its top Route is ours, and the SIP library's client transactions.

### Sdp and MediaNegotiation

A description is a sequence of lines: `c=`, `m=`, `a=rtpmap`, `a=fmtp`, `a=fingerprint`,
direction. Lines no operator reads are left out. Where the code's single pass only finds the
first line of a kind, the operator names that position; where it carries a state along, `Pass`
is the recursive function from the number of lines read to that state, and `ReadMedia`,
`ReadTap` are what one line does to it. `SecuredAnswers` are the answers the WebRTC library may
give, as far as the sequencer reads them: all codecs of the offer that it knows, or some of them
where it minds the format parameters, in the offer's order. `TrackDecodes` is what a webphone
hears of the PBX: the library's track is Opus, and its packets get Opus's payload type. `MediaNegotiation` takes an offer through the tap of an application,
the anchor and the PBX, for a plain and a secured caller; its properties compare what the
code read and wrote with `StreamAt`, the reading a peer makes by RFC 4566, and name exactly
the descriptions where the two differ.

### Config, TLSPolicy and Startup

A document is a record of what the file says, key by key; `Parse` is `config.Load` and is
`Nil` for one that is refused. Durations, addresses, versions and cipher names are members of
small sets with a good and a bad representative. `TLSPolicy` has the files (which key fits
which certificate, sealed with which passphrase), the provider's cache, the version and cipher
mapping and both contexts; a peer is a version, cipher suites and a certificate with its chains.
A server is dialled by name or by an IP literal. `Trusts` says whom a profile is meant to let in,
`Identifies` that a server is the one that was dialled, `Completes` whom the built context lets
in.
`Startup` puts them into `main`: load, build, then the listeners, the observability server and
the reaper as goroutines that bind, fail and stop in any order.

## 3. What the runs check

| run | instance | states | shows |
|---|---|---|---|
| `allocator` | ports 4..14, an odd-sized range of five pairs | all | conservation of pairs, exact exhaustion, `RefinesPool` |
| `bridge` | one call, six kinds of offer, a tapped skip and an untapped abort application, 4 pairs | 1.6 million | eight invariants and `RefinesLifecycle` |
| `contention` | a tapped call and a second one, 4 pairs of the 6 they need | 690 thousand | pair ownership when the pool runs dry |
| `liveness` | one call, plain or WebRTC, an application and one with a bad URI | 186 thousand | setup ends, hang-ups unwind, the end of Run ends the process and before it every call of Shutdown's snapshot that nobody else tears down |
| `midcall` | two re-INVITEs and a REFER | 168 thousand | anchors agree, transfers survive their own BYE, targets are ended, every handler finishes |
| `relay` | three copy loops, plain and secured, timeout 4, period 2, lag 1 | 370 thousand | failures stay in their direction, the reaper is neither early nor late, the relay unwinds |
| `recorder` | two INVITEs of two streams | 68 thousand | no socket is orphaned, BYE and shutdown end recordings |
| `proxy` | two transactions, a phone with an IPv4 and an IPv6 address, Max-Forwards 0 and 1 | 306 thousand | one final response, the destination's own, hops run dry, flows deliver |
| `sdp` | every description of up to four lines over twelve kinds of line, five application answers | 1.1 million | who sends media where; which descriptions are refused; which silent calls are counted |
| `startup` | every document within two changes of a good one, every peer within two changes of a good one, dialled by name or address | 167 thousand | the document is served whole or not at all, contexts let in whom they promise, a stop ends everything |
| `leak`, `tlsbye` | one call each | | the code does not do what its comments or requirements say, section 7 |

Why the bounds suffice. A call needs two pairs for itself and two per tap, so four
pairs let one tapped call through and make two calls collide. The two applications of
`bridge` differ in tap and policy, and every routing decision of each is explored, so
the chain is also empty, only tapped and only untapped. An odd-sized port range is
where the cursor could hand out half a pair. Three loops give a direction with a
neighbour on its source and one against it; with `IdleTimeout` 4 and a period of 2 a
tick can be early, on time and late with respect to the last packet. Two transactions are
a request and the same request come back, or a REGISTER and the call it makes possible; with
Max-Forwards 0 and 1 a request comes back once and is then refused, and a modulus of 128
lets an ACK wrap. A phone with two addresses can be on, and off, the flow its token names.
Four lines hold two media sections with a `c=` line each, or one with a session-level and a
media-level one; of a call's offer and answer one is always a common description, since no
operator looks at both but the codec check, for which the common ones have agreeing, disjoint
and renumbered payload types, and one answer with two formats. `startup` combines any two changes of listeners, legs, profiles,
files, ports and idle timeout, which depend on each other; other keys are validated on their
own and change one at a time. What is proved in section 5 holds without any bound.

Types are checked in `bridge`. In the other modules a wrong type would show in the properties
named, and where there is a proof `TypeOK` is part of its invariant.

Symmetry is used over port pairs, which no definition tells apart, in runs whose
properties are invariants or step properties only.

## 4. Fairness

The Go scheduler runs every goroutine that can run: handlers, hooks, teardown, copy
loops, the reaper; and `main` from the end of `Run` to its own. All blocking exchanges of these goroutines have a deadline in the
code: leg timeouts, the shutdown context, SIP Timer B, so the wait for an answer ends
even if no answer comes, by failing. That is weak fairness of the handler's steps as a
whole, never of a particular outcome. Callers, applications, PBX, transfer targets,
packets, signals and hang-ups are not assumed to do anything. In `CallBridge` fairness ends with
the process: no step of a goroutine is possible after `Exit`, and the liveness properties name
the exit where it may come first. `MediaRelay`, `MidCall`, `Proxy` and `Recorder` model a process that
lives on; what they show to happen after the end of `Run` happens unless the exit comes first. In
`MediaRelay` time passes and a due tick is taken at once; other calls may hold the
reaper for at most `MaxLag`. In `Proxy` the handler's goroutine runs, and the library's
timers end every client transaction; no destination need answer. In `Startup` the code's own
steps happen; listeners need not fail and no signal need come.

## 5. What is proved

TLAPS checks the following for every value of the constants: any number of calls,
applications, port pairs and overlapping requests.

* `PortAllocatorProofs`. `PairsConserved`: each pair of the range is on the stack
  exactly once, above the cursor, or held. `ExhaustionIsExact`: `Acquire` fails exactly
  when all pairs are out. `ImplementsPool`: the allocator implements `PortPool`. The
  invariant is `TypeOK /\ Conservation`; the lemmas say what popping, pushing and
  advancing the cursor do to the set of stacked pairs. Assumption: the port range is
  one `parsePortRange` accepts.
* `CallBridgeProofs`. `TypeCorrect`, from `TypeInv`, with one lemma for each composite
  helper (`Fail`, `AppFailed`, `Teardown`, taking and binding pairs).
  `PairsOwnedOnce`: no pair is in the pool twice, in the pool and in use, or in use by two
  holders. This is not inductive: that the hook does not return a pair twice depends on
  where the bridge and teardown stand. `AllPlaces` says, for each position of the two
  goroutines, which of the call's places may hold pairs. It is shown to be preserved first
  (`PlacesStep`). Then every step only takes one pair (`TakeOne`), gives back what it owns
  (`GiveBack`), moves pairs between places of one call (`HandOver`) or touches none.
  `PoolIsUnbound`: a pair in the pool has no socket, but for the late tap. `Sockets` says
  which sockets are bound for a call at each of its positions, and that no others are. For it
  to be preserved, sockets of two calls have to differ, which is `PairOwnedOnce`, and a
  session has to be closed before its pairs are returned, which is `AllMedia` (what the
  session is, by the position of the bridge and of teardown) with `HookTaken` (a committed
  teardown has the release hook exactly when there is a session).
* `CallBridgeProofs`, second part. `ImplementsLifecycle`: `CallBridge` implements
  `CallLifecycle`. Besides `AllPlaces` it needs that a call which is set up or
  established is registered (`Registered`). The other theorems follow from `CallInv`, which
  adds one part for each thing that both goroutines depend on. Each part is preserved by
  every step given those before it:
  `AllSettled` (a teardown that did not interrupt the setup found nothing pending, so that the
  hook sees every tap), `AllReplied` (the final response is owed until the goroutine failed or
  answered), `AllPBX` (the PBX leg is recorded before it is answered, answered before the call
  is established), `AllLegs` (an INVITE is in the air only while the goroutine waits for it,
  and a leg that is up is on the call, and in the snapshot of a teardown that found the call
  established) and `AllPolicy` (the applications before the current one are decided).
  `UnwoundBeforeRemoved` then needs `Registered` and `AllMedia`, `EstablishedWhole` the pairs,
  sockets and PBX leg (and `AllRelays`: only a relay whose context is done has closed the session
  of an established call), `NothingLeaks` the settled calls, `FinalIsSent` the replies,
  `TeardownByesAll` the legs, `PolicyIsHonoured` the policy. TLC found `CallInv` to hold on the
  instances of `bridge` and `contention` before it was proved.
* `MidCallProofs`. `TransferOutlivesOwnBye` needs that the BYE of a transfer comes
  after the detachment, in the handler and therefore on the dialog. `AnchorsAlwaysAgree`
  is inductive with the types. `RecordedTargetsAreByed` needs that a target is recorded
  only after its answer, so that teardown's snapshot names none that may still come up.
* `MediaRelayProofs`. `FailuresStayIsolated` needs that both sides are open until
  `closeOnce` is entered. `ReapedWereSilent` needs that `lastActivity` is as fresh as the
  last packet and that the staleness of a tick only makes a call look less idle.
  `ReapedAlwaysInTime` needs the clock invariant: at its last tick the reaper found the
  call active, so its silence exceeds the timeout by at most what the ticker has run
  since, and by at most one period and the lag while the reaper is at it. Assumption:
  the reaper is never held up for longer than one period.
* `RecorderProofs`. `SocketsAlwaysAccounted` is inductive with the types.
* `ProxyProofs`. `HandleSound` says what the dispatch may decide, from one lemma for each
  handler: what is relayed had hops left and has one fewer, what is written is an ACK.
  `HopsAlwaysRunDry` follows with the types. `AnsweredOnce`, that `Proxy` implements
  `ServerTransaction`, needs that a handler which has not returned has sent no final response
  and knows the status for a destination that gives none. `AnswersReachOriginator` is a step
  property and needs that a final response that waits is the destination's own
  (`AnswerInv`), and that the originator of a request being relayed has nothing but
  possibly the 487 of a CANCEL. `FlowsAlwaysDeliver` is a step property too. It needs that
  every token in a Path, a Record-Route, the registrar or the dialog was minted for an address
  of the phone, and that a request routed along a flow has lost the sequencer's Route, so that
  none of these comes back from the next hop (`FlowInv`). Assumption: a Max-Forwards that
  arrives is a uint, or absent.
* `StartupProofs`. `ParseSound` says what an accepted document gives: every listener and every
  outbound leg has the profile it names, with all defaults, and every deadline is positive.
  It is about `applyDefaults`, `validate`, `resolveTimeouts` and `resolveTLS` together, for
  documents of any size. `DocumentIsServed` carries that to the sockets. Its invariant
  `StartInv` says which profiles `LoadAll` has still to read, that the rest are in the cache,
  read for a profile with the same files, and that in `Run` every profile has its context.
  `PromisesKept`, about the step in which `New` builds the contexts, needs that invariant to
  know whose trust pool the cache gave; then it is a case distinction over the three ways of
  verifying, for any chains and dates. With relaxed dates a server that was dialled by an IP
  literal may be any trusted one, which the theorem names as an exception. Assumptions: a document that can be decoded has the
  types of `rawConfig`; `Nil` is no profile and no pool of roots; a peer is dialled by name or by
  address; its certificate does
  not expire before it becomes valid (one that does is never valid, and only the verification
  with relaxed dates could notice).

* `MediaNegotiationProofs`, for descriptions of any length. A pass is a recursive function, and
  what it has read after `i` lines is shown by induction on a set: the positions up to which a
  statement holds contain 0 and are closed under the next one (`UpTo`; `UpFrom` starts elsewhere),
  because `WFMin` gives every set of naturals a least element. `PassExists` says that a pass has
  a state after each line, `MediaPassSteps` and `TapPassSteps` that it goes from one to the
  next as the code does. From these: where `parseMedia` ends up (the last audio section, its own
  `c=` line or the latest line taken for the session's), which stream of `parseTapAnswer` a
  section becomes and which later lines still touch it, where `rewriteToAnchor` puts the address,
  that `Keep` keeps order, and that what `buildAnswer` writes is read back as written. `NegInv`
  says of each stage where its descriptions and addresses come from: each is what one operator
  makes of what was received. It is inductive (`NegotiationInvariant`), it was run through TLC
  first, and each of the four properties follows from it and the lemmas on the operators.
  `PeersSendToAnchorHolds` is the equivalence in both directions: media bypasses the anchor
  exactly in the cases named. `AnchorSendsToPeersHolds` also covers the refusals.
  `TapStreamsInOrderHolds` has two parts, an application's answer of any shape and the recorder's
  own answer to any offer that could be copied. `SilentCallIsReportedHolds` needs that the codec
  both sides agreed on is looked up in the section its payload type is read from, and what the
  first codec of a secured answer is, whichever of the offer's codecs the library agreed to.
  The proofs corrected the properties in four places that the earlier, smaller instance did not
  reach: a sender that is at the sequencer's address already is told the right address although
  the wrong line was rewritten; a payload type with two names is two codecs to one reader; a
  `c=` line without an address leaves the string variables of the code as if there were no line; a
  tap answer whose first section is video and has the only `c=` line after the session's lends it
  to the audio sections. The instance of `sdp` now has lines for each of them.
  Assumptions: the descriptions are sequences of `Line`; the sequencer's and the recorder's ports
  are positive and the recorder's host is an address; an error value is none of the results; the
  empty string is not an address; Opus, the codec of the library's track, has no static payload
  type.

Assumptions on constants are in the modules that declare them: `Sequence` is a sequence
of applications, names of requests differ, the port range is not empty. TLC evaluates
them in every run.

## 6. What is only model-checked

Liveness, in every module, and with it `StopEndsProcess` of `Startup`: the prover does not deal
with fairness. Every safety invariant and every step property that a run checks is proved, and
so are the refinements of `PortPool`, `CallLifecycle` and `ServerTransaction`. The strengthened
invariants of section 5 were run through TLC before they were proved, `StartInv` on the documents
within one change of the good one.

The induction theorems of the library take an operator as a parameter, which the installed
provers cannot instantiate; `MediaNegotiationProofs` does without them, at a price in
the models: a pass has to be a recursive function of the number of lines, not a fold, and there
is no RECURSIVE operator in a module that is reasoned about.

## 7. Where code and comments disagree

Two runs show it, with the lines quoted in `PROJECT.json`:

* `leak`: a call torn down while its taps are pending keeps their pairs for good.
* `tlsbye`: the BYE of a leg over TLS is not matched to its dialog; the call stays up.

The passing properties say how far the promise goes instead: `NoLeakUnlessInterrupted`,
`DialogEndUnwindsCall`.

The models have further behaviours of this kind that no run is spent on. In calls:

* a setup overtaken by teardown returns from `handleInvite` without a final response
  (`bridge.go:530`, against the comment at `bridge.go:119`); `FinalUnlessInterrupted` is what
  holds;
* a referrer that hangs up as soon as it gets its NOTIFY drops the transferred call, because
  the detachment comes after the NOTIFY (`refer.go:133`); `OwnByeKeepsTransfer` is what holds;
* a BYE that reaches the recorder between its 200 and the registration terminates nothing, and
  the recording goes on (`record.go:213`); `ByeEndsRecording` is about BYEs after it;
* a session that is registered after `closeAll` has taken its snapshot is ended by nobody
  (`record.go:65`); `ShutdownEndsRecordings` is about the snapshot's;
* a leg answered while teardown runs is appended after the snapshot and never gets a
  BYE (`bridge.go:435`); `EstablishedTeardownByesAll` holds for established calls;
* a tap added between the hook's `Close` and its `tapList` is returned with its sockets
  bound (`bridge.go:105`); `FreeIsUnboundUnlessLateTap` shows it is the only way;
* a tap answer that does not parse lets the call through under `on_failure: abort`
  although the comment at `bridge.go:406` wants it treated as a failure of the
  application; `PolicyHonoured` lists it as the exception `tapless`;
* `Shutdown` does not wait for a teardown that another goroutine began (`call.go:112`): the
  process may exit before that call's ports, gauges and BYEs are dealt with, although
  `packaging/systemd/voipstack-sip-sequencer.service:18` counts on "the engine's 5s
  graceful-shutdown window so in-flight calls BYE cleanly"; `SnapshotIsEnded` names the case;
* a call admitted after Shutdown's snapshot is still established when Shutdown
  returns (`engine.go:421`); `SnapshotIsEnded` is what holds;
* the end of `Run` closes the media of a call before `Shutdown` comes to it, so that the call is
  silent but established until its BYEs (`media.go:315`); `EstablishedIsWhole` says what is left
  of it;
* a re-INVITE in flight across a transfer points the endpoint side back at the
  referrer (`midcall.go:121`); `AnchorsAgree` says that it is the last exchange or the transfer
  that the sides belong to;
* a transfer target that answers after teardown's snapshot, or is replaced by a second
  REFER, stays up (`refer.go:119`); `RecordedTargetIsByed` is what holds;
* media from one side keeps a call from being reaped whose other side has vanished
  (`media.go:332`), although `reaper.go:14` promises otherwise;
* one RTCP packet that does not parse stops the direction to the webphone, although
  `webrtc.go:275` says it is dropped.

In the proxy:

* `routeToFlow` appends the remaining Route headers to themselves (`proxy.go:207-215`), where
  the comment says it preserves them, and what leaves along a flow goes to the Request-URI
  whatever Routes are left;
* a CANCEL is answered by the library and not forwarded: the destination's late 200 goes nowhere;
* when the library closes the response channel, `forwardAndRelay` returns without a response
  (`RequestAnswered` has this exception);
* an ACK that arrives with Max-Forwards 0 leaves with 2^32-1 (`proxy.go:129`);
* INFO and methods nobody manages are not routed along a flow; with the sequencer's Route on top
  they circle until 483;
* a phone that has reconnected is not recognised as the flow's end: its BYE is sent to its old
  address and answered 480;
* what is forwarded to a TLS next hop is sent by the plain client, without its profile.

In session descriptions:

* `rewriteToAnchor` rewrites the first `c=` and the first `m=audio` only, so media of later
  sections bypasses the anchor (`sdp.go:432`); `PeersSendToAnchor` says when it does not;
* `parseMedia` reads the last audio section while rewriting and codecs go by the first, and takes
  the `c=` of a video section before it for the session's (`sdp.go:381`);
* in a tap's answer the `c=` of a section that follows an audio section overwrites that stream's
  host; an answer with one stream is refused and a declined stream keeps its host, where the comment
  at `sdp.go:313` promises `("", 0)`; and a host that is a name is not rejected although
  `udpAddrPair`'s comment counts on it;
* the one track to a webphone is Opus (`webrtc.go:185`), and the library gives what is sent
  through it Opus's payload type: a webphone and a PBX that agree on PCMU do not hear each other, or
  the call is refused, although user story 21 (AC2, "A non-Opus codec passes through unchanged")
  promises otherwise; `testenv/README.md:120` calls the leg "opus-only";
* renumbered payload types and an agreed codec other than Opus are not reported, a PBX's second
  format is not looked at, and a plain call's check compares the PBX's answer with itself;
  `SilentCallIsReported` says what is.

At start-up:

* the material cache goes by certificate and key path only, so a profile with the same files and
  another CA bundle or passphrase gets the first one's (`provider.go:65`); against `load_all.go`'s
  "an unloadable certificate aborts startup" a wrong one of the two goes unnoticed;
* with `verify_dates: false` a next hop dialled by an IP literal is accepted under any name that
  a trusted root has certified, since `cs.ServerName` is empty then (`verify.go:52`), against
  "Relaxing dates must never relax identity" (`verify.go:24`) and user story 14 (AC7);
  `ContextsKeepPromises` names the case;
* relaxed dates verify at the leaf's `NotBefore` and refuse a peer whose authority was reissued
  later (`verify.go:49`);
* `idle_timeout: 1ns` makes `NewTicker(0)` panic (`reaper.go:23`);
* when a listener fails, `main` prints the error and exits with code 0, while
  `packaging/systemd/voipstack-sip-sequencer.service:13` restarts on failure only;
* a failing observability server is only logged, `tls.profile` without `tls.listen` is ignored, and
  `parsePortRange` accepts ports above 65535, which fail when a call binds them.

## 8. What is not modelled

Byte layouts (`rtpdump.go`, the encoding of flow tokens), header filters, metrics and logs
change no state a property could relate. Matching a routing rule is regexp matching: every
application may be routed to or not. ICE, DTLS and SRTP belong to the pion library, SIP
transactions to sipgo, handshakes and chain building to `crypto/tls` and `crypto/x509`; they
are steps that succeed or fail, or a peer's attributes. The recorder's files and folders and the
flags of its `main` are left out, and so is the harness under `test/e2e`, which is test code. Nothing
that is left has state of its own.

## 9. Plan

Done, in this order: the allocator and its pool, the call bridge with its lifecycle,
mid-call requests, the relay with the reaper, the recording application, the proxy, session
descriptions, the process with its configuration and TLS profiles; proofs of types, ownership,
refinement, the transfer invariants, the relay, the recorder and the proxy.

Then the proofs of what a call is while it is up and of what is left of it (`CallInv`), of the
flows, of the process up to its sockets and contexts, and of the passes over session
descriptions.

What could follow: the copying of files in the recorder and `rtpdump.go`, if their layout is to
be relied on; the matching of routing rules, once a property distinguishes applications by more
than their order; and liveness, should the prover learn to deal with fairness.
