------------------------------- MODULE Proxy -------------------------------
(***************************************************************************)
(* Requests the sequencer forwards instead of bridging them: the ones no   *)
(* handler manages, REGISTER with its Path, and the requests that follow a *)
(* webphone's flow (internal/b2bua/proxy.go, register.go, flowtoken.go,    *)
(* trickle.go, and the dispatch in engine.go).                             *)
(*                                                                         *)
(* A webphone is registered with the registrar behind the next hop under a *)
(* Path that carries its flow, is called over that flow and may reconnect  *)
(* from another address at any time.  The next hop is a proxy: a request   *)
(* whose top Route is the sequencer's it hands back unchanged.  What the   *)
(* registrar, the parties and the SIP library do is marked external.       *)
(***************************************************************************)
EXTENDS Integers, Sequences, FiniteSets

CONSTANTS
    N,                   \* server transactions that are followed
    PhoneAddrs,          \* addresses the webphone connects from
    V6Addrs,             \* those of them that are IPv6 literals
    ZonedAddrs,          \* those with a zone, which are no IP literals to net.ParseIP
    NextHop,             \* address of cfg.NextHop
    NextHopURIs,         \* whether cfg.NextHop.URI parses: a set of "ok" and "bad"
    MaxForwardsModulus,  \* 2^32 in the code: the header is a uint32
    MaxForwards,         \* Max-Forwards values that arrive
    MaxProvisional,      \* bound: provisional responses of a destination
    MaxForwarding        \* bound: forwards under way when a request arrives

ASSUME ProxyAssumption ==
    /\ N \in Nat \ {0}
    /\ NextHop \notin PhoneAddrs
    /\ V6Addrs \subseteq PhoneAddrs /\ ZonedAddrs \subseteq PhoneAddrs
    /\ NextHopURIs \subseteq {"ok", "bad"}
    /\ MaxForwardsModulus \in Nat /\ MaxForwardsModulus > 70
    /\ MaxForwards \subseteq -1 .. MaxForwardsModulus - 1
    /\ MaxProvisional \in Nat /\ MaxForwarding \in Nat

Txs == 1 .. N
Addrs == PhoneAddrs \cup {NextHop}

\* A request that carries no Max-Forwards.
Absent == -1

\* Provisional and final responses of a destination, and those the proxy makes up.
Answers == {180, 200, 486}
Statuses == Answers \cup {408, 480, 481, 483, 500, 502, 503}
Final(s) == s >= 200

-----------------------------------------------------------------------------
(* Flow tokens *)

Transports == <<"udp", "tcp", "tls", "ws", "wss">>

\* A decoded token: its length in bytes, the transport code and the address.
Tokens == [len : {7, 19}, code : 0 .. 4, addr : Addrs]
NoToken == [len |-> 0, code |-> 0, addr |-> NextHop]
\* Blobs no flow is packed into: a wrong length, an unknown transport code.
GarbageTokens == {[len |-> 8, code |-> 3, addr |-> NextHop], [len |-> 7, code |-> 5, addr |-> NextHop]}

mintFlowToken(addr, transport) ==
    IF addr \in ZonedAddrs
    THEN NoToken
    ELSE [len |-> IF addr \in V6Addrs THEN 19 ELSE 7,
          code |-> (CHOOSE i \in 1 .. 5 : Transports[i] = transport) - 1,
          addr |-> addr]

parses(token) == token.len \in {7, 19} /\ token.code < Len(Transports)

-----------------------------------------------------------------------------
(* Requests.  A Route is the sequencer's own with a token, or a foreign one. *)

SelfRoute(token) == [host |-> "self", token |-> token]
ForeignRoute == [host |-> "foreign", token |-> NoToken]

Routes == [host : {"self", "foreign"}, token : Tokens \cup GarbageTokens \cup {NoToken}]

Methods == {"INVITE", "ACK", "BYE", "INFO", "REGISTER", "OPTIONS"}

\* What handleInfo finds out about an INFO: no trickle fragment, a fragment on no dialog
\* of ours or on a call with a plain leg, on a call that is gone, on one with a secured leg.
Fragments == {"none", "unowned", "gone", "secured"}

Requests == [method : Methods, fragment : Fragments, src : Addrs, uri : Addrs,
             mf : -1 .. MaxForwardsModulus - 1, routes : Seq(Routes),
             path : Tokens \cup {NoToken}, recordRoute : Tokens \cup {NoToken},
             dest : Addrs]

\* A request from src to the party at uri, not forwarded yet.
Request(method, src, uri, mf, routes) ==
    [method |-> method, fragment |-> "none", src |-> src, uri |-> uri, mf |-> mf,
     routes |-> routes, path |-> NoToken, recordRoute |-> NoToken, dest |-> uri]

NoRequest == Request("OPTIONS", NextHop, NextHop, Absent, <<>>)

VARIABLES
    nextHopURI,   \* whether cfg.NextHop.URI parses
    pc,           \* the handler of each transaction; "local" when the request is bridged
    req,          \* the request it handles
    fwd,          \* the request forwarded, NoRequest when none was
    noFinal,      \* the proxyFault for a destination without a final response
    clientTx,     \* the client transaction: none, open, ended (Done), closed (Responses too)
    inbox,        \* clientTx.Responses()
    answered,     \* the final response the destination gave, 0 when none
    sent,         \* responses handed to the server transaction
    got,          \* the final response the originator has, 0 when none
    from,         \* the transaction whose forward came back as this one, 0 when none
    stopped,      \* runCtx is cancelled
    phone,        \* where the webphone is connected from
    binding,      \* the Path token the registrar has for it
    dialog        \* the token in the route set of its dialog

forward == <<fwd, noFinal, clientTx, inbox, answered>>
handlers == <<pc, req, forward, sent, got, from>>
parties == <<phone, binding, dialog>>
vars == <<nextHopURI, handlers, stopped, parties>>

TypeOK ==
    /\ nextHopURI \in {"ok", "bad"}
    /\ pc \in [Txs -> {"idle", "relaying", "done", "local"}]
    /\ req \in [Txs -> Requests] /\ fwd \in [Txs -> Requests]
    /\ noFinal \in [Txs -> {0, 480, 503}]
    /\ inbox \in [Txs -> Seq(Statuses)]
    /\ clientTx \in [Txs -> {"none", "open", "ended", "closed"}]
    /\ sent \in [Txs -> Seq(Statuses)]
    /\ got \in [Txs -> Statuses \cup {0, 487}]
    /\ answered \in [Txs -> Statuses \cup {0}]
    /\ from \in [Txs -> 0 .. N]
    /\ stopped \in BOOLEAN
    /\ phone \in PhoneAddrs
    /\ binding \in Tokens \cup {NoToken} /\ dialog \in Tokens \cup {NoToken}

\* The webphone may be registered and in a dialog already.
Init ==
    /\ nextHopURI \in NextHopURIs
    /\ pc = [t \in Txs |-> "idle"]
    /\ req = [t \in Txs |-> NoRequest] /\ fwd = [t \in Txs |-> NoRequest]
    /\ noFinal = [t \in Txs |-> 0]
    /\ inbox = [t \in Txs |-> <<>>]
    /\ clientTx = [t \in Txs |-> "none"]
    /\ sent = [t \in Txs |-> <<>>]
    /\ got = [t \in Txs |-> 0] /\ answered = [t \in Txs |-> 0]
    /\ from = [t \in Txs |-> 0]
    /\ stopped = FALSE
    /\ phone \in PhoneAddrs
    /\ binding \in {NoToken, mintFlowToken(phone, "ws")}
    /\ dialog \in {NoToken, binding}

-----------------------------------------------------------------------------
(* The decisions of the handlers.  Definitions named Mut... are defects the code might
   have had, one step away from the definition that follows them. *)

Reply(s) == [kind |-> "reply", status |-> s, fwd |-> NoRequest, noFinal |-> 0]
Bridge == [Reply(0) EXCEPT !.kind = "local"]

\* buildForward on the request the prepare hooks have edited.
buildForward(r, dest) ==
    [r EXCEPT !.mf = IF @ = Absent THEN 70 ELSE (@ - 1) % MaxForwardsModulus,
              !.dest = dest]

MutLoopCheckDropped(r, prepared, dest, onSendErr, onNoFinal) ==
    [kind |-> "relay", status |-> onSendErr, noFinal |-> onNoFinal,
     fwd |-> buildForward(prepared, dest)]

forwardAndRelay(r, prepared, dest, onSendErr, onNoFinal) ==
    IF r.mf = 0
    THEN Reply(483)
    ELSE [kind |-> "relay", status |-> onSendErr, noFinal |-> onNoFinal,
          fwd |-> buildForward(prepared, dest)]

\* An ACK is written and forgotten; its Max-Forwards is not looked at.
forwardStateless(prepared, dest) ==
    [Reply(0) EXCEPT !.kind = "write", !.fwd = buildForward(prepared, dest)]

proxyUnmanaged(r) ==
    IF nextHopURI = "bad" THEN Reply(500) ELSE forwardAndRelay(r, r, NextHop, 502, 503)

handleRegister(r) ==
    LET token == mintFlowToken(r.src, "ws")
    IN IF token = NoToken \/ nextHopURI = "bad"
       THEN Reply(500)
       ELSE forwardAndRelay(r, [r EXCEPT !.path = token], NextHop, 502, 503)

\* The top Route is this sequencer's Path with a token that decodes.
FollowsFlow(r) ==
    /\ r.routes # <<>>
    /\ r.routes[1].host = "self"
    /\ parses(r.routes[1].token)

\* RemoveHeader takes the first Route off, and the rest, still there, is appended again.
popSelfRoute(r) == [r EXCEPT !.routes = Tail(@) \o Tail(@)]

MutDirectionByURI(r) == r.uri = r.routes[1].token.addr

\* The request arrived over the flow its token names: the phone is speaking.
FromFlow(r) == r.src = r.routes[1].token.addr

routeToFlow(r) ==
    LET token == r.routes[1].token
        popped == popSelfRoute(r)
        dest == IF FromFlow(r) THEN r.uri ELSE token.addr
        prepared == IF ~ FromFlow(r) /\ r.method = "INVITE"
                    THEN [popped EXCEPT !.recordRoute = token]
                    ELSE popped
    IN IF r.method = "ACK"
       THEN forwardStateless(prepared, dest)
       ELSE forwardAndRelay(r, prepared, dest, 480, 480)

\* Candidates that a secured leg cannot take are logged and the answer is 200 all the same.
handleInfo(r) ==
    CASE r.fragment = "gone" -> Reply(481)
      [] r.fragment = "secured" -> Reply(200)
      [] OTHER -> proxyUnmanaged(r)

\* The handlers that try routeToFlow first.
RoutedToFlow(r) == r.method \in {"INVITE", "ACK", "BYE"} /\ FollowsFlow(r)

\* The handlers Run registers.  REFER has its own, modelled in MidCall.
Handle(r) ==
    CASE r.method \in {"INVITE", "ACK", "BYE"} ->
            IF RoutedToFlow(r) THEN routeToFlow(r) ELSE Bridge
      [] r.method = "REGISTER" -> handleRegister(r)
      [] r.method = "INFO" -> handleInfo(r)
      [] OTHER -> proxyUnmanaged(r)

-----------------------------------------------------------------------------
(* Arrival.  The transactions are taken in the order of their numbers. *)

\* tx.Respond: the originator keeps the first final response.
Respond(t, s) ==
    /\ sent' = [sent EXCEPT ![t] = Append(@, s)]
    /\ got' = [got EXCEPT ![t] = IF @ = 0 /\ Final(s) THEN s ELSE @]

Done(t) == pc' = [pc EXCEPT ![t] = "done"]

\* The listeners end with runCtx.
Available(t) ==
    /\ ~ stopped
    /\ pc[t] = "idle"
    /\ \A u \in 1 .. t - 1 : pc[u] # "idle"

Answered(t, o) ==
    /\ o.kind = "reply"
    /\ Respond(t, o.status) /\ Done(t)
    /\ UNCHANGED <<req, forward>>

Bridged(t, o) ==
    /\ o.kind = "local"
    /\ pc' = [pc EXCEPT ![t] = "local"]
    /\ UNCHANGED <<req, forward, sent, got>>

\* An ACK that cannot be written is logged.
Written(t, r, o) ==
    /\ o.kind = "write"
    /\ Done(t)
    /\ req' = [req EXCEPT ![t] = r]
    /\ fwd' \in {fwd, [fwd EXCEPT ![t] = o.fwd]}
    /\ UNCHANGED <<noFinal, clientTx, inbox, answered, sent, got>>

SendFails(t, o) ==
    /\ o.kind = "relay"
    /\ Respond(t, o.status) /\ Done(t)
    /\ UNCHANGED <<req, forward>>

SendSucceeds(t, r, o) ==
    /\ o.kind = "relay"
    /\ req' = [req EXCEPT ![t] = r]
    /\ fwd' = [fwd EXCEPT ![t] = o.fwd]
    /\ noFinal' = [noFinal EXCEPT ![t] = o.noFinal]
    /\ clientTx' = [clientTx EXCEPT ![t] = "open"]
    /\ pc' = [pc EXCEPT ![t] = "relaying"]
    /\ UNCHANGED <<inbox, answered, sent, got>>

Receive(t, r) ==
    /\ Available(t)
    /\ LET o == Handle(r)
       IN \/ Answered(t, o)
          \/ Bridged(t, o)
          \/ Written(t, r, o)
          \/ SendFails(t, o)
          \/ SendSucceeds(t, r, o)
    /\ UNCHANGED <<nextHopURI, stopped, parties>>

\* External: what the parties send.  The phone speaks from where it is connected; the
\* caller's requests and the registrar's calls come from the next hop.
FromPhone ==
    [method : {"REGISTER", "OPTIONS"}, routes : {<<>>}, src : {phone}, uri : {NextHop}]
    \cup (IF dialog = NoToken THEN {}
          ELSE [method : {"INVITE", "ACK", "BYE", "INFO"}, routes : {<<SelfRoute(dialog)>>},
                src : {phone}, uri : {NextHop}])

FromNextHop ==
    (IF binding = NoToken THEN {}
     ELSE [method : {"INVITE"}, routes : {<<SelfRoute(binding)>>}, src : {NextHop},
           uri : {binding.addr}])
    \cup (IF dialog = NoToken THEN {}
          ELSE [method : {"INVITE", "ACK", "BYE", "INFO"}, routes : {<<SelfRoute(dialog)>>},
                src : {NextHop}, uri : {dialog.addr}]
               \cup [method : {"BYE"}, routes : {<<SelfRoute(dialog), ForeignRoute>>},
                     src : {NextHop}, uri : {dialog.addr}])
    \cup [method : {"BYE"}, routes : {<<SelfRoute(g)>> : g \in GarbageTokens}, src : {NextHop},
          uri : {phone}]

Arrive(t) ==
    /\ Cardinality({u \in Txs : pc[u] = "relaying"}) < MaxForwarding
    /\ \/ \E q \in FromPhone \cup FromNextHop, mf \in MaxForwards :
            Receive(t, Request(q.method, q.src, q.uri, mf, q.routes))
       \/ \E f \in Fragments \ {"none"} :
            Receive(t, [Request("INFO", phone, NextHop, Absent, <<>>) EXCEPT !.fragment = f])
    /\ UNCHANGED from

\* External: the next hop routes on what it was given, by its top Route.
LoopBack(t, u) ==
    /\ clientTx[t] = "open" /\ answered[t] = 0
    /\ fwd[t].dest = NextHop
    /\ fwd[t].routes # <<>> /\ fwd[t].routes[1].host = "self"
    /\ \A v \in Txs : from[v] # t
    /\ Receive(u, [fwd[t] EXCEPT !.src = NextHop])
    /\ from' = [from EXCEPT ![u] = t]

-----------------------------------------------------------------------------
(* The relay loop of forwardAndRelay.  select takes any case that is ready, so a final
   response that waits may lose to the end of the transaction or of the run. *)

\* The handler returns: clientTx.Terminate, and its variables are gone.
Return(t) ==
    /\ Done(t)
    /\ req' = [req EXCEPT ![t] = NoRequest]
    /\ fwd' = [fwd EXCEPT ![t] = NoRequest]
    /\ noFinal' = [noFinal EXCEPT ![t] = 0]
    /\ clientTx' = [clientTx EXCEPT ![t] = "none"]
    /\ inbox' = [inbox EXCEPT ![t] = <<>>]
    /\ answered' = [answered EXCEPT ![t] = 0]

Select(t) ==
    /\ pc[t] = "relaying"
    /\ UNCHANGED <<nextHopURI, from, stopped, parties>>

Keep(t) ==
    /\ inbox' = [inbox EXCEPT ![t] = Tail(@)]
    /\ UNCHANGED <<pc, req, fwd, noFinal, clientTx, answered>>

MutFailuresSwallowed(t) ==
    /\ Select(t)
    /\ inbox[t] # <<>>
    /\ IF Head(inbox[t]) < 300 THEN Respond(t, Head(inbox[t])) ELSE UNCHANGED <<sent, got>>
    /\ IF Final(Head(inbox[t])) THEN Return(t) ELSE Keep(t)

MutLoopsOnFinal(t) ==
    /\ Select(t)
    /\ inbox[t] # <<>>
    /\ Respond(t, Head(inbox[t]))
    /\ Keep(t)

RelayResponse(t) ==
    /\ Select(t)
    /\ inbox[t] # <<>>
    /\ Respond(t, Head(inbox[t]))
    /\ IF Final(Head(inbox[t])) THEN Return(t) ELSE Keep(t)

\* The channel is closed: the handler returns and answers nothing.
ResponsesClosed(t) ==
    /\ Select(t)
    /\ inbox[t] = <<>> /\ clientTx[t] = "closed"
    /\ Return(t)
    /\ UNCHANGED <<sent, got>>

MutNoFinalUnanswered(t) ==
    /\ Select(t)
    /\ clientTx[t] \in {"ended", "closed"}
    /\ Return(t)
    /\ UNCHANGED <<sent, got>>

NoFinal(t) ==
    /\ Select(t)
    /\ clientTx[t] \in {"ended", "closed"}
    /\ Respond(t, noFinal[t])
    /\ Return(t)

RunCancelled(t) ==
    /\ Select(t)
    /\ stopped
    /\ Respond(t, 408)
    /\ Return(t)

-----------------------------------------------------------------------------
(* External: the destination, the SIP library, the originator, the process. *)

Reachable(addr) == addr \in {NextHop, phone}

\* The destination answers; the answer to a request that came back is the answer it got
\* there.  A registrar's 200 makes the Path the binding, a phone's 200 to an INVITE makes
\* the Record-Route the route set.
Answer(t, s) ==
    /\ clientTx[t] = "open" /\ answered[t] = 0
    /\ Reachable(fwd[t].dest)
    /\ Final(s) \/ Len(inbox[t]) + Len(sent[t]) < MaxProvisional
    /\ \/ s \in Answers /\ \A u \in Txs : from[u] # t
       \/ \E u \in Txs : from[u] = t /\ Final(s) /\ got[u] = s
    /\ inbox' = [inbox EXCEPT ![t] = Append(@, s)]
    /\ answered' = [answered EXCEPT ![t] = IF Final(s) THEN s ELSE @]
    /\ binding' = IF s = 200 /\ fwd[t].path # NoToken THEN fwd[t].path ELSE binding
    /\ dialog' = IF s = 200 /\ fwd[t].recordRoute # NoToken THEN fwd[t].recordRoute ELSE dialog
    /\ UNCHANGED <<nextHopURI, pc, req, fwd, noFinal, clientTx, sent, got, from, stopped, phone>>

\* Timers or a transport error end the client transaction.
ClientEnds(t) ==
    /\ clientTx[t] = "open"
    /\ \E c \in {"ended", "closed"} : clientTx' = [clientTx EXCEPT ![t] = c]
    /\ UNCHANGED <<nextHopURI, pc, req, fwd, noFinal, inbox, answered, sent, got, from, stopped,
                   parties>>

\* The library answers the INVITE 487; the relay loop does not learn of it, and no CANCEL
\* goes to the destination.
Cancel(t) ==
    /\ pc[t] = "relaying" /\ req[t].method = "INVITE" /\ got[t] = 0
    /\ got' = [got EXCEPT ![t] = 487]
    /\ UNCHANGED <<nextHopURI, pc, req, forward, sent, from, stopped, parties>>

\* The webphone loses its connection and comes back from another address.
Reconnect ==
    /\ phone' \in PhoneAddrs \ {phone}
    /\ UNCHANGED <<nextHopURI, handlers, stopped, binding, dialog>>

\* runCancel, by Shutdown or by the end of Run.
Stop ==
    /\ ~ stopped /\ stopped' = TRUE
    /\ UNCHANGED <<nextHopURI, handlers, parties>>

RelayStep(t) == RelayResponse(t) \/ ResponsesClosed(t) \/ NoFinal(t) \/ RunCancelled(t)

Next ==
    \/ \E t \in Txs :
        \/ Arrive(t)
        \/ RelayStep(t)
        \/ \E s \in Statuses : Answer(t, s)
        \/ ClientEnds(t)
        \/ Cancel(t)
        \/ \E u \in Txs : LoopBack(t, u)
    \/ Reconnect
    \/ Stop

Spec == Init /\ [][Next]_vars

\* The handler's goroutine runs, and the library's timers end every client transaction.
FairSpec == Spec /\ \A t \in Txs : WF_vars(RelayStep(t)) /\ WF_vars(ClientEnds(t))

-----------------------------------------------------------------------------
(* Properties *)

\* forwardAndRelay answers a request at most once and sends nothing after the final
\* response, whatever the order in which answers, timers, CANCEL and Shutdown come in.
ST == INSTANCE ServerTransaction WITH Transactions <- Txs
RefinesServerTransaction == ST!Spec

\* A request being forwarded gets a final response, also when the destination is gone, the
\* run ends or the request comes back: the one exception is a library that closes the
\* response channel, on which forwardAndRelay returns without a word.
RequestAnswered ==
    \A t \in Txs : (pc[t] = "relaying") ~> (got[t] # 0 \/ clientTx[t] = "closed")

\* A destination's final response is the one the originator gets.  It is lost only to a
\* CANCEL, which forwardAndRelay does not watch for, and to select's choice of the end of
\* the transaction or of the run.
AnswerReachesOriginator ==
    [][\A t \in Txs : pc[t] = "relaying" /\ pc'[t] = "done" /\ answered[t] # 0 =>
        \/ got'[t] = answered[t]
        \/ got[t] = 487
        \/ clientTx[t] # "open"
        \/ stopped]_vars

Hops(mf) == IF mf = Absent THEN 71 ELSE mf

\* A forwarded request has fewer hops left than it arrived with, so requests that keep
\* their self-Route (INFO and the unmanaged methods) and come back run dry.  The exception
\* is an ACK that arrives with none left: forwardStateless wraps it to the largest uint32.
HopsRunDry ==
    \A t \in Txs : fwd[t] # NoRequest =>
        \/ Hops(fwd[t].mf) < Hops(req[t].mf)
        \/ req[t].method = "ACK" /\ req[t].mf = 0

\* Along a flow that is still where the webphone registered it, an INVITE for the phone
\* and the dialog's follow-ups reach the phone, and what the phone says reaches the other
\* side; nothing is ever sent back to where it came from.
FlowsDeliver ==
    [][\A t \in Txs :
        LET r == req'[t]
            dest == fwd'[t].dest
        IN fwd[t] = NoRequest /\ fwd'[t] # NoRequest /\ RoutedToFlow(r) =>
            /\ dest # r.src
            /\ r.routes[1].token.addr = phone =>
                dest = (IF r.src = phone THEN NextHop ELSE phone)]_vars
=============================================================================
