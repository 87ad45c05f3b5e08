---------------------------- MODULE ProxyProofs -----------------------------
(***************************************************************************)
(* Theorems about Proxy, for any number of transactions and addresses and  *)
(* any Max-Forwards.                                                       *)
(***************************************************************************)
EXTENDS Proxy, TLAPS

-----------------------------------------------------------------------------
(* The operators the handlers are built from *)

LEMMA TokenTyped ==
    ASSUME NEW addr \in Addrs
    PROVE  mintFlowToken(addr, "ws") \in Tokens \cup {NoToken}
<1>1. PICK i \in 1 .. 5 : Transports[i] = "ws"
    BY DEF Transports
<1> DEFINE j == CHOOSE k \in 1 .. 5 : Transports[k] = "ws"
<1>2. j \in 1 .. 5
    BY <1>1
<1>3. j - 1 \in 0 .. 4
    BY <1>2
<1> HIDE DEF j
<1>4. [len |-> IF addr \in V6Addrs THEN 19 ELSE 7, code |-> j - 1, addr |-> addr] \in Tokens
    BY <1>3 DEF Tokens
<1> QED
    BY <1>4 DEF mintFlowToken, j

LEMMA RequestTyped ==
    ASSUME NEW method \in Methods, NEW src \in Addrs, NEW uri \in Addrs,
           NEW mf \in -1 .. MaxForwardsModulus - 1, NEW routes \in Seq(Routes)
    PROVE  Request(method, src, uri, mf, routes) \in Requests
BY DEF Request, Requests, Fragments

LEMMA NoRequestTyped == NoRequest \in Requests
<1>1. NextHop \in Addrs /\ -1 \in -1 .. MaxForwardsModulus - 1
    BY ProxyAssumption DEF Addrs
<1>2. "OPTIONS" \in Methods /\ <<>> \in Seq(Routes)
    BY DEF Methods
<1> QED
    BY <1>1, <1>2, RequestTyped DEF NoRequest, Absent

\* Max-Forwards after buildForward.
Decremented(mf) == IF mf = Absent THEN 70 ELSE (mf - 1) % MaxForwardsModulus

LEMMA DecrementedTyped ==
    ASSUME NEW mf \in -1 .. MaxForwardsModulus - 1
    PROVE  /\ Decremented(mf) \in -1 .. MaxForwardsModulus - 1
           /\ mf # 0 => Hops(Decremented(mf)) < Hops(mf)
<1>1. MaxForwardsModulus \in Nat /\ MaxForwardsModulus > 70
    BY ProxyAssumption
<1>2. CASE mf = -1
    BY <1>1, <1>2 DEF Decremented, Absent, Hops
<1>3. CASE mf # -1
    <2>1. (mf - 1) % MaxForwardsModulus \in 0 .. MaxForwardsModulus - 1
        BY <1>1, <1>3
    <2>2. mf # 0 => (mf - 1) % MaxForwardsModulus = mf - 1
        BY <1>1, <1>3
    <2> QED
        BY <1>1, <1>3, <2>1, <2>2 DEF Decremented, Absent, Hops
<1> QED
    BY <1>2, <1>3

-----------------------------------------------------------------------------
(* What a handler decides *)

Outcomes == [kind : {"reply", "local", "write", "relay"}, status : Statuses \cup {0},
             fwd : Requests, noFinal : {0, 480, 503}]

\* An outcome the steps of Receive can act on.
Sound(r, o) ==
    /\ o \in Outcomes
    /\ o.kind = "reply" => o.status \in Statuses
    /\ o.kind = "relay" => /\ o.status \in Statuses
                           /\ o.noFinal # 0
                           /\ r.mf # 0 /\ o.fwd.mf = Decremented(r.mf)
    /\ o.kind = "write" => r.method = "ACK" /\ o.fwd.mf = Decremented(r.mf)

LEMMA ReplySound ==
    ASSUME NEW r, NEW s \in Statuses
    PROVE  Sound(r, Reply(s))
BY NoRequestTyped DEF Sound, Reply, Outcomes

LEMMA BridgeSound == ASSUME NEW r PROVE Sound(r, Bridge)
BY NoRequestTyped DEF Sound, Bridge, Reply, Outcomes

LEMMA ForwardTyped ==
    ASSUME NEW r \in Requests, NEW dest \in Addrs
    PROVE  /\ buildForward(r, dest) \in Requests
           /\ buildForward(r, dest).mf = Decremented(r.mf)
<1>1. r.mf \in -1 .. MaxForwardsModulus - 1
    BY DEF Requests
<1>2. Decremented(r.mf) \in -1 .. MaxForwardsModulus - 1
    BY <1>1, DecrementedTyped
<1>3. buildForward(r, dest) = [r EXCEPT !.mf = Decremented(r.mf), !.dest = dest]
    BY DEF buildForward, Decremented, Requests
<1> QED
    BY <1>2, <1>3 DEF Requests

LEMMA RelaySound ==
    ASSUME NEW r \in Requests, NEW prepared \in Requests, prepared.mf = r.mf,
           NEW dest \in Addrs, NEW onSendErr \in Statuses, NEW onNoFinal \in {480, 503}
    PROVE  Sound(r, forwardAndRelay(r, prepared, dest, onSendErr, onNoFinal))
<1>1. CASE r.mf = 0
    <2>1. 483 \in Statuses
        BY DEF Statuses
    <2> QED
        BY <1>1, <2>1, ReplySound DEF forwardAndRelay
<1>2. CASE r.mf # 0
    BY <1>2, ForwardTyped DEF forwardAndRelay, Sound, Outcomes
<1> QED
    BY <1>1, <1>2

LEMMA UnmanagedSound ==
    ASSUME NEW r \in Requests
    PROVE  Sound(r, proxyUnmanaged(r))
<1>1. {500, 502} \subseteq Statuses /\ NextHop \in Addrs
    BY DEF Statuses, Addrs
<1> QED
    BY <1>1, ReplySound, RelaySound DEF proxyUnmanaged

LEMMA RegisterSound ==
    ASSUME NEW r \in Requests
    PROVE  Sound(r, handleRegister(r))
<1> DEFINE token == mintFlowToken(r.src, "ws")
           prepared == [r EXCEPT !.path = token]
<1>1. token \in Tokens \cup {NoToken}
    BY TokenTyped DEF Requests
<1>2. prepared \in Requests /\ prepared.mf = r.mf
    BY <1>1 DEF Requests
<1>3. {500, 502} \subseteq Statuses /\ NextHop \in Addrs
    BY DEF Statuses, Addrs
<1> HIDE DEF prepared
<1>4. Sound(r, forwardAndRelay(r, prepared, NextHop, 502, 503))
    BY <1>2, <1>3, RelaySound
<1> QED
    BY <1>3, <1>4, ReplySound DEF handleRegister, prepared

LEMMA FlowSound ==
    ASSUME NEW r \in Requests, RoutedToFlow(r)
    PROVE  Sound(r, routeToFlow(r))
<1> DEFINE token == r.routes[1].token
           popped == popSelfRoute(r)
           dest == IF FromFlow(r) THEN r.uri ELSE token.addr
           prepared == IF ~ FromFlow(r) /\ r.method = "INVITE"
                       THEN [popped EXCEPT !.recordRoute = token] ELSE popped
<1>1. r.routes \in Seq(Routes) /\ r.routes # <<>> /\ parses(token)
    BY DEF RoutedToFlow, FollowsFlow, Requests
<1>2. r.routes[1] \in Routes
    BY <1>1
<1>3. token \in Tokens
    BY <1>1, <1>2 DEF Routes, GarbageTokens, NoToken, parses, Transports
<1>4. dest \in Addrs
    BY <1>3 DEF Tokens, Requests
<1>5. Tail(r.routes) \o Tail(r.routes) \in Seq(Routes)
    BY <1>1
<1>6. popped \in Requests /\ popped.mf = r.mf
    BY <1>5 DEF popSelfRoute, Requests
<1>7. prepared \in Requests /\ prepared.mf = r.mf
    <2>1. [popped EXCEPT !.recordRoute = token] \in Requests
        BY <1>3, <1>6 DEF Requests
    <2>2. [popped EXCEPT !.recordRoute = token].mf = popped.mf
        BY <1>6 DEF Requests
    <2> QED
        BY <1>6, <2>1, <2>2
<1> HIDE DEF dest, prepared
<1>8. CASE r.method = "ACK"
    <2>1. routeToFlow(r) = forwardStateless(prepared, dest)
        BY <1>8 DEF routeToFlow, prepared, dest
    <2>2. /\ buildForward(prepared, dest) \in Requests
          /\ buildForward(prepared, dest).mf = Decremented(r.mf)
        BY <1>4, <1>7, ForwardTyped
    <2>3. /\ routeToFlow(r).kind = "write" /\ routeToFlow(r).status = 0
          /\ routeToFlow(r).noFinal = 0 /\ routeToFlow(r).fwd = buildForward(prepared, dest)
          /\ routeToFlow(r) = [kind |-> "write", status |-> 0,
                               fwd |-> buildForward(prepared, dest), noFinal |-> 0]
        BY <2>1 DEF forwardStateless, Reply
    <2>4. routeToFlow(r) \in Outcomes
        BY <2>2, <2>3 DEF Outcomes
    <2> QED
        BY <1>8, <2>2, <2>3, <2>4 DEF Sound
<1>9. CASE r.method # "ACK"
    <2>1. routeToFlow(r) = forwardAndRelay(r, prepared, dest, 480, 480)
        BY <1>9 DEF routeToFlow, prepared, dest
    <2>2. 480 \in Statuses
        BY DEF Statuses
    <2> QED
        BY <1>4, <1>7, <2>1, <2>2, RelaySound
<1> QED
    BY <1>8, <1>9

LEMMA HandleSound ==
    ASSUME NEW r \in Requests
    PROVE  Sound(r, Handle(r))
<1>1. Sound(r, handleInfo(r))
    <2>1. {200, 481} \subseteq Statuses
        BY DEF Statuses, Answers
    <2> QED
        BY <2>1, ReplySound, UnmanagedSound DEF handleInfo
<1>2. CASE r.method \in {"INVITE", "ACK", "BYE"}
    BY <1>2, BridgeSound, FlowSound DEF Handle
<1>3. CASE r.method = "REGISTER"
    BY <1>3, RegisterSound DEF Handle
<1>4. CASE r.method = "INFO"
    BY <1>1, <1>4 DEF Handle
<1>5. CASE r.method = "OPTIONS"
    BY <1>5, UnmanagedSound DEF Handle
<1> QED
    BY <1>2, <1>3, <1>4, <1>5 DEF Requests, Methods

-----------------------------------------------------------------------------
(* The invariant.  A handler that has not returned has sent no final response. *)

HandlerInv ==
    \A t \in Txs :
        /\ pc[t] = "idle" => fwd[t] = NoRequest
        /\ pc[t] \in {"idle", "relaying"} => ST!Unanswered(t)
        /\ pc[t] = "relaying" => noFinal[t] # 0

Inv == TypeOK /\ HandlerInv /\ HopsRunDry

\* What a step does to one transaction: the others keep theirs.
Kept(t) ==
    \A u \in Txs \ {t} :
        /\ pc'[u] = pc[u] /\ req'[u] = req[u] /\ fwd'[u] = fwd[u]
        /\ noFinal'[u] = noFinal[u] /\ sent'[u] = sent[u]

LEMMA InitInv == Init => Inv
<1> SUFFICES ASSUME Init PROVE Inv
    OBVIOUS
<1>1. binding \in Tokens \cup {NoToken} /\ dialog \in Tokens \cup {NoToken}
    BY TokenTyped DEF Init, Addrs
<1>2. <<>> \in Seq(Statuses) /\ NoRequest \in Requests
    BY NoRequestTyped
<1>3. TypeOK
    <2>1. stopped \in BOOLEAN /\ nextHopURI \in {"ok", "bad"} /\ phone \in PhoneAddrs
        BY ProxyAssumption DEF Init
    <2>2. from \in [Txs -> 0 .. N]
        BY ProxyAssumption DEF Init
    <2>3. /\ pc \in [Txs -> {"idle", "relaying", "done", "local"}]
          /\ req \in [Txs -> Requests] /\ fwd \in [Txs -> Requests]
          /\ noFinal \in [Txs -> {0, 480, 503}]
          /\ inbox \in [Txs -> Seq(Statuses)]
          /\ clientTx \in [Txs -> {"none", "open", "ended", "closed"}]
          /\ sent \in [Txs -> Seq(Statuses)]
          /\ got \in [Txs -> Statuses \cup {0, 487}]
          /\ answered \in [Txs -> Statuses \cup {0}]
        BY <1>2 DEF Init
    <2> QED
        BY <1>1, <2>1, <2>2, <2>3 DEF TypeOK
<1>4. HandlerInv
    BY DEF Init, HandlerInv, ST!Unanswered, Txs
<1>5. HopsRunDry
    BY DEF Init, HopsRunDry
<1> QED
    BY <1>3, <1>4, <1>5 DEF Inv

\* tx.Respond on a request that is still unanswered.
LEMMA RespondTyped ==
    ASSUME TypeOK, NEW t \in Txs, NEW s \in Statuses, Respond(t, s)
    PROVE  /\ sent' \in [Txs -> Seq(Statuses)]
           /\ got' \in [Txs -> Statuses \cup {0, 487}]
           /\ \A u \in Txs \ {t} : sent'[u] = sent[u]
           /\ ~ Final(s) /\ ST!Unanswered(t) => ST!Unanswered(t)'
<1>1. Append(sent[t], s) \in Seq(Statuses)
    BY DEF TypeOK
<1>2. sent' \in [Txs -> Seq(Statuses)] /\ \A u \in Txs \ {t} : sent'[u] = sent[u]
    BY <1>1 DEF TypeOK, Respond
<1>3. got' \in [Txs -> Statuses \cup {0, 487}]
    BY DEF TypeOK, Respond
<1>4. ~ Final(s) /\ ST!Unanswered(t) => ST!Unanswered(t)'
    <2>1. sent'[t] = Append(sent[t], s) /\ sent[t] \in Seq(Statuses)
        BY DEF TypeOK, Respond
    <2> QED
        BY <2>1 DEF ST!Unanswered, Final, ST!Final
<1> QED
    BY <1>2, <1>3, <1>4

\* The invariant holds of the transactions a step leaves alone.
LEMMA OthersKept ==
    ASSUME Inv, NEW t \in Txs, Kept(t), TypeOK',
           pc'[t] = "idle" => fwd'[t] = NoRequest,
           pc'[t] \in {"idle", "relaying"} => ST!Unanswered(t)',
           pc'[t] = "relaying" => noFinal'[t] # 0,
           fwd'[t] # NoRequest => \/ Hops(fwd'[t].mf) < Hops(req'[t].mf)
                                  \/ req'[t].method = "ACK" /\ req'[t].mf = 0
    PROVE  Inv'
<1>1. HandlerInv'
    BY DEF Inv, HandlerInv, Kept, ST!Unanswered
<1>2. HopsRunDry'
    BY DEF Inv, HopsRunDry, Kept
<1> QED
    BY <1>1, <1>2 DEF Inv

LEMMA ReceiveInv ==
    ASSUME Inv, NEW t \in Txs, NEW r \in Requests, Receive(t, r),
           from' \in [Txs -> 0 .. N]
    PROVE  Inv'
<1> DEFINE o == Handle(r)
<1>1. Sound(r, o)
    BY HandleSound
<1> HIDE DEF o
<1>2. pc[t] = "idle" /\ fwd[t] = NoRequest /\ ST!Unanswered(t)
    BY DEF Receive, Available, Inv, HandlerInv
<1>3. /\ nextHopURI' = nextHopURI /\ stopped' = stopped
      /\ phone' = phone /\ binding' = binding /\ dialog' = dialog
    BY DEF Receive, parties
<1>4. ASSUME o.kind \in {"reply", "relay"}, Respond(t, o.status), Done(t),
             UNCHANGED <<req, forward>>
      PROVE  Inv'
    <2>1. o.status \in Statuses
        BY <1>1, <1>4 DEF Sound
    <2>2. /\ sent' \in [Txs -> Seq(Statuses)]
          /\ got' \in [Txs -> Statuses \cup {0, 487}]
          /\ \A u \in Txs \ {t} : sent'[u] = sent[u]
        BY <1>4, <2>1, RespondTyped DEF Inv
    <2>3. TypeOK'
        BY <1>3, <1>4, <2>2 DEF Inv, TypeOK, Done, forward
    <2>4. Kept(t) /\ pc'[t] = "done" /\ fwd'[t] = NoRequest
        BY <1>2, <1>4, <2>2 DEF Kept, Done, forward, Inv, TypeOK
    <2> QED
        BY <2>3, <2>4, OthersKept
<1>5. CASE Bridged(t, o)
    <2>1. TypeOK'
        BY <1>3, <1>5 DEF Inv, TypeOK, Bridged, forward
    <2>2. Kept(t) /\ pc'[t] = "local" /\ fwd'[t] = NoRequest
        BY <1>2, <1>5 DEF Kept, Bridged, forward, Inv, TypeOK
    <2> QED
        BY <2>1, <2>2, OthersKept
<1>6. r.mf \in -1 .. MaxForwardsModulus - 1
    BY DEF Requests
<1>7. CASE Written(t, r, o)
    <2>1. o.fwd \in Requests /\ r.method = "ACK" /\ o.fwd.mf = Decremented(r.mf)
        BY <1>1, <1>7 DEF Sound, Outcomes, Written
    <2>2. PICK f \in Requests : fwd' = [fwd EXCEPT ![t] = f] /\ f \in {NoRequest, o.fwd}
        <3>1. CASE fwd' = fwd
            <4>1. fwd' = [fwd EXCEPT ![t] = NoRequest]
                BY <1>2, <3>1 DEF Inv, TypeOK
            <4> QED
                BY <4>1, NoRequestTyped
        <3>2. CASE fwd' = [fwd EXCEPT ![t] = o.fwd]
            BY <2>1, <3>2
        <3> QED
            BY <1>7, <3>1, <3>2 DEF Written
    <2>3. TypeOK'
        BY <1>3, <1>7, <2>2 DEF Inv, TypeOK, Written, Done
    <2>4. Kept(t)
        BY <1>7, <2>2 DEF Kept, Written, Done, Inv, TypeOK
    <2>5. pc'[t] = "done" /\ req'[t] = r /\ fwd'[t] = f
        BY <1>7, <2>2 DEF Written, Done, Inv, TypeOK
    <2>6. f # NoRequest => Hops(f.mf) < Hops(r.mf) \/ r.mf = 0
        BY <1>6, <2>1, <2>2, DecrementedTyped
    <2> QED
        BY <2>1, <2>3, <2>4, <2>5, <2>6, OthersKept
<1>8. CASE SendSucceeds(t, r, o)
    <2>1. /\ o.fwd \in Requests /\ o.fwd.mf = Decremented(r.mf) /\ r.mf # 0
          /\ o.noFinal \in {0, 480, 503} /\ o.noFinal # 0
        BY <1>1, <1>8 DEF Sound, Outcomes, SendSucceeds
    <2>2. TypeOK'
        BY <1>3, <1>8, <2>1 DEF Inv, TypeOK, SendSucceeds
    <2>3. Kept(t)
        BY <1>8 DEF Kept, SendSucceeds, Inv, TypeOK
    <2>4. /\ pc'[t] = "relaying" /\ req'[t] = r /\ fwd'[t] = o.fwd
          /\ noFinal'[t] = o.noFinal /\ sent' = sent
        BY <1>8 DEF SendSucceeds, Inv, TypeOK
    <2>5. Hops(o.fwd.mf) < Hops(r.mf)
        BY <1>6, <2>1, DecrementedTyped
    <2>6. ST!Unanswered(t)'
        BY <1>2, <2>4 DEF ST!Unanswered
    <2> QED
        BY <2>1, <2>2, <2>3, <2>4, <2>5, <2>6, OthersKept
<1>9. CASE Answered(t, o)
    BY <1>4, <1>9 DEF Answered
<1>10. CASE SendFails(t, o)
    BY <1>4, <1>10 DEF SendFails
<1> QED
    BY <1>5, <1>7, <1>8, <1>9, <1>10 DEF Receive, o

\* What a party sends is a request.
LEMMA PartyRequest ==
    ASSUME Inv, NEW q \in FromPhone \cup FromNextHop, NEW mf \in MaxForwards
    PROVE  Request(q.method, q.src, q.uri, mf, q.routes) \in Requests
<1>1. phone \in Addrs /\ NextHop \in Addrs
    BY DEF Inv, TypeOK, Addrs
<1>2. q.method \in Methods
    BY DEF FromPhone, FromNextHop, Methods
<1>3. q.src \in Addrs
    BY <1>1 DEF FromPhone, FromNextHop
<1>4. q.uri \in Addrs
    BY <1>1 DEF FromPhone, FromNextHop, Inv, TypeOK, Tokens
<1>5. q.routes \in Seq(Routes)
    <2>1. /\ binding # NoToken => SelfRoute(binding) \in Routes
          /\ dialog # NoToken => SelfRoute(dialog) \in Routes
          /\ \A g \in GarbageTokens : SelfRoute(g) \in Routes
          /\ ForeignRoute \in Routes
        BY DEF SelfRoute, ForeignRoute, Routes, Inv, TypeOK
    <2>2. \/ q.routes = <<>>
          \/ \E g \in Routes : q.routes = <<g>>
          \/ \E g, h \in Routes : q.routes = <<g, h>>
        BY <2>1 DEF FromPhone, FromNextHop
    <2>3. \A g, h \in Routes : <<g>> \in Seq(Routes) /\ <<g, h>> \in Seq(Routes)
        OBVIOUS
    <2>4. <<>> \in Seq(Routes)
        OBVIOUS
    <2> QED
        BY <2>2, <2>3, <2>4, Zenon
<1>6. mf \in -1 .. MaxForwardsModulus - 1
    BY ProxyAssumption
<1> QED
    BY <1>2, <1>3, <1>4, <1>5, <1>6, RequestTyped

\* An INFO with a trickle fragment is a request.
LEMMA FragmentRequest ==
    ASSUME Inv, NEW f \in Fragments
    PROVE  [Request("INFO", phone, NextHop, Absent, <<>>) EXCEPT !.fragment = f] \in Requests
<1>1. phone \in Addrs /\ NextHop \in Addrs
    BY DEF Inv, TypeOK, Addrs
<1>2. "INFO" \in Methods /\ <<>> \in Seq(Routes) /\ Absent \in -1 .. MaxForwardsModulus - 1
    BY ProxyAssumption DEF Methods, Absent
<1>3. Request("INFO", phone, NextHop, Absent, <<>>) \in Requests
    BY <1>1, <1>2, RequestTyped
<1> QED
    BY <1>3 DEF Requests

\* What arrives, from a party or back from the next hop, is a request.
LEMMA ArriveReceives ==
    ASSUME Inv, NEW t \in Txs, Arrive(t)
    PROVE  \E r \in Requests : Receive(t, r)
BY PartyRequest, FragmentRequest DEF Arrive

LEMMA LoopBackReceives ==
    ASSUME Inv, NEW t \in Txs, NEW u \in Txs, LoopBack(t, u)
    PROVE  \E r \in Requests : Receive(u, r)
<1>1. fwd[t] \in Requests /\ NextHop \in Addrs
    BY DEF Inv, TypeOK, Addrs
<1>2. [fwd[t] EXCEPT !.src = NextHop] \in Requests
    BY <1>1 DEF Requests
<1> QED
    BY <1>2 DEF LoopBack

\* A handler that returns, having sent its last response or none.
LEMMA ReturnInv ==
    ASSUME Inv, NEW t \in Txs, Select(t), Return(t),
           sent' \in [Txs -> Seq(Statuses)], got' \in [Txs -> Statuses \cup {0, 487}],
           \A u \in Txs \ {t} : sent'[u] = sent[u]
    PROVE  Inv'
<1>1. NoRequest \in Requests /\ <<>> \in Seq(Statuses)
    BY NoRequestTyped
<1>2. TypeOK'
    BY <1>1 DEF Inv, TypeOK, Select, Return, Done, parties
<1>3. Kept(t) /\ pc'[t] = "done" /\ fwd'[t] = NoRequest
    BY DEF Kept, Return, Done, Inv, TypeOK
<1> QED
    BY <1>2, <1>3, OthersKept

LEMMA RelayInv ==
    ASSUME Inv, NEW t \in Txs, RelayStep(t)
    PROVE  Inv'
<1>1. TypeOK /\ t \in Txs
    BY DEF Inv
<1>2. CASE RelayResponse(t)
    <2> DEFINE s == Head(inbox[t])
    <2>1. s \in Statuses /\ Tail(inbox[t]) \in Seq(Statuses)
        BY <1>1, <1>2 DEF TypeOK, RelayResponse
    <2>2. Respond(t, s) /\ Select(t) /\ pc[t] = "relaying"
        BY <1>2 DEF RelayResponse, Select
    <2> HIDE DEF s
    <2>3. /\ sent' \in [Txs -> Seq(Statuses)]
          /\ got' \in [Txs -> Statuses \cup {0, 487}]
          /\ \A u \in Txs \ {t} : sent'[u] = sent[u]
          /\ ~ Final(s) /\ ST!Unanswered(t) => ST!Unanswered(t)'
        BY <1>1, <2>1, <2>2, RespondTyped
    <2>4. CASE Final(s)
        <3>1. Return(t)
            BY <1>2, <2>4 DEF RelayResponse, s
        <3> QED
            BY <2>2, <2>3, <3>1, ReturnInv
    <2>5. CASE ~ Final(s)
        <3>1. Keep(t)
            BY <1>2, <2>5 DEF RelayResponse, s
        <3>2. TypeOK'
            BY <1>1, <2>1, <2>2, <2>3, <3>1 DEF TypeOK, Select, Keep, parties
        <3>3. ST!Unanswered(t)'
            BY <2>2, <2>3, <2>5 DEF Inv, HandlerInv
        <3>4. Kept(t)
            BY <2>3, <3>1 DEF Kept, Keep
        <3> QED
            BY <2>2, <3>1, <3>2, <3>3, <3>4, OthersKept DEF Keep, Inv, HandlerInv, HopsRunDry
    <2> QED
        BY <2>4, <2>5
<1>3. CASE ResponsesClosed(t)
    BY <1>1, <1>3, ReturnInv DEF ResponsesClosed, TypeOK
<1>4. CASE NoFinal(t)
    <2>1. noFinal[t] \in Statuses
        BY <1>4 DEF NoFinal, Select, Inv, TypeOK, HandlerInv, Statuses
    <2>2. Respond(t, noFinal[t])
        BY <1>4 DEF NoFinal
    <2>3. /\ sent' \in [Txs -> Seq(Statuses)]
          /\ got' \in [Txs -> Statuses \cup {0, 487}]
          /\ \A u \in Txs \ {t} : sent'[u] = sent[u]
        BY <1>1, <2>1, <2>2, RespondTyped
    <2> QED
        BY <1>4, <2>3, ReturnInv DEF NoFinal
<1>5. CASE RunCancelled(t)
    <2>1. 408 \in Statuses
        BY DEF Statuses
    <2>2. Respond(t, 408)
        BY <1>5 DEF RunCancelled
    <2>3. /\ sent' \in [Txs -> Seq(Statuses)]
          /\ got' \in [Txs -> Statuses \cup {0, 487}]
          /\ \A u \in Txs \ {t} : sent'[u] = sent[u]
        BY <1>1, <2>1, <2>2, RespondTyped
    <2> QED
        BY <1>5, <2>3, ReturnInv DEF RunCancelled
<1> QED
    BY <1>2, <1>3, <1>4, <1>5 DEF RelayStep

\* Steps of the outside world, which leave the handlers' own state alone.
LEMMA OutsideInv ==
    ASSUME Inv, TypeOK', UNCHANGED <<pc, req, fwd, noFinal, sent>>
    PROVE  Inv'
BY DEF Inv, HandlerInv, HopsRunDry, ST!Unanswered

LEMMA NextInv == Inv /\ [Next]_vars => Inv'
<1> SUFFICES ASSUME Inv, [Next]_vars PROVE Inv'
    OBVIOUS
<1>1. ASSUME NEW t \in Txs, NEW s \in Statuses, Answer(t, s) PROVE Inv'
    <2>1. Append(inbox[t], s) \in Seq(Statuses)
        BY DEF Inv, TypeOK
    <2>2. fwd[t].path \in Tokens \cup {NoToken} /\ fwd[t].recordRoute \in Tokens \cup {NoToken}
        BY DEF Inv, TypeOK, Requests
    <2>3. binding' \in Tokens \cup {NoToken} /\ dialog' \in Tokens \cup {NoToken}
        BY <1>1, <2>2 DEF Inv, TypeOK, Answer
    <2>4. TypeOK'
        BY <1>1, <2>1, <2>3 DEF Inv, TypeOK, Answer
    <2> QED
        BY <1>1, <2>4, OutsideInv DEF Answer
<1>2. ASSUME NEW t \in Txs, ClientEnds(t) PROVE Inv'
    <2>1. PICK c \in {"ended", "closed"} : clientTx' = [clientTx EXCEPT ![t] = c]
        BY <1>2 DEF ClientEnds
    <2>2. TypeOK'
        BY <1>2, <2>1 DEF Inv, TypeOK, ClientEnds, parties
    <2> QED
        BY <1>2, <2>2, OutsideInv DEF ClientEnds
<1>3. ASSUME NEW t \in Txs, Cancel(t) PROVE Inv'
    <2>1. TypeOK'
        BY <1>3 DEF Inv, TypeOK, Cancel, forward, parties
    <2> QED
        BY <1>3, <2>1, OutsideInv DEF Cancel, forward
<1>4. CASE Reconnect
    <2>1. TypeOK'
        BY <1>4 DEF Inv, TypeOK, Reconnect, handlers, forward
    <2> QED
        BY <1>4, <2>1, OutsideInv DEF Reconnect, handlers, forward
<1>5. CASE Stop
    <2>1. TypeOK'
        BY <1>5 DEF Inv, TypeOK, Stop, handlers, forward, parties
    <2> QED
        BY <1>5, <2>1, OutsideInv DEF Stop, handlers, forward
<1>6. CASE UNCHANGED vars
    <2>1. TypeOK'
        BY <1>6 DEF Inv, TypeOK, vars, handlers, forward, parties
    <2> QED
        BY <1>6, <2>1, OutsideInv DEF vars, handlers, forward
<1>7. ASSUME NEW t \in Txs, Arrive(t) PROVE Inv'
    <2>1. from' \in [Txs -> 0 .. N]
        BY <1>7 DEF Inv, TypeOK, Arrive
    <2> QED
        BY <1>7, <2>1, ArriveReceives, ReceiveInv
<1>8. ASSUME NEW t \in Txs, NEW u \in Txs, LoopBack(t, u) PROVE Inv'
    <2>1. from' \in [Txs -> 0 .. N]
        BY <1>8, ProxyAssumption DEF Inv, TypeOK, LoopBack, Txs
    <2> QED
        BY <1>8, <2>1, LoopBackReceives, ReceiveInv
<1> QED
    BY <1>1, <1>2, <1>3, <1>4, <1>5, <1>6, <1>7, <1>8, RelayInv DEF Next

LEMMA InvAlways == Spec => []Inv
BY InitInv, NextInv, PTL DEF Spec

-----------------------------------------------------------------------------
(* Theorems *)

\* Whatever number of requests are forwarded at once and come back, each one forwarded has
\* fewer hops left than it arrived with (buildForward, forwardAndRelay), except an ACK that
\* arrives with none.
THEOREM HopsAlwaysRunDry == Spec => []HopsRunDry
<1>1. Inv => HopsRunDry
    BY DEF Inv
<1> QED
    BY <1>1, InvAlways, PTL

\* A step responds to one unanswered request, or to none.
LEMMA StepRefines == Inv /\ [Next]_vars => [ST!Next]_sent
<1> SUFFICES ASSUME Inv, [Next]_vars PROVE ST!Next \/ UNCHANGED sent
    OBVIOUS
<1>1. ASSUME NEW t \in Txs, NEW s \in Statuses, Respond(t, s), ST!Unanswered(t)
      PROVE  ST!Next
    <2>1. ST!Respond(t, s)
        BY <1>1 DEF Respond, ST!Respond
    <2> QED
        BY <2>1 DEF ST!Next
<1>2. ASSUME NEW t \in Txs, NEW r \in Requests, Receive(t, r)
      PROVE  ST!Next \/ UNCHANGED sent
    <2>1. Sound(r, Handle(r)) /\ ST!Unanswered(t)
        BY <1>2, HandleSound DEF Receive, Available, Inv, HandlerInv
    <2>2. CASE Answered(t, Handle(r))
        BY <1>1, <2>1, <2>2 DEF Answered, Sound
    <2>3. CASE SendFails(t, Handle(r))
        BY <1>1, <2>1, <2>3 DEF SendFails, Sound
    <2> QED
        BY <1>2, <2>2, <2>3 DEF Receive, Bridged, Written, SendSucceeds
<1>3. ASSUME NEW t \in Txs, RelayStep(t) PROVE ST!Next \/ UNCHANGED sent
    <2>1. pc[t] = "relaying"
        BY <1>3 DEF RelayStep, RelayResponse, ResponsesClosed, NoFinal, RunCancelled, Select
    <2>2. ST!Unanswered(t) /\ noFinal[t] \in Statuses
        BY <2>1 DEF Inv, TypeOK, HandlerInv, Statuses
    <2>3. CASE RelayResponse(t)
        <3>1. Head(inbox[t]) \in Statuses
            BY <2>3 DEF RelayResponse, Inv, TypeOK
        <3> QED
            BY <1>1, <2>2, <2>3, <3>1 DEF RelayResponse
    <2>4. CASE NoFinal(t)
        BY <1>1, <2>2, <2>4 DEF NoFinal
    <2>5. CASE RunCancelled(t)
        <3>1. 408 \in Statuses
            BY DEF Statuses
        <3> QED
            BY <1>1, <2>2, <2>5, <3>1 DEF RunCancelled
    <2>6. CASE ResponsesClosed(t)
        BY <2>6 DEF ResponsesClosed
    <2> QED
        BY <1>3, <2>3, <2>4, <2>5, <2>6 DEF RelayStep
<1>4. ASSUME NEW t \in Txs, NEW s \in Statuses, Answer(t, s) PROVE UNCHANGED sent
    BY <1>4 DEF Answer
<1>5. ASSUME NEW t \in Txs, ClientEnds(t) \/ Cancel(t) PROVE UNCHANGED sent
    BY <1>5 DEF ClientEnds, Cancel
<1>6. CASE Reconnect \/ Stop \/ UNCHANGED vars
    BY <1>6 DEF Reconnect, Stop, vars, handlers
<1> QED
    BY <1>2, <1>3, <1>4, <1>5, <1>6, ArriveReceives, LoopBackReceives DEF Next

\* forwardAndRelay answers each request at most once, with nothing after its final response,
\* for any number of transactions and any order of answers, timers, CANCELs and Shutdown.
THEOREM AnsweredOnce == Spec => RefinesServerTransaction
<1>1. Init => ST!Init
    BY DEF Init, ST!Init
<1> QED
    BY <1>1, InvAlways, StepRefines, PTL DEF Spec, RefinesServerTransaction, ST!Spec

-----------------------------------------------------------------------------
(* The destination's answer.  A final response that waits is the one it gave. *)

AnswerInv ==
    \A t \in Txs :
        /\ pc[t] \in {"idle", "relaying"} => got[t] \in {0, 487}
        /\ \A k \in DOMAIN inbox[t] : Final(inbox[t][k]) => inbox[t][k] = answered[t]

LEMMA InitAnswer == Init => AnswerInv
BY DEF Init, AnswerInv

LEMMA NextAnswer == Inv /\ AnswerInv /\ [Next]_vars => AnswerInv'
<1> SUFFICES ASSUME TypeOK, Inv, AnswerInv, [Next]_vars PROVE AnswerInv'
    BY DEF Inv
<1>1. ASSUME NEW t \in Txs, NEW r \in Requests, Receive(t, r) PROVE AnswerInv'
    <2>1. inbox' = inbox /\ answered' = answered
        BY <1>1 DEF Receive, Answered, Bridged, Written, SendFails, SendSucceeds, forward
    <2>2. CASE UNCHANGED got
        BY <1>1, <2>1, <2>2 DEF AnswerInv, TypeOK, Receive, Available, Answered, Bridged, Written,
                                SendFails, SendSucceeds, Done
    <2>3. CASE Done(t) /\ \E s : Respond(t, s)
        BY <2>1, <2>3 DEF AnswerInv, TypeOK, Done, Respond
    <2> QED
        BY <1>1, <2>2, <2>3 DEF Receive, Answered, Bridged, Written, SendFails, SendSucceeds
<1>2. ASSUME NEW t \in Txs, Return(t), UNCHANGED got \/ \E s : Respond(t, s)
      PROVE  AnswerInv'
    BY <1>2 DEF AnswerInv, TypeOK, Return, Done, Respond
<1>3. ASSUME NEW t \in Txs, RelayStep(t) PROVE AnswerInv'
    <2>1. CASE RelayResponse(t) /\ ~ Final(Head(inbox[t]))
        <3>1. /\ inbox' = [inbox EXCEPT ![t] = Tail(@)]
              /\ got' = got /\ pc' = pc /\ answered' = answered
            BY <2>1 DEF RelayResponse, Keep, Respond, TypeOK
        <3>2. \A k \in DOMAIN Tail(inbox[t]) :
                k + 1 \in DOMAIN inbox[t] /\ Tail(inbox[t])[k] = inbox[t][k + 1]
            BY <2>1 DEF RelayResponse, TypeOK
        <3> QED
            BY <3>1, <3>2 DEF AnswerInv, TypeOK
    <2>2. CASE RelayResponse(t) /\ Final(Head(inbox[t]))
        BY <1>2, <2>2 DEF RelayResponse
    <2>3. CASE ResponsesClosed(t)
        BY <1>2, <2>3 DEF ResponsesClosed
    <2>4. CASE NoFinal(t)
        BY <1>2, <2>4 DEF NoFinal
    <2>5. CASE RunCancelled(t)
        BY <1>2, <2>5 DEF RunCancelled
    <2> QED
        BY <1>3, <2>1, <2>2, <2>3, <2>4, <2>5 DEF RelayStep
<1>4. ASSUME NEW t \in Txs, NEW s \in Statuses, Answer(t, s) PROVE AnswerInv'
    <2>1. /\ answered[t] = 0 /\ inbox[t] \in Seq(Statuses)
          /\ inbox' = [inbox EXCEPT ![t] = Append(@, s)]
          /\ answered' = [answered EXCEPT ![t] = IF Final(s) THEN s ELSE @]
        BY <1>4 DEF Answer, TypeOK
    <2>2. \A k \in DOMAIN inbox[t] : ~ Final(inbox[t][k])
        BY <2>1 DEF AnswerInv, Final
    <2>3. \A k \in DOMAIN inbox'[t] : Final(inbox'[t][k]) => inbox'[t][k] = answered'[t]
        BY <2>1, <2>2 DEF TypeOK
    <2>4. pc' = pc /\ got' = got
        BY <1>4 DEF Answer
    <2>5. \A u \in Txs \ {t} : inbox'[u] = inbox[u] /\ answered'[u] = answered[u]
        BY <2>1 DEF TypeOK
    <2> QED
        BY <2>3, <2>4, <2>5 DEF AnswerInv
<1>5. ASSUME NEW t \in Txs, ClientEnds(t) \/ Cancel(t) PROVE AnswerInv'
    BY <1>5 DEF AnswerInv, TypeOK, ClientEnds, Cancel, forward
<1>6. CASE Reconnect \/ Stop \/ UNCHANGED vars
    BY <1>6 DEF AnswerInv, Reconnect, Stop, vars, handlers, forward
<1> QED
    BY <1>1, <1>3, <1>4, <1>5, <1>6, ArriveReceives, LoopBackReceives DEF Next

\* A destination's final response is the one the originator gets, for any number of
\* transactions, unless a CANCEL or select's choice of another case comes in between.
THEOREM AnswersReachOriginator == Spec => AnswerReachesOriginator
<1> DEFINE Lost(t) == /\ pc[t] = "relaying" /\ pc'[t] = "done" /\ answered[t] # 0
                      /\ got'[t] # answered[t] /\ got[t] # 487
                      /\ clientTx[t] = "open" /\ ~ stopped
<1>1. Inv /\ AnswerInv /\ [Next]_vars => \A t \in Txs : ~ Lost(t)
    <2> SUFFICES ASSUME TypeOK, AnswerInv, [Next]_vars, Inv, NEW t \in Txs, Lost(t) PROVE FALSE
        BY DEF Inv
    <2>1. ASSUME NEW u \in Txs, RelayStep(u) PROVE FALSE
        <3>1. u = t
            BY <2>1 DEF RelayStep, RelayResponse, ResponsesClosed, NoFinal, RunCancelled, Return,
                        Keep, Done, TypeOK
        <3>2. RelayResponse(t) /\ Final(Head(inbox[t]))
            BY <2>1, <3>1 DEF RelayStep, RelayResponse, ResponsesClosed, NoFinal, RunCancelled, Keep
        <3>3. 1 \in DOMAIN inbox[t] /\ Head(inbox[t]) = inbox[t][1]
            BY <3>2 DEF RelayResponse, TypeOK
        <3>4. Head(inbox[t]) = answered[t] /\ got[t] = 0
            BY <3>2, <3>3 DEF AnswerInv
        <3>5. got'[t] = Head(inbox[t])
            BY <3>2, <3>4 DEF RelayResponse, Respond, TypeOK
        <3> QED
            BY <3>4, <3>5
    <2>2. ASSUME NEW u \in Txs, NEW r \in Requests, Receive(u, r) PROVE FALSE
        <3>1. pc[u] = "idle" /\ \E l : pc' = [pc EXCEPT ![u] = l]
            BY <2>2 DEF Receive, Available, Answered, Bridged, Written, SendFails, SendSucceeds, Done
        <3> QED
            BY <3>1 DEF TypeOK
    <2>3. pc' # pc
        OBVIOUS
    <2>4. ASSUME NEW u \in Txs, NEW s \in Statuses, Answer(u, s) PROVE FALSE
        BY <2>3, <2>4 DEF Answer
    <2>5. ASSUME NEW u \in Txs, ClientEnds(u) \/ Cancel(u) PROVE FALSE
        BY <2>3, <2>5 DEF ClientEnds, Cancel
    <2>6. CASE Reconnect \/ Stop \/ UNCHANGED vars
        BY <2>3, <2>6 DEF Reconnect, Stop, vars, handlers
    <2> HIDE DEF Lost
    <2> QED
        BY <2>1, <2>2, <2>4, <2>5, <2>6, ArriveReceives, LoopBackReceives DEF Next
<1>2. Inv /\ AnswerInv /\ [Next]_vars =>
        [\A t \in Txs : pc[t] = "relaying" /\ pc'[t] = "done" /\ answered[t] # 0 =>
            \/ got'[t] = answered[t]
            \/ got[t] = 487
            \/ clientTx[t] # "open"
            \/ stopped]_vars
    BY <1>1
<1> QED
    BY <1>2, InvAlways, InitAnswer, NextAnswer, PTL DEF Spec, AnswerReachesOriginator

-----------------------------------------------------------------------------
(* Flows *)

\* A token is minted for an address of the phone.
Owned(token) == token = NoToken \/ token.addr \in PhoneAddrs

\* A forwarded request carries only such tokens; and what was routed along a flow, or
\* registers one, does not come back to the sequencer: its own Route is off.
Clean(f) ==
    /\ Owned(f.path) /\ Owned(f.recordRoute)
    /\ f.method \in {"INVITE", "ACK", "BYE", "REGISTER"} =>
        f.routes = <<>> \/ f.routes[1].host # "self"

FlowInv ==
    /\ Owned(binding) /\ Owned(dialog)
    /\ \A t \in Txs : Clean(fwd[t])

\* What the handlers rely on in a request that arrives.
Arriving(r) ==
    /\ Owned(r.path) /\ Owned(r.recordRoute)
    /\ r.method = "REGISTER" => r.src \in PhoneAddrs /\ r.routes = <<>>
    /\ RoutedToFlow(r) =>
        /\ r.routes[1].token.addr \in PhoneAddrs
        /\ r.src = NextHop \/ (r.src = phone /\ r.uri = NextHop)
        /\ r.routes = <<r.routes[1]>> \/ r.routes = <<r.routes[1], ForeignRoute>>

\* mintFlowToken packs the address it is given, or fails.
LEMMA TokenOwned ==
    ASSUME NEW addr \in PhoneAddrs
    PROVE  Owned(mintFlowToken(addr, "ws"))
BY DEF Owned, mintFlowToken

\* buildForward changes Max-Forwards and the destination only.
LEMMA ForwardKeeps ==
    ASSUME NEW r \in Requests, NEW dest
    PROVE  LET f == buildForward(r, dest)
           IN  /\ f.path = r.path /\ f.recordRoute = r.recordRoute /\ f.routes = r.routes
               /\ f.method = r.method /\ f.dest = dest
BY DEF buildForward, Requests

\* A handler that forwards nothing forwards no token.
LEMMA NoRequestClean == Clean(NoRequest)
BY DEF Clean, NoRequest, Request, Owned

\* proxyUnmanaged leaves the Routes on, of requests that no flow is looked up for.
LEMMA UnmanagedFlows ==
    ASSUME NEW r \in Requests, Arriving(r), r.method \in {"INFO", "OPTIONS"}
    PROVE  Clean(proxyUnmanaged(r).fwd)
<1>1. Clean(buildForward(r, NextHop))
    BY ForwardKeeps DEF Clean, Arriving
<1> QED
    BY <1>1, NoRequestClean DEF proxyUnmanaged, forwardAndRelay, Reply

\* handleRegister adds a Path for where the REGISTER came from.
LEMMA RegisterFlows ==
    ASSUME NEW r \in Requests, Arriving(r), r.method = "REGISTER"
    PROVE  Clean(handleRegister(r).fwd)
<1> DEFINE token == mintFlowToken(r.src, "ws")
           prepared == [r EXCEPT !.path = token]
<1>1. token \in Tokens \cup {NoToken} /\ Owned(token)
    BY TokenTyped, TokenOwned DEF Requests, Arriving
<1> HIDE DEF token
<1>2. /\ prepared \in Requests /\ prepared.path = token /\ prepared.recordRoute = r.recordRoute
      /\ prepared.routes = r.routes /\ prepared.method = r.method
    BY <1>1 DEF Requests
<1> HIDE DEF prepared
<1>3. Clean(buildForward(prepared, NextHop))
    BY <1>1, <1>2, ForwardKeeps DEF Clean, Arriving
<1> QED
    BY <1>3, NoRequestClean DEF handleRegister, forwardAndRelay, Reply, prepared, token

\* routeToFlow takes its own Route off and sends to the other side of the flow.
LEMMA FlowFlows ==
    ASSUME NEW r \in Requests, Arriving(r), RoutedToFlow(r), phone \in PhoneAddrs
    PROVE  LET f == routeToFlow(r).fwd
           IN  /\ Clean(f)
               /\ f # NoRequest =>
                    /\ f.dest # r.src
                    /\ r.routes[1].token.addr = phone =>
                        f.dest = (IF r.src = phone THEN NextHop ELSE phone)
<1> DEFINE token == r.routes[1].token
           popped == popSelfRoute(r)
           dest == IF FromFlow(r) THEN r.uri ELSE token.addr
           prepared == IF ~ FromFlow(r) /\ r.method = "INVITE"
                       THEN [popped EXCEPT !.recordRoute = token] ELSE popped
<1>1. /\ token.addr \in PhoneAddrs
      /\ r.src = NextHop \/ (r.src = phone /\ r.uri = NextHop)
      /\ r.routes = <<r.routes[1]>> \/ r.routes = <<r.routes[1], ForeignRoute>>
      /\ r.method \in {"INVITE", "ACK", "BYE"}
      /\ Owned(r.path) /\ Owned(r.recordRoute)
    BY DEF Arriving, RoutedToFlow
<1>2. token \in Tokens
    <2>1. r.routes \in Seq(Routes) /\ r.routes # <<>> /\ parses(token)
        BY DEF RoutedToFlow, FollowsFlow, Requests
    <2>2. r.routes[1] \in Routes
        BY <2>1
    <2> QED
        BY <2>1, <2>2 DEF Routes, GarbageTokens, NoToken, parses, Transports
<1>3. Tail(r.routes) = <<>> \/ Tail(r.routes) = <<ForeignRoute>>
    <2>1. \A a, b : Tail(<<a>>) = <<>> /\ Tail(<<a, b>>) = <<b>>
        OBVIOUS
    <2> QED
        BY <1>1, <2>1, Zenon
<1>4. ForeignRoute \in Routes /\ ForeignRoute.host # "self"
    BY DEF ForeignRoute, Routes
<1>5. /\ Tail(r.routes) \o Tail(r.routes) \in Seq(Routes)
      /\ \/ Tail(r.routes) \o Tail(r.routes) = <<>>
         \/ (Tail(r.routes) \o Tail(r.routes))[1].host # "self"
    <2>1. <<>> \o <<>> = <<>> /\ <<>> \in Seq(Routes)
        OBVIOUS
    <2>2. ASSUME NEW b \in Routes PROVE <<b>> \o <<b>> \in Seq(Routes) /\ (<<b>> \o <<b>>)[1] = b
        OBVIOUS
    <2> QED
        BY <1>3, <1>4, <2>1, <2>2, Zenon
<1>6. /\ popped \in Requests /\ popped.routes = Tail(r.routes) \o Tail(r.routes)
      /\ popped.path = r.path /\ popped.recordRoute = r.recordRoute
    BY <1>5 DEF popSelfRoute, Requests
<1> HIDE DEF token, popped
<1>7. /\ prepared \in Requests /\ prepared.routes = popped.routes /\ prepared.path = r.path
      /\ prepared.recordRoute \in {r.recordRoute, token}
    BY <1>2, <1>6 DEF Requests
<1>8. dest # r.src /\ (token.addr = phone => dest = IF r.src = phone THEN NextHop ELSE phone)
    BY <1>1, ProxyAssumption DEF FromFlow, token
<1> HIDE DEF dest, prepared
<1>9. Clean(buildForward(prepared, dest)) /\ buildForward(prepared, dest).dest = dest
    <2>1. Owned(token) /\ Owned(prepared.recordRoute) /\ Owned(prepared.path)
        BY <1>1, <1>7 DEF Owned
    <2>2. prepared.routes = <<>> \/ prepared.routes[1].host # "self"
        BY <1>5, <1>6, <1>7
    <2> HIDE DEF Owned
    <2> QED
        BY <1>7, <2>1, <2>2, ForwardKeeps DEF Clean
<1>10. routeToFlow(r).fwd \in {NoRequest, buildForward(prepared, dest)}
    BY DEF routeToFlow, forwardStateless, forwardAndRelay, Reply, prepared, dest, popped, token
<1> QED
    BY <1>8, <1>9, <1>10, NoRequestClean DEF token

\* Whatever the dispatch decides to forward is clean.
LEMMA HandleFlows ==
    ASSUME NEW r \in Requests, Arriving(r)
    PROVE  phone \in PhoneAddrs => Clean(Handle(r).fwd)
<1> SUFFICES ASSUME phone \in PhoneAddrs PROVE Clean(Handle(r).fwd)
    OBVIOUS
<1>1. CASE r.method \in {"INVITE", "ACK", "BYE"}
    BY <1>1, FlowFlows, NoRequestClean DEF Handle, Bridge, Reply
<1>2. CASE r.method = "REGISTER"
    BY <1>2, RegisterFlows DEF Handle
<1>3. CASE r.method = "INFO"
    <2>1. Clean(handleInfo(r).fwd)
        BY <1>3, UnmanagedFlows, NoRequestClean DEF handleInfo, Reply
    <2> QED
        BY <1>3, <2>1 DEF Handle
<1>4. CASE r.method = "OPTIONS"
    BY <1>4, UnmanagedFlows DEF Handle
<1> QED
    BY <1>1, <1>2, <1>3, <1>4 DEF Requests, Methods

\* What the parties send is as the handlers expect it; so is what the next hop hands back.
LEMMA ArriveFlows ==
    ASSUME Inv, FlowInv, NEW t \in Txs, Arrive(t)
    PROVE  \E r \in Requests : Receive(t, r) /\ Arriving(r)
<1>1. ASSUME NEW q \in FromPhone \cup FromNextHop, NEW mf \in MaxForwards
      PROVE  Arriving(Request(q.method, q.src, q.uri, mf, q.routes))
    <2> DEFINE r == Request(q.method, q.src, q.uri, mf, q.routes)
    <2>1. /\ r.method = q.method /\ r.src = q.src /\ r.uri = q.uri /\ r.routes = q.routes
          /\ r.path = NoToken /\ r.recordRoute = NoToken
        BY DEF Request
    <2>2. phone \in PhoneAddrs
        BY DEF Inv, TypeOK
    <2>3. q.method = "REGISTER" => q.src \in PhoneAddrs /\ q.routes = <<>>
        BY <1>1, <2>2 DEF FromPhone, FromNextHop
    <2>4. q.src = NextHop \/ (q.src = phone /\ q.uri = NextHop)
        BY <1>1 DEF FromPhone, FromNextHop
    <2>5. \/ q.routes = <<>>
          \/ \E token \in {binding, dialog} :
                /\ token # NoToken
                /\ q.routes \in {<<SelfRoute(token)>>, <<SelfRoute(token), ForeignRoute>>}
          \/ \E g \in GarbageTokens : q.routes = <<SelfRoute(g)>>
        BY <1>1 DEF FromPhone, FromNextHop
    <2>6. CASE q.routes = <<>>
        BY <2>1, <2>3, <2>6 DEF Arriving, Owned, RoutedToFlow, FollowsFlow
    <2>7. ASSUME NEW token \in {binding, dialog}, token # NoToken,
                 q.routes \in {<<SelfRoute(token)>>, <<SelfRoute(token), ForeignRoute>>}
          PROVE  Arriving(r)
        <3>1. q.routes[1] = SelfRoute(token) /\ token.addr \in PhoneAddrs
            BY <2>7 DEF FlowInv, Owned
        <3>2. q.routes[1].token.addr \in PhoneAddrs
            BY <3>1 DEF SelfRoute
        <3>3. q.routes = <<q.routes[1]>> \/ q.routes = <<q.routes[1], ForeignRoute>>
            BY <2>7, <3>1
        <3> QED
            BY <2>1, <2>3, <2>4, <3>2, <3>3 DEF Arriving, Owned
    <2>8. ASSUME NEW g \in GarbageTokens, q.routes = <<SelfRoute(g)>> PROVE Arriving(r)
        <3>1. q.routes[1].token = g /\ ~ parses(g)
            BY <2>8 DEF SelfRoute, GarbageTokens, parses, Transports
        <3>2. ~ RoutedToFlow(r)
            BY <2>1, <3>1 DEF RoutedToFlow, FollowsFlow
        <3> QED
            BY <2>1, <2>3, <3>2 DEF Arriving, Owned
    <2> QED
        BY <2>5, <2>6, <2>7, <2>8
<1>2. ASSUME NEW f \in Fragments
      PROVE  Arriving([Request("INFO", phone, NextHop, Absent, <<>>) EXCEPT !.fragment = f])
    BY DEF Arriving, Request, Owned, RoutedToFlow
<1> QED
    BY <1>1, <1>2, PartyRequest, FragmentRequest DEF Arrive

\* Only requests that no flow is looked up for come back with the sequencer's Route on.
LEMMA LoopBackFlows ==
    ASSUME Inv, FlowInv, NEW t \in Txs, NEW u \in Txs, LoopBack(t, u)
    PROVE  \E r \in Requests : Receive(u, r) /\ Arriving(r)
<1> DEFINE r == [fwd[t] EXCEPT !.src = NextHop]
<1>1. fwd[t] \in Requests /\ NextHop \in Addrs
    BY DEF Inv, TypeOK, Addrs
<1>2. /\ r \in Requests /\ r.method = fwd[t].method /\ r.routes = fwd[t].routes
      /\ r.path = fwd[t].path /\ r.recordRoute = fwd[t].recordRoute
    BY <1>1 DEF Requests
<1>3. Clean(fwd[t]) /\ fwd[t].routes # <<>> /\ fwd[t].routes[1].host = "self" /\ Receive(u, r)
    BY DEF FlowInv, LoopBack
<1> HIDE DEF r
<1>4. Arriving(r)
    BY <1>2, <1>3 DEF Clean, Arriving, RoutedToFlow
<1> QED
    BY <1>2, <1>3, <1>4

\* The phone may be registered, with a token of its own address.
LEMMA InitFlow == Init => FlowInv
<1> SUFFICES ASSUME Init PROVE FlowInv
    OBVIOUS
<1>1. Owned(NoToken) /\ Owned(mintFlowToken(phone, "ws"))
    BY TokenOwned DEF Init, Owned
<1>2. \A t \in Txs : fwd[t] = NoRequest
    BY DEF Init
<1> QED
    BY <1>1, <1>2, NoRequestClean DEF Init, FlowInv

\* The forward of a request is the one its handler decided on.
LEMMA ReceiveForwards ==
    ASSUME TypeOK, NEW t \in Txs, NEW r, Receive(t, r)
    PROVE  /\ \/ fwd' = fwd
              \/ fwd' = [fwd EXCEPT ![t] = Handle(r).fwd] /\ req' = [req EXCEPT ![t] = r]
           /\ UNCHANGED parties
BY DEF Receive, Answered, Bridged, Written, SendFails, SendSucceeds, forward

\* The other steps forward nothing and mint no token.
LEMMA OtherFlows ==
    ASSUME TypeOK, FlowInv,
           \/ \E t \in Txs : RelayStep(t) \/ ClientEnds(t) \/ Cancel(t)
                              \/ \E s \in Statuses : Answer(t, s)
           \/ Reconnect \/ Stop \/ UNCHANGED vars
    PROVE  FlowInv' /\ \A t \in Txs : fwd'[t] \in {fwd[t], NoRequest}
<1>1. \A t \in Txs : fwd'[t] \in {fwd[t], NoRequest}
    BY DEF RelayStep, RelayResponse, ResponsesClosed, NoFinal, RunCancelled, Return, Keep,
           ClientEnds, Cancel, Answer, Reconnect, Stop, vars, handlers, forward, TypeOK
<1>2. Owned(binding)' /\ Owned(dialog)'
    <2>1. \A t \in Txs : Owned(fwd[t].path) /\ Owned(fwd[t].recordRoute)
        BY DEF FlowInv, Clean
    <2>2. /\ binding' = binding \/ \E t \in Txs : binding' = fwd[t].path
          /\ dialog' = dialog \/ \E t \in Txs : dialog' = fwd[t].recordRoute
        BY DEF RelayStep, RelayResponse, ResponsesClosed, NoFinal, RunCancelled, Select, ClientEnds,
               Cancel, Answer, Reconnect, Stop, vars, parties
    <2> QED
        BY <2>1, <2>2 DEF FlowInv, Owned
<1> QED
    BY <1>1, <1>2, NoRequestClean DEF FlowInv

\* Tokens reach the registrar and the dialog only through a forwarded request.
LEMMA NextFlow == Inv /\ FlowInv /\ [Next]_vars => FlowInv'
<1> SUFFICES ASSUME TypeOK, Inv, FlowInv, [Next]_vars PROVE FlowInv'
    BY DEF Inv
<1>1. ASSUME NEW t \in Txs, NEW r \in Requests, Receive(t, r), Arriving(r) PROVE FlowInv'
    <2>1. Clean(Handle(r).fwd)
        BY <1>1, HandleFlows DEF TypeOK
    <2>2. binding' = binding /\ dialog' = dialog
        BY <1>1, ReceiveForwards DEF parties
    <2> DEFINE f == Handle(r).fwd
    <2>3. fwd' = fwd \/ fwd' = [fwd EXCEPT ![t] = f]
        BY <1>1, ReceiveForwards
    <2> HIDE DEF f
    <2>4. \A u \in Txs : fwd'[u] \in {fwd[u], f}
        BY <2>3 DEF TypeOK
    <2> QED
        BY <2>1, <2>2, <2>4 DEF FlowInv, Owned, f
<1> QED
    BY <1>1, ArriveFlows, LoopBackFlows, OtherFlows DEF Next

\* Whatever the transactions, addresses and reconnects, a request routed along a flow goes to
\* the flow's other side and never back to where it came from.  A token always names an
\* address of the phone, and popSelfRoute takes the sequencer's Route off all that is routed
\* this way, so none of it comes back from the next hop looking like the phone's.
THEOREM FlowsAlwaysDeliver == Spec => FlowsDeliver
<1> DEFINE Delivered(t) ==
        LET r == req'[t]
            dest == fwd'[t].dest
        IN fwd[t] = NoRequest /\ fwd'[t] # NoRequest /\ RoutedToFlow(r) =>
            /\ dest # r.src
            /\ r.routes[1].token.addr = phone =>
                dest = (IF r.src = phone THEN NextHop ELSE phone)
<1>1. Inv /\ FlowInv /\ [Next]_vars => \A t \in Txs : Delivered(t)
    <2> SUFFICES ASSUME TypeOK, Inv, FlowInv, [Next]_vars, NEW t \in Txs,
                        fwd[t] = NoRequest, fwd'[t] # NoRequest, RoutedToFlow(req'[t])
                 PROVE  /\ fwd'[t].dest # req'[t].src
                        /\ req'[t].routes[1].token.addr = phone =>
                            fwd'[t].dest = (IF req'[t].src = phone THEN NextHop ELSE phone)
        BY DEF Inv
    <2>1. PICK u \in Txs, r \in Requests : Receive(u, r) /\ Arriving(r)
        BY ArriveFlows, LoopBackFlows, OtherFlows DEF Next
    <2>2. fwd' = [fwd EXCEPT ![u] = Handle(r).fwd] /\ req' = [req EXCEPT ![u] = r]
        BY <2>1, ReceiveForwards
    <2>3. u = t /\ fwd'[t] = Handle(r).fwd /\ req'[t] = r
        BY <2>2 DEF TypeOK
    <2>4. Handle(r) = routeToFlow(r) /\ phone \in PhoneAddrs
        BY <2>3 DEF Handle, RoutedToFlow, TypeOK
    <2> QED
        BY <2>1, <2>3, <2>4, FlowFlows
<1>2. Inv /\ FlowInv /\ [Next]_vars => [\A t \in Txs : Delivered(t)]_vars
    BY <1>1
<1>3. Spec => [][\A t \in Txs : Delivered(t)]_vars
    BY <1>2, InvAlways, InitFlow, NextFlow, PTL DEF Spec
<1> QED
    BY <1>3 DEF FlowsDeliver
=============================================================================
