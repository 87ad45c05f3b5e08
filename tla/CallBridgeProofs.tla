-------------------------- MODULE CallBridgeProofs --------------------------
(***************************************************************************)
(* Theorems about CallBridge, for any set of calls, any application chain, *)
(* any offers and any port range: types, the ownership of the port pairs   *)
(* and the sockets bound on them; then the life of a call: it implements   *)
(* CallLifecycle, an established call is whole, a call that ends has       *)
(* replied, hung up its legs, returned what it held, and honoured the      *)
(* policy of its chain.                                                    *)
(***************************************************************************)
EXTENDS CallBridge, TLAPS

-----------------------------------------------------------------------------
(* Type correctness *)

\* While the bridge works on an application, at is the index of one.  TypeOK is not
\* inductive without it: at + 1 must stay the number of a leg.
AtApplication ==
    \A c \in Calls :
        pc[c] \in {"tapCallee", "tapBind", "dial", "wait", "append", "hook"} => at[c] \in Apps

TypeInv == TypeOK /\ AtApplication

\* The part of TypeOK that a failing setup step touches.
SetupTypes ==
    /\ inb \in [Calls -> InboundStates]
    /\ free \in [Pairs -> Nat]
    /\ open \subseteq Pairs
    /\ pend \in [Calls -> SUBSET Pairs]
    /\ cur \in [Calls -> SUBSET Pairs]
    /\ pc \in [Calls -> BridgeSteps]

\* The legs are numbered without gaps: after the last application comes the PBX.
LEMMA LegNumbers ==
    /\ Apps \subseteq Legs
    /\ PBX \in Legs
    /\ 1 \in Legs
    /\ \A i \in Apps : i + 1 \in Legs
BY ConfigAssumption DEF Apps, Legs, PBX, Application

\* What fail leaves behind is well typed, and the bridge is out of the chain.
LEMMA FailType ==
    ASSUME TypeOK, NEW c \in Calls, NEW S \in SUBSET Pairs, NEW B \in SUBSET Pairs,
           Fail(c, S, B)
    PROVE  /\ SetupTypes'
           /\ pc' = [pc EXCEPT ![c] = "abort"]
<1> USE DEF Fail, Reject, TypeOK
<1>1. inb' \in [Calls -> InboundStates]
    BY DEF InboundStates
<1>2. free' \in [Pairs -> Nat]
    BY DEF Give
<1>3. open' \subseteq Pairs
    OBVIOUS
<1>4. pend' \in [Calls -> SUBSET Pairs] /\ cur' \in [Calls -> SUBSET Pairs]
    OBVIOUS
<1>5. pc' \in [Calls -> BridgeSteps] /\ pc' = [pc EXCEPT ![c] = "abort"]
    BY DEF BridgeSteps, Goto
<1> QED
    BY <1>1, <1>2, <1>3, <1>4, <1>5 DEF SetupTypes

\* The same for the failure of an application, under either policy.
LEMMA AppFailedType ==
    ASSUME TypeOK, NEW c \in Calls, at[c] \in Apps, NEW B \in SUBSET Pairs, AppFailed(c, B)
    PROVE  /\ SetupTypes'
           /\ at' \in [Calls -> Legs]
           /\ outcome' \in [Calls -> [Apps -> Outcomes]]
           /\ \A d \in Calls : d # c => pc'[d] = pc[d] /\ at'[d] = at[d]
           /\ pc'[c] \in {"abort", "chain"}
<1>1. outcome' \in [Calls -> [Apps -> Outcomes]]
    BY DEF AppFailed, TypeOK, Outcomes
<1>2. CASE FailureAction(c) = "abort" /\ Fail(c, cur[c], B) /\ UNCHANGED at
    <2>1. cur[c] \in SUBSET Pairs /\ at' \in [Calls -> Legs]
        BY <1>2 DEF TypeOK
    <2>2. /\ SetupTypes'
          /\ pc' = [pc EXCEPT ![c] = "abort"]
        BY <1>2, <2>1, FailType
    <2>3. pc \in [Calls -> BridgeSteps]
        BY DEF TypeOK
    <2> QED
        BY <1>1, <1>2, <2>1, <2>2, <2>3
<1>3. CASE /\ Give(cur[c])
           /\ open' = open \ B
           /\ cur' = [cur EXCEPT ![c] = {}]
           /\ at' = [at EXCEPT ![c] = @ + 1]
           /\ Goto(c, "chain")
           /\ UNCHANGED <<inb, pend>>
    <2>1. free' \in [Pairs -> Nat]
        BY <1>3 DEF Give, TypeOK
    <2>2. at' \in [Calls -> Legs]
        BY <1>3, LegNumbers DEF TypeOK
    <2>3. pc' \in [Calls -> BridgeSteps] /\ pc' = [pc EXCEPT ![c] = "chain"]
        BY <1>3 DEF Goto, TypeOK, BridgeSteps
    <2> QED
        BY <1>1, <1>3, <2>1, <2>2, <2>3 DEF TypeOK, SetupTypes
<1> QED
    BY <1>2, <1>3 DEF AppFailed

\* An acquired pair leaves the count of the pool a number.
LEMMA AcquireType ==
    ASSUME TypeOK, NEW c \in Calls, NEW then \in BridgeSteps, AcquirePair(c, then)
    PROVE  /\ free' \in [Pairs -> Nat]
           /\ cur' \in [Calls -> SUBSET Pairs]
           /\ pc' \in [Calls -> BridgeSteps]
           /\ pc' = [pc EXCEPT ![c] = then]
<1>1. PICK p \in Pairs : Take(p) /\ cur' = [cur EXCEPT ![c] = @ \cup {p}]
    BY DEF AcquirePair
<1>2. free' \in [Pairs -> Nat]
    BY <1>1 DEF Take, TypeOK
<1>3. cur' \in [Calls -> SUBSET Pairs]
    BY <1>1 DEF TypeOK
<1> QED
    BY <1>2, <1>3 DEF AcquirePair, Goto, TypeOK

\* Binding sockets keeps the types.
LEMMA BindType ==
    ASSUME TypeOK, NEW c \in Calls, NEW then \in BridgeSteps, BindPairs(c, then)
    PROVE  /\ open' \subseteq Pairs
           /\ pc' \in [Calls -> BridgeSteps]
           /\ pc' = [pc EXCEPT ![c] = then]
BY DEF BindPairs, Goto, TypeOK

\* Committing a teardown, or finding it committed.
LEMMA TeardownType ==
    ASSUME TypeOK, NEW c \in Calls, NEW why \in Causes, Teardown(c, why)
    PROVE  /\ state' \in [Calls -> CallStates]
           /\ td' \in [Calls -> TeardownSteps]
           /\ tdLegs' \in [Calls -> SUBSET (Legs \cup {Inbound})]
           /\ tdHook' \in [Calls -> BOOLEAN]
           /\ cause' \in [Calls -> Causes]
<1> USE DEF Teardown, LiveDialogs, TypeOK
<1>1. state' \in [Calls -> CallStates] /\ td' \in [Calls -> TeardownSteps]
    BY DEF CallStates, TeardownSteps
<1>2. tdLegs' \in [Calls -> SUBSET (Legs \cup {Inbound})]
    OBVIOUS
<1>3. tdHook' \in [Calls -> BOOLEAN]
    OBVIOUS
<1>4. cause' \in [Calls -> Causes]
    OBVIOUS
<1> QED
    BY <1>1, <1>2, <1>3, <1>4

\* A leg changes to another leg state.
LEMMA LegType ==
    ASSUME TypeOK, NEW c \in Calls, NEW l \in Legs, NEW s \in LegStates,
           leg' = [leg EXCEPT ![c][l] = s]
    PROVE  leg' \in [Calls -> [Legs -> LegStates]]
BY DEF TypeOK

\* Every step keeps the types.
LEMMA TypeStep == TypeInv /\ [Next]_vars => TypeInv'
<1> SUFFICES ASSUME TypeInv, [Next]_vars PROVE TypeInv'
    OBVIOUS
<1> USE DEF TypeInv, AtApplication
<1>1. ASSUME NEW c \in Calls, NEW o \in Offers, NEW R \in SUBSET Apps, HandleInvite(c, o, R)
   PROVE TypeInv'
    BY <1>1, ConfigAssumption DEF HandleInvite, Goto, CallStates, BridgeSteps, InboundStates,
       Outcomes, TypeOK, tdVars, engVars
<1>2. ASSUME NEW c \in Calls, HookInbound(c) PROVE TypeInv'
    BY <1>2 DEF HookInbound, Goto, BridgeSteps, TypeOK, callVars, bridgeVars, dialogVars,
       tdVars, engVars
<1>3. ASSUME NEW c \in Calls, SkipUnrouted(c) PROVE TypeInv'
    BY <1>3, LegNumbers DEF SkipUnrouted, Goto, BridgeSteps, TypeOK, callVars, bridgeVars,
       dialogVars, tdVars, engVars
<1>4. ASSUME NEW c \in Calls, BadAppURI(c) PROVE TypeInv'
    <2>1. cur[c] \in SUBSET Pairs /\ {} \in SUBSET Pairs /\ TypeOK
        BY <1>4 DEF TypeOK
    <2>2. Fail(c, {}, {})
        BY <1>4 DEF BadAppURI
    <2>3. /\ SetupTypes'
          /\ pc' = [pc EXCEPT ![c] = "abort"]
        BY <1>4, <2>1, <2>2, FailType
    <2> QED
        BY <1>4, <2>1, <2>2, <2>3 DEF SetupTypes, BadAppURI, TypeOK, callVars, bridgeVars,
           dialogVars, tdVars, engVars
<1>5. ASSUME NEW c \in Calls, AcquireTapCaller(c) PROVE TypeInv'
    <2>1. AcquirePair(c, "tapCallee")
        BY <1>5 DEF AcquireTapCaller
    <2>2. /\ free' \in [Pairs -> Nat]
          /\ cur' \in [Calls -> SUBSET Pairs]
          /\ pc' \in [Calls -> BridgeSteps]
          /\ pc' = [pc EXCEPT ![c] = "tapCallee"]
        BY <1>5, <2>1, AcquireType DEF BridgeSteps
    <2> QED
        BY <1>5, <2>1, <2>2 DEF AcquireTapCaller, AtApp, TypeOK, callVars, bridgeVars,
           dialogVars, tdVars, engVars
<1>6. ASSUME NEW c \in Calls, AcquireTapCallee(c) PROVE TypeInv'
    <2>1. AcquirePair(c, "tapBind")
        BY <1>6 DEF AcquireTapCallee
    <2>2. /\ free' \in [Pairs -> Nat]
          /\ cur' \in [Calls -> SUBSET Pairs]
          /\ pc' \in [Calls -> BridgeSteps]
          /\ pc' = [pc EXCEPT ![c] = "tapBind"]
        BY <1>6, <2>1, AcquireType DEF BridgeSteps
    <2> QED
        BY <1>6, <2>1, <2>2 DEF AcquireTapCallee, TypeOK, callVars, bridgeVars, dialogVars,
           tdVars, engVars
<1>7. ASSUME NEW c \in Calls, BindTap(c) PROVE TypeInv'
    <2>1. BindPairs(c, "dial")
        BY <1>7 DEF BindTap
    <2>2. /\ open' \subseteq Pairs
          /\ pc' \in [Calls -> BridgeSteps]
          /\ pc' = [pc EXCEPT ![c] = "dial"]
        BY <1>7, <2>1, BindType DEF BridgeSteps
    <2> QED
        BY <1>7, <2>1, <2>2 DEF BindTap, TypeOK, callVars, bridgeVars, dialogVars, tdVars, engVars
<1>8. ASSUME NEW c \in Calls, TapSetupFails(c) PROVE TypeInv'
    <2>1. cur[c] \in SUBSET Pairs /\ at[c] \in Apps
        BY <1>8 DEF TapSetupFails, AtApp, TypeOK
    <2>2. AppFailed(c, {})
        BY <1>8 DEF TapSetupFails
    <2>3. /\ SetupTypes' /\ at' \in [Calls -> Legs]
          /\ outcome' \in [Calls -> [Apps -> Outcomes]]
          /\ \A d \in Calls : d # c => pc'[d] = pc[d] /\ at'[d] = at[d]
          /\ pc'[c] \in {"abort", "chain"}
        BY <1>8, <2>1, <2>2, AppFailedType
    <2> QED
        BY <1>8, <2>1, <2>2, <2>3 DEF SetupTypes, TapSetupFails, TypeOK, callVars, bridgeVars,
           dialogVars, tdVars, engVars
<1>9. ASSUME NEW c \in Calls, OfferInactive(c) PROVE TypeInv'
    BY <1>9 DEF OfferInactive, AtApp, Goto, BridgeSteps, TypeOK, callVars, bridgeVars,
       dialogVars, tdVars, engVars
<1>10. ASSUME NEW c \in Calls, BuildOfferFails(c) PROVE TypeInv'
    <2>1. cur[c] \in SUBSET Pairs /\ {} \in SUBSET Pairs /\ TypeOK
        BY <1>10 DEF TypeOK
    <2>2. Fail(c, cur[c], {})
        BY <1>10 DEF BuildOfferFails
    <2>3. /\ SetupTypes'
          /\ pc' = [pc EXCEPT ![c] = "abort"]
        BY <1>10, <2>1, <2>2, FailType
    <2> QED
        BY <1>10, <2>1, <2>2, <2>3 DEF SetupTypes, BuildOfferFails, TypeOK, callVars,
           bridgeVars, dialogVars, tdVars, engVars
<1>11. ASSUME NEW c \in Calls, DialApp(c) PROVE TypeInv'
    <2>1. at[c] \in Legs
        BY <1>11, LegNumbers DEF DialApp, TypeOK
    <2>2. leg' \in [Calls -> [Legs -> LegStates]]
        BY <1>11, <2>1, LegType DEF DialApp, LegStates, TypeOK
    <2> QED
        BY <1>11, <2>1, <2>2 DEF DialApp, Goto, BridgeSteps, TypeOK, callVars, bridgeVars,
           dialogVars, tdVars, engVars
<1>12. ASSUME NEW c \in Calls, WaitAnswerApp(c) PROVE TypeInv'
    <2>1. at[c] \in Legs
        BY <1>12, LegNumbers DEF WaitAnswerApp, TypeOK
    <2>2. leg' \in [Calls -> [Legs -> LegStates]]
        BY <1>12, <2>1, LegType DEF WaitAnswerApp, LegStates, TypeOK
    <2> QED
        BY <1>12, <2>1, <2>2 DEF WaitAnswerApp, Goto, BridgeSteps, TypeOK, callVars, bridgeVars,
           dialogVars, tdVars, engVars
<1>13. ASSUME NEW c \in Calls, AppLegFails(c) PROVE TypeInv'
    <2>1. cur[c] \in SUBSET Pairs /\ at[c] \in Apps
        BY <1>13 DEF AppLegFails, AtApp, TypeOK
    <2>2. AppFailed(c, cur[c])
        BY <1>13 DEF AppLegFails
    <2>3. /\ SetupTypes' /\ at' \in [Calls -> Legs]
          /\ outcome' \in [Calls -> [Apps -> Outcomes]]
          /\ \A d \in Calls : d # c => pc'[d] = pc[d] /\ at'[d] = at[d]
          /\ pc'[c] \in {"abort", "chain"}
        BY <1>13, <2>1, <2>2, AppFailedType
    <2>4. leg' \in [Calls -> [Legs -> LegStates]]
        BY <1>13, <2>1, LegType, LegNumbers DEF AppLegFails, LegStates
    <2> QED
        BY <1>13, <2>1, <2>2, <2>3, <2>4 DEF SetupTypes, AppLegFails, TypeOK, callVars,
           bridgeVars, dialogVars, tdVars, engVars
<1>14. ASSUME NEW c \in Calls, AppendAppLeg(c) PROVE TypeInv'
    BY <1>14, LegNumbers DEF AppendAppLeg, Outcomes, Goto, BridgeSteps, TypeOK, callVars,
       bridgeVars, dialogVars, tdVars, engVars
<1>15. ASSUME NEW c \in Calls, TapAnswerUnparsed(c) PROVE TypeInv'
    BY <1>15, LegNumbers DEF TapAnswerUnparsed, Outcomes, Give, Goto, BridgeSteps, TypeOK,
       callVars, bridgeVars, dialogVars, tdVars, engVars
<1>16. ASSUME NEW c \in Calls, HookAppLeg(c) PROVE TypeInv'
    <2>1. at[c] \in Legs
        BY <1>16, LegNumbers DEF HookAppLeg, TypeOK
    <2>2. leg[c][at[c]] \in LegStates
        BY <1>16, <2>1 DEF TypeOK
    <2>3. \E s \in LegStates : leg' = [leg EXCEPT ![c][at[c]] = s]
        BY <1>16, <2>1, <2>2 DEF HookAppLeg, LegStates, TypeOK
    <2>4. leg' \in [Calls -> [Legs -> LegStates]]
        BY <1>16, <2>1, <2>3, LegType
    <2> QED
        BY <1>16, <2>1, <2>2, <2>3, <2>4, LegNumbers DEF HookAppLeg, Goto, BridgeSteps, TypeOK,
           callVars, bridgeVars, dialogVars, tdVars, engVars
<1>17. ASSUME NEW c \in Calls, ChainDone(c) PROVE TypeInv'
    BY <1>17 DEF ChainDone, Goto, BridgeSteps, TypeOK, callVars, bridgeVars, dialogVars, tdVars,
       engVars
<1>18. ASSUME NEW c \in Calls, AnchorEndpoint(c) PROVE TypeInv'
    <2>1. AcquirePair(c, "anchorPBX")
        BY <1>18 DEF AnchorEndpoint
    <2>2. /\ free' \in [Pairs -> Nat]
          /\ cur' \in [Calls -> SUBSET Pairs]
          /\ pc' \in [Calls -> BridgeSteps]
          /\ pc' = [pc EXCEPT ![c] = "anchorPBX"]
        BY <1>18, <2>1, AcquireType DEF BridgeSteps
    <2> QED
        BY <1>18, <2>1, <2>2 DEF AnchorEndpoint, TypeOK, callVars, bridgeVars, dialogVars,
           tdVars, engVars
<1>19. ASSUME NEW c \in Calls, AnchorWebRTC(c) PROVE TypeInv'
    BY <1>19 DEF AnchorWebRTC, Goto, BridgeSteps, TypeOK, callVars, bridgeVars, dialogVars,
       tdVars, engVars
<1>20. ASSUME NEW c \in Calls, AnchorPBX(c) PROVE TypeInv'
    <2>1. AcquirePair(c, "bind")
        BY <1>20 DEF AnchorPBX
    <2>2. /\ free' \in [Pairs -> Nat]
          /\ cur' \in [Calls -> SUBSET Pairs]
          /\ pc' \in [Calls -> BridgeSteps]
          /\ pc' = [pc EXCEPT ![c] = "bind"]
        BY <1>20, <2>1, AcquireType DEF BridgeSteps
    <2> QED
        BY <1>20, <2>1, <2>2 DEF AnchorPBX, TypeOK, callVars, bridgeVars, dialogVars, tdVars,
           engVars
<1>21. ASSUME NEW c \in Calls, BindAnchor(c) PROVE TypeInv'
    <2>1. BindPairs(c, "register")
        BY <1>21 DEF BindAnchor
    <2>2. /\ open' \subseteq Pairs
          /\ pc' \in [Calls -> BridgeSteps]
          /\ pc' = [pc EXCEPT ![c] = "register"]
        BY <1>21, <2>1, BindType DEF BridgeSteps
    <2> QED
        BY <1>21, <2>1, <2>2 DEF BindAnchor, TypeOK, callVars, bridgeVars, dialogVars, tdVars,
           engVars
<1>22. ASSUME NEW c \in Calls, AnchorFails(c) PROVE TypeInv'
    <2>1. cur[c] \in SUBSET Pairs /\ {} \in SUBSET Pairs /\ TypeOK
        BY <1>22 DEF TypeOK
    <2>2. Fail(c, cur[c], {})
        BY <1>22 DEF AnchorFails
    <2>3. /\ SetupTypes'
          /\ pc' = [pc EXCEPT ![c] = "abort"]
        BY <1>22, <2>1, <2>2, FailType
    <2> QED
        BY <1>22, <2>1, <2>2, <2>3 DEF SetupTypes, AnchorFails, TypeOK, callVars, bridgeVars,
           dialogVars, tdVars, engVars
<1>23. ASSUME NEW c \in Calls, RegisterMedia(c) PROVE TypeInv'
    BY <1>23 DEF RegisterMedia, Goto, BridgeSteps, TypeOK, callVars, bridgeVars, dialogVars,
       tdVars, engVars
<1>24. ASSUME NEW c \in Calls, RegisterRefused(c) PROVE TypeInv'
    BY <1>24 DEF RegisterRefused, InboundStates, Give, Goto, BridgeSteps, TypeOK, callVars,
       bridgeVars, dialogVars, tdVars, engVars
<1>25. ASSUME NEW c \in Calls, DialPBX(c) PROVE TypeInv'
    <2>1. leg' \in [Calls -> [Legs -> LegStates]]
        BY <1>25, LegNumbers, LegType DEF DialPBX, LegStates, TypeOK
    <2> QED
        BY <1>25, <2>1, LegNumbers DEF DialPBX, Goto, BridgeSteps, TypeOK, callVars, bridgeVars,
           dialogVars, tdVars, engVars
<1>26. ASSUME NEW c \in Calls, WaitAnswerPBX(c) PROVE TypeInv'
    <2>1. leg' \in [Calls -> [Legs -> LegStates]]
        BY <1>26, LegNumbers, LegType DEF WaitAnswerPBX, LegStates, TypeOK
    <2> QED
        BY <1>26, <2>1, LegNumbers DEF WaitAnswerPBX, Goto, BridgeSteps, TypeOK, callVars,
           bridgeVars, dialogVars, tdVars, engVars
<1>27. ASSUME NEW c \in Calls, PBXFails(c) PROVE TypeInv'
    <2>1. cur[c] \in SUBSET Pairs /\ {} \in SUBSET Pairs /\ TypeOK
        BY <1>27 DEF TypeOK
    <2>2. leg' \in [Calls -> [Legs -> LegStates]]
        BY <1>27, LegType, LegNumbers DEF PBXFails, LegStates
    <2>3. Fail(c, {}, {})
        BY <1>27 DEF PBXFails
    <2>4. /\ SetupTypes'
          /\ pc' = [pc EXCEPT ![c] = "abort"]
        BY <1>27, <2>1, <2>3, FailType
    <2> QED
        BY <1>27, <2>1, <2>2, <2>3, <2>4 DEF SetupTypes, PBXFails, TypeOK, callVars, bridgeVars,
           dialogVars, tdVars, engVars
<1>28. ASSUME NEW c \in Calls, HookPBX(c) PROVE TypeInv'
    <2>1. leg' \in [Calls -> [Legs -> LegStates]]
        BY <1>28, LegNumbers, LegType DEF HookPBX, LegStates, TypeOK
    <2> QED
        BY <1>28, <2>1, LegNumbers DEF HookPBX, Goto, BridgeSteps, TypeOK, callVars, bridgeVars,
           dialogVars, tdVars, engVars
<1>29. ASSUME NEW c \in Calls, PBXAnswerUnparsed(c) PROVE TypeInv'
    <2>1. cur[c] \in SUBSET Pairs /\ {} \in SUBSET Pairs /\ TypeOK
        BY <1>29 DEF TypeOK
    <2>2. Fail(c, {}, {})
        BY <1>29 DEF PBXAnswerUnparsed
    <2>3. /\ SetupTypes'
          /\ pc' = [pc EXCEPT ![c] = "abort"]
        BY <1>29, <2>1, <2>2, FailType
    <2> QED
        BY <1>29, <2>1, <2>2, <2>3 DEF SetupTypes, PBXAnswerUnparsed, TypeOK, callVars,
           bridgeVars, dialogVars, tdVars, engVars
<1>30. ASSUME NEW c \in Calls, Establish(c) PROVE TypeInv'
    BY <1>30 DEF Establish, CallStates, CanTransition, Goto, BridgeSteps, TypeOK, callVars,
       bridgeVars, dialogVars, tdVars, engVars
<1>31. ASSUME NEW c \in Calls, AnswerInbound(c) PROVE TypeInv'
    BY <1>31 DEF AnswerInbound, InboundStates, Goto, BridgeSteps, TypeOK, callVars, bridgeVars,
       dialogVars, tdVars, engVars
<1>32. ASSUME NEW c \in Calls, AnswerFails(c) PROVE TypeInv'
    BY <1>32 DEF AnswerFails, InboundStates, Goto, BridgeSteps, TypeOK, callVars, bridgeVars,
       dialogVars, tdVars, engVars
<1>33. ASSUME NEW c \in Calls, AbortTeardown(c) PROVE TypeInv'
    BY <1>33, TeardownType DEF AbortTeardown, Causes, Goto, BridgeSteps, TypeOK, callVars,
       bridgeVars, dialogVars, tdVars, engVars
<1>34. ASSUME NEW c \in Calls, BridgeReturns(c) PROVE TypeInv'
    BY <1>34 DEF BridgeReturns, Goto, BridgeSteps, TypeOK, callVars, bridgeVars, dialogVars,
       tdVars, engVars
<1>35. ASSUME NEW c \in Calls, TeardownCancel(c) PROVE TypeInv'
    BY <1>35 DEF TeardownCancel, TeardownSteps, TypeOK, callVars, bridgeVars, dialogVars, engVars
<1>36. ASSUME NEW c \in Calls, TeardownClose(c) PROVE TypeInv'
    BY <1>36 DEF TeardownClose, TeardownSteps, TypeOK, callVars, bridgeVars, dialogVars, tdVars,
       engVars
<1>37. ASSUME NEW c \in Calls, TeardownRelease(c) PROVE TypeInv'
    <2>1. td' \in [Calls -> TeardownSteps]
        BY <1>37 DEF TeardownRelease, TeardownSteps, TypeOK
    <2>2. CASE tdHook[c]
        <3>1. Give(fixed[c] \cup taps[c])
            BY <1>37, <2>2 DEF TeardownRelease
        <3>2. free' \in [Pairs -> Nat]
            BY <3>1 DEF Give, TypeOK
        <3>3. returned' = [returned EXCEPT ![c] = @ \cup fixed[c] \cup taps[c]]
            BY <1>37, <2>2 DEF TeardownRelease
        <3>4. returned' \in [Calls -> SUBSET Pairs]
            BY <3>3 DEF TypeOK
        <3> QED
            BY <1>37, <2>1, <3>2, <3>4 DEF TeardownRelease, TypeOK, callVars, bridgeVars,
               dialogVars,
               engVars
    <2>3. CASE ~tdHook[c]
        BY <1>37, <2>1, <2>3 DEF TeardownRelease, TypeOK, callVars, bridgeVars, dialogVars,
           tdVars, engVars
    <2> QED
        BY <2>2, <2>3
<1>38. ASSUME NEW c \in Calls, TeardownRemove(c) PROVE TypeInv'
    BY <1>38 DEF TeardownRemove, TeardownSteps, TypeOK, callVars, bridgeVars, dialogVars,
       tdVars, engVars
<1>39. ASSUME NEW c \in Calls, TeardownByes(c) PROVE TypeInv'
    BY <1>39 DEF TeardownByes, TeardownSteps, LegStates, InboundStates, TypeOK, callVars,
       bridgeVars, dialogVars, tdVars, engVars
<1>40. ASSUME NEW c \in Calls, CallerCancels(c) PROVE TypeInv'
    BY <1>40 DEF CallerCancels, InboundStates, TypeOK, callVars, bridgeVars, dialogVars, tdVars,
       engVars
<1>41. ASSUME NEW c \in Calls, CallerByes(c) PROVE TypeInv'
    BY <1>41 DEF CallerByes, InboundStates, TypeOK, callVars, bridgeVars, dialogVars, tdVars,
       engVars
<1>42. ASSUME NEW c \in Calls, InboundHook(c) PROVE TypeInv'
    BY <1>42, TeardownType DEF InboundHook, InboundStates, Causes, TypeOK, callVars, bridgeVars,
       dialogVars, tdVars, engVars
<1>43. ASSUME NEW c \in Calls, NEW l \in Legs, LegEnds(c, l) PROVE TypeInv'
    BY <1>43 DEF LegEnds, LegStates, TypeOK, callVars, bridgeVars, dialogVars, tdVars, engVars
<1>44. ASSUME NEW c \in Calls, NEW l \in Legs, LegHook(c, l) PROVE TypeInv'
    BY <1>44, TeardownType DEF LegHook, LegStates, Causes, TypeOK, callVars, bridgeVars,
       dialogVars, tdVars, engVars
<1>45. ASSUME NEW c \in Calls, Reap(c) PROVE TypeInv'
    BY <1>45, TeardownType DEF Reap, Causes, TypeOK, callVars, bridgeVars, dialogVars, tdVars,
       engVars
<1>46. ASSUME NEW c \in Calls, ShutdownCall(c) PROVE TypeInv'
    BY <1>46, TeardownType DEF ShutdownCall, Causes, TypeOK, callVars, bridgeVars, dialogVars,
       tdVars, engVars
<1>47. ASSUME Shutdown PROVE TypeInv'
    BY <1>47 DEF Shutdown, TypeOK, callVars, bridgeVars, dialogVars, tdVars, engVars
<1>48. ASSUME RunCtxDone \/ Exit PROVE TypeInv'
    BY <1>48 DEF RunCtxDone, Exit, TypeOK, callVars, bridgeVars, dialogVars, tdVars, engVars
<1>49. ASSUME UNCHANGED vars PROVE TypeInv'
    BY <1>49 DEF vars, TypeOK, callVars, bridgeVars, dialogVars, tdVars, engVars
<1>50. ASSUME NEW c \in Calls, RelayCloses(c) PROVE TypeInv'
    BY <1>50 DEF RelayCloses, TypeOK, callVars, bridgeVars, dialogVars, tdVars
<1> QED
    BY <1>1, <1>2, <1>3, <1>4, <1>5, <1>6, <1>7, <1>8, <1>9, <1>10, <1>11, <1>12, <1>13, <1>14,
       <1>15, <1>16, <1>17, <1>18, <1>19, <1>20, <1>21, <1>22, <1>23, <1>24, <1>25, <1>26, <1>27,
       <1>28, <1>29, <1>30, <1>31, <1>32, <1>33, <1>34, <1>36, <1>37, <1>38, <1>39, <1>40, <1>41,
       <1>42, <1>43, <1>44, <1>45, <1>46, <1>47, <1>48, <1>49, <1>35, <1>50
       DEF Next, CallStep, Bridge, TeardownStep, Exited

\* The initial state is well typed.
LEMMA InitType == Init => TypeInv
BY LegNumbers DEF Init, PoolInit, TypeInv, TypeOK, AtApplication, CallStates, BridgeSteps,
   OfferKinds, Outcomes, InboundStates, LegStates, TeardownSteps, Causes

\* TypeOK holds in every reachable state, whatever the constants.
THEOREM TypeCorrect == Spec => []TypeOK
<1>1. TypeInv => TypeOK
    BY DEF TypeInv
<1> QED
    BY <1>1, InitType, TypeStep, PTL DEF Spec

-----------------------------------------------------------------------------
(* Ownership of the port pairs: no pair is ever returned twice, in the pool while a call
   uses it, or held by two holders.

   PairOwnedOnce is not inductive.  It needs to know where a pair can be at each step of the
   bridge and of teardown (PairPlaces): that the goroutine acquires nothing once the call has
   a release hook, and that the hook runs once because teardown commits once. *)

\* The steps with pairs in the goroutine's local variables.
HoldingSteps == {"tapCallee", "tapBind", "dial", "wait", "append", "anchorPBX", "bind", "register"}

\* The steps after registerMedia.
AnchoredSteps == {"dialPBX", "waitPBX", "hookPBX", "establish", "answer", "abort", "relay", "done"}

PairPlaces(c) ==
    /\ pc[c] \notin HoldingSteps => cur[c] = {}
    /\ pc[c] \notin AnchoredSteps => fixed[c] = {} /\ taps[c] = {}
    /\ returned[c] \subseteq fixed[c] \cup taps[c]
    /\ td[c] \in {"none", "committed", "cancelled", "closed"} => returned[c] = {}
    /\ state[c] # "tearingDown" => td[c] = "none"
    /\ pc[c] = "idle" => state[c] = "none"

AllPlaces == \A c \in Calls : PairPlaces(c)

PairInv == TypeInv /\ AllPlaces /\ PairOwnedOnce

\* The types the places depend on.
PlaceTypes ==
    /\ pc \in [Calls -> BridgeSteps]
    /\ state \in [Calls -> CallStates]
    /\ td \in [Calls -> TeardownSteps]
    /\ cur \in [Calls -> SUBSET Pairs]
    /\ pend \in [Calls -> SUBSET Pairs]
    /\ fixed \in [Calls -> SUBSET Pairs]
    /\ taps \in [Calls -> SUBSET Pairs]
    /\ returned \in [Calls -> SUBSET Pairs]
    /\ free \in [Pairs -> Nat]

-----------------------------------------------------------------------------
(* Places *)

\* Committing a teardown, or finding it committed, moves no pair.
LEMMA TeardownPlaces ==
    ASSUME PlaceTypes, AllPlaces, NEW c \in Calls, NEW why, Teardown(c, why),
           UNCHANGED <<cur, fixed, taps, returned>>,
           pc' = pc \/ (pc[c] = "abort" /\ pc' = [pc EXCEPT ![c] = "done"])
    PROVE  AllPlaces'
<1> SUFFICES ASSUME NEW d \in Calls PROVE PairPlaces(d)'
    BY DEF AllPlaces
<1>1. PairPlaces(d) /\ PairPlaces(c)
    BY DEF AllPlaces
<1>2. CASE CanTransition(state[c], "tearingDown")
    BY <1>1, <1>2 DEF Teardown, CanTransition, PairPlaces, PlaceTypes, HoldingSteps, AnchoredSteps
<1>3. CASE ~CanTransition(state[c], "tearingDown")
    BY <1>1, <1>3 DEF Teardown, PairPlaces, PlaceTypes, HoldingSteps, AnchoredSteps
<1> QED
    BY <1>2, <1>3

\* A failing step empties cur and leaves the rest of the places alone.
LEMMA FailPlaces ==
    ASSUME PlaceTypes, AllPlaces, NEW c \in Calls, pc[c] # "idle",
           cur' = [cur EXCEPT ![c] = {}],
           \/ pc' = [pc EXCEPT ![c] = "abort"]
           \/ pc[c] \notin AnchoredSteps /\ pc' = [pc EXCEPT ![c] = "chain"],
           UNCHANGED <<state, fixed, taps, returned, td>>
    PROVE  AllPlaces'
BY DEF AllPlaces, PairPlaces, PlaceTypes, HoldingSteps, AnchoredSteps

\* What AppFailed does to the variables of the places.
LEMMA AppFailedShape ==
    ASSUME PlaceTypes, NEW c \in Calls, NEW B, AppFailed(c, B)
    PROVE  /\ cur' = [cur EXCEPT ![c] = {}]
           /\ pc' = [pc EXCEPT ![c] = "abort"] \/ pc' = [pc EXCEPT ![c] = "chain"]
           /\ \/ Give(cur[c] \cup pend[c]) /\ pend' = [pend EXCEPT ![c] = {}]
              \/ Give(cur[c]) /\ pend' = pend
BY DEF AppFailed, Fail, Goto

\* Every step keeps the places.
LEMMA PlacesStep == TypeInv /\ AllPlaces /\ [Next]_vars => AllPlaces'
<1> SUFFICES ASSUME TypeInv, AllPlaces, [Next]_vars PROVE AllPlaces'
    OBVIOUS
<1>0. PlaceTypes
    BY DEF TypeInv, TypeOK, PlaceTypes
<1>1. ASSUME NEW c \in Calls, NEW o \in Offers, NEW R \in SUBSET Apps, HandleInvite(c, o, R)
   PROVE AllPlaces'
    BY <1>0, <1>1 DEF HandleInvite, Goto, AllPlaces, PairPlaces, PlaceTypes, HoldingSteps,
       AnchoredSteps, tdVars
<1>2. ASSUME NEW c \in Calls, HookInbound(c) PROVE AllPlaces'
    BY <1>0, <1>2 DEF HookInbound, Goto, AllPlaces, PairPlaces, PlaceTypes, HoldingSteps,
       AnchoredSteps, callVars, bridgeVars, dialogVars, tdVars, engVars
<1>3. ASSUME NEW c \in Calls, SkipUnrouted(c) PROVE AllPlaces'
    BY <1>0, <1>3 DEF SkipUnrouted, Goto, AllPlaces, PairPlaces, PlaceTypes, HoldingSteps,
       AnchoredSteps, callVars, bridgeVars, dialogVars, tdVars, engVars
<1>4. ASSUME NEW c \in Calls, BadAppURI(c) PROVE AllPlaces'
    BY <1>0, <1>4, FailPlaces DEF BadAppURI, AtApp, Fail, Goto, callVars, bridgeVars,
       dialogVars, tdVars, engVars
<1>5. ASSUME NEW c \in Calls, AcquireTapCaller(c) PROVE AllPlaces'
    BY <1>0, <1>5 DEF AcquireTapCaller, AcquirePair, AtApp, Goto, AllPlaces, PairPlaces,
       PlaceTypes, HoldingSteps, AnchoredSteps, callVars, bridgeVars, dialogVars, tdVars, engVars
<1>6. ASSUME NEW c \in Calls, AcquireTapCallee(c) PROVE AllPlaces'
    BY <1>0, <1>6 DEF AcquireTapCallee, AcquirePair, AtApp, Goto, AllPlaces, PairPlaces,
       PlaceTypes, HoldingSteps, AnchoredSteps, callVars, bridgeVars, dialogVars, tdVars, engVars
<1>7. ASSUME NEW c \in Calls, BindTap(c) PROVE AllPlaces'
    BY <1>0, <1>7 DEF BindTap, BindPairs, Goto, AllPlaces, PairPlaces, PlaceTypes, HoldingSteps,
       AnchoredSteps, callVars, bridgeVars, dialogVars, tdVars, engVars
<1>8. ASSUME NEW c \in Calls, TapSetupFails(c) PROVE AllPlaces'
    BY <1>0, <1>8, FailPlaces, AppFailedShape DEF TapSetupFails, AtApp, AnchoredSteps, callVars,
       bridgeVars, dialogVars, tdVars, engVars
<1>9. ASSUME NEW c \in Calls, OfferInactive(c) PROVE AllPlaces'
    BY <1>0, <1>9 DEF OfferInactive, AtApp, Goto, AllPlaces, PairPlaces, PlaceTypes,
       HoldingSteps, AnchoredSteps, callVars, bridgeVars, dialogVars, tdVars, engVars
<1>10. ASSUME NEW c \in Calls, BuildOfferFails(c) PROVE AllPlaces'
    BY <1>0, <1>10, FailPlaces DEF BuildOfferFails, AtApp, Fail, Goto, callVars, bridgeVars,
       dialogVars, tdVars, engVars
<1>11. ASSUME NEW c \in Calls, DialApp(c) PROVE AllPlaces'
    BY <1>0, <1>11 DEF DialApp, Goto, AllPlaces, PairPlaces, PlaceTypes, HoldingSteps,
       AnchoredSteps, callVars, bridgeVars, dialogVars, tdVars, engVars
<1>12. ASSUME NEW c \in Calls, WaitAnswerApp(c) PROVE AllPlaces'
    BY <1>0, <1>12 DEF WaitAnswerApp, Goto, AllPlaces, PairPlaces, PlaceTypes, HoldingSteps,
       AnchoredSteps, callVars, bridgeVars, dialogVars, tdVars, engVars
<1>13. ASSUME NEW c \in Calls, AppLegFails(c) PROVE AllPlaces'
    BY <1>0, <1>13, FailPlaces, AppFailedShape DEF AppLegFails, AtApp, AnchoredSteps, callVars,
       bridgeVars, dialogVars, tdVars, engVars
<1>14. ASSUME NEW c \in Calls, AppendAppLeg(c) PROVE AllPlaces'
    BY <1>0, <1>14 DEF AppendAppLeg, Goto, AllPlaces, PairPlaces, PlaceTypes, HoldingSteps,
       AnchoredSteps, callVars, bridgeVars, dialogVars, tdVars, engVars
<1>15. ASSUME NEW c \in Calls, TapAnswerUnparsed(c) PROVE AllPlaces'
    BY <1>0, <1>15 DEF TapAnswerUnparsed, Goto, AllPlaces, PairPlaces, PlaceTypes, HoldingSteps,
       AnchoredSteps, callVars, bridgeVars, dialogVars, tdVars, engVars
<1>16. ASSUME NEW c \in Calls, HookAppLeg(c) PROVE AllPlaces'
    BY <1>0, <1>16 DEF HookAppLeg, Goto, AllPlaces, PairPlaces, PlaceTypes, HoldingSteps,
       AnchoredSteps, callVars, bridgeVars, dialogVars, tdVars, engVars
<1>17. ASSUME NEW c \in Calls, ChainDone(c) PROVE AllPlaces'
    BY <1>0, <1>17 DEF ChainDone, Goto, AllPlaces, PairPlaces, PlaceTypes, HoldingSteps,
       AnchoredSteps, callVars, bridgeVars, dialogVars, tdVars, engVars
<1>18. ASSUME NEW c \in Calls, AnchorEndpoint(c) PROVE AllPlaces'
    BY <1>0, <1>18 DEF AnchorEndpoint, AcquirePair, AtApp, Goto, AllPlaces, PairPlaces,
       PlaceTypes, HoldingSteps, AnchoredSteps, callVars, bridgeVars, dialogVars, tdVars, engVars
<1>19. ASSUME NEW c \in Calls, AnchorWebRTC(c) PROVE AllPlaces'
    BY <1>0, <1>19 DEF AnchorWebRTC, Goto, AllPlaces, PairPlaces, PlaceTypes, HoldingSteps,
       AnchoredSteps, callVars, bridgeVars, dialogVars, tdVars, engVars
<1>20. ASSUME NEW c \in Calls, AnchorPBX(c) PROVE AllPlaces'
    BY <1>0, <1>20 DEF AnchorPBX, AcquirePair, AtApp, Goto, AllPlaces, PairPlaces, PlaceTypes,
       HoldingSteps, AnchoredSteps, callVars, bridgeVars, dialogVars, tdVars, engVars
<1>21. ASSUME NEW c \in Calls, BindAnchor(c) PROVE AllPlaces'
    BY <1>0, <1>21 DEF BindAnchor, BindPairs, Goto, AllPlaces, PairPlaces, PlaceTypes,
       HoldingSteps, AnchoredSteps, callVars, bridgeVars, dialogVars, tdVars, engVars
<1>22. ASSUME NEW c \in Calls, AnchorFails(c) PROVE AllPlaces'
    BY <1>0, <1>22, FailPlaces DEF AnchorFails, Fail, Goto, callVars, bridgeVars, dialogVars,
       tdVars, engVars
<1>23. ASSUME NEW c \in Calls, RegisterMedia(c) PROVE AllPlaces'
    BY <1>0, <1>23 DEF RegisterMedia, Goto, AllPlaces, PairPlaces, PlaceTypes, HoldingSteps,
       AnchoredSteps, callVars, bridgeVars, dialogVars, tdVars, engVars
<1>24. ASSUME NEW c \in Calls, RegisterRefused(c) PROVE AllPlaces'
    BY <1>0, <1>24 DEF RegisterRefused, Goto, AllPlaces, PairPlaces, PlaceTypes, HoldingSteps,
       AnchoredSteps, callVars, bridgeVars, dialogVars, tdVars, engVars
<1>25. ASSUME NEW c \in Calls, DialPBX(c) PROVE AllPlaces'
    BY <1>0, <1>25 DEF DialPBX, Goto, AllPlaces, PairPlaces, PlaceTypes, HoldingSteps,
       AnchoredSteps, callVars, bridgeVars, dialogVars, tdVars, engVars
<1>26. ASSUME NEW c \in Calls, WaitAnswerPBX(c) PROVE AllPlaces'
    BY <1>0, <1>26 DEF WaitAnswerPBX, Goto, AllPlaces, PairPlaces, PlaceTypes, HoldingSteps,
       AnchoredSteps, callVars, bridgeVars, dialogVars, tdVars, engVars
<1>27. ASSUME NEW c \in Calls, PBXFails(c) PROVE AllPlaces'
    BY <1>0, <1>27, FailPlaces DEF PBXFails, Fail, Goto, callVars, bridgeVars, dialogVars,
       tdVars, engVars
<1>28. ASSUME NEW c \in Calls, HookPBX(c) PROVE AllPlaces'
    BY <1>0, <1>28 DEF HookPBX, Goto, AllPlaces, PairPlaces, PlaceTypes, HoldingSteps,
       AnchoredSteps, callVars, bridgeVars, dialogVars, tdVars, engVars
<1>29. ASSUME NEW c \in Calls, PBXAnswerUnparsed(c) PROVE AllPlaces'
    BY <1>0, <1>29, FailPlaces DEF PBXAnswerUnparsed, Fail, Goto, callVars, bridgeVars,
       dialogVars, tdVars, engVars
<1>30. ASSUME NEW c \in Calls, Establish(c) PROVE AllPlaces'
    BY <1>0, <1>30 DEF Establish, CanTransition, Goto, AllPlaces, PairPlaces, PlaceTypes,
       HoldingSteps, AnchoredSteps, callVars, bridgeVars, dialogVars, tdVars, engVars
<1>31. ASSUME NEW c \in Calls, AnswerInbound(c) PROVE AllPlaces'
    BY <1>0, <1>31 DEF AnswerInbound, Goto, AllPlaces, PairPlaces, PlaceTypes, HoldingSteps,
       AnchoredSteps, callVars, bridgeVars, dialogVars, tdVars, engVars
<1>32. ASSUME NEW c \in Calls, AnswerFails(c) PROVE AllPlaces'
    BY <1>0, <1>32 DEF AnswerFails, Goto, AllPlaces, PairPlaces, PlaceTypes, HoldingSteps,
       AnchoredSteps, callVars, bridgeVars, dialogVars, tdVars, engVars
<1>33. ASSUME NEW c \in Calls, AbortTeardown(c) PROVE AllPlaces'
    BY <1>0, <1>33, TeardownPlaces DEF AbortTeardown, Goto, callVars, bridgeVars, dialogVars,
       tdVars, engVars
<1>34. ASSUME NEW c \in Calls, BridgeReturns(c) PROVE AllPlaces'
    BY <1>0, <1>34 DEF BridgeReturns, Goto, AllPlaces, PairPlaces, PlaceTypes, HoldingSteps,
       AnchoredSteps, callVars, bridgeVars, dialogVars, tdVars, engVars
<1>35. ASSUME NEW c \in Calls, TeardownCancel(c) PROVE AllPlaces'
    BY <1>0, <1>35 DEF TeardownCancel, Goto, AllPlaces, PairPlaces, PlaceTypes, HoldingSteps,
       AnchoredSteps, callVars, bridgeVars, dialogVars, tdVars, engVars
<1>36. ASSUME NEW c \in Calls, TeardownClose(c) PROVE AllPlaces'
    BY <1>0, <1>36 DEF TeardownClose, Goto, AllPlaces, PairPlaces, PlaceTypes, HoldingSteps,
       AnchoredSteps, callVars, bridgeVars, dialogVars, tdVars, engVars
<1>37. ASSUME NEW c \in Calls, TeardownRelease(c) PROVE AllPlaces'
    BY <1>0, <1>37 DEF TeardownRelease, Goto, AllPlaces, PairPlaces, PlaceTypes, HoldingSteps,
       AnchoredSteps, callVars, bridgeVars, dialogVars, tdVars, engVars
<1>38. ASSUME NEW c \in Calls, TeardownRemove(c) PROVE AllPlaces'
    BY <1>0, <1>38 DEF TeardownRemove, Goto, AllPlaces, PairPlaces, PlaceTypes, HoldingSteps,
       AnchoredSteps, callVars, bridgeVars, dialogVars, tdVars, engVars
<1>39. ASSUME NEW c \in Calls, TeardownByes(c) PROVE AllPlaces'
    BY <1>0, <1>39 DEF TeardownByes, Goto, AllPlaces, PairPlaces, PlaceTypes, HoldingSteps,
       AnchoredSteps, callVars, bridgeVars, dialogVars, tdVars, engVars
<1>40. ASSUME NEW c \in Calls, CallerCancels(c) PROVE AllPlaces'
    BY <1>0, <1>40 DEF CallerCancels, Goto, AllPlaces, PairPlaces, PlaceTypes, HoldingSteps,
       AnchoredSteps, callVars, bridgeVars, dialogVars, tdVars, engVars
<1>41. ASSUME NEW c \in Calls, CallerByes(c) PROVE AllPlaces'
    BY <1>0, <1>41 DEF CallerByes, Goto, AllPlaces, PairPlaces, PlaceTypes, HoldingSteps,
       AnchoredSteps, callVars, bridgeVars, dialogVars, tdVars, engVars
<1>42. ASSUME NEW c \in Calls, InboundHook(c) PROVE AllPlaces'
    BY <1>0, <1>42, TeardownPlaces DEF InboundHook, Goto, callVars, bridgeVars, dialogVars,
       tdVars, engVars
<1>43. ASSUME NEW c \in Calls, NEW l \in Legs, LegEnds(c, l) PROVE AllPlaces'
    BY <1>0, <1>43 DEF LegEnds, AllPlaces, PairPlaces, PlaceTypes, HoldingSteps, AnchoredSteps,
       callVars, bridgeVars, dialogVars, tdVars, engVars
<1>44. ASSUME NEW c \in Calls, NEW l \in Legs, LegHook(c, l) PROVE AllPlaces'
    BY <1>0, <1>44, TeardownPlaces DEF LegHook, callVars, bridgeVars, dialogVars, tdVars, engVars
<1>45. ASSUME NEW c \in Calls, Reap(c) PROVE AllPlaces'
    BY <1>0, <1>45, TeardownPlaces DEF Reap, Goto, callVars, bridgeVars, dialogVars, tdVars,
       engVars
<1>46. ASSUME NEW c \in Calls, ShutdownCall(c) PROVE AllPlaces'
    BY <1>0, <1>46, TeardownPlaces DEF ShutdownCall, Goto, callVars, bridgeVars, dialogVars,
       tdVars, engVars
<1>47. ASSUME Shutdown PROVE AllPlaces'
    BY <1>0, <1>47 DEF Shutdown, AllPlaces, PairPlaces, PlaceTypes, HoldingSteps, AnchoredSteps,
       callVars, bridgeVars, dialogVars, tdVars, engVars
<1>48. ASSUME RunCtxDone \/ Exit PROVE AllPlaces'
    BY <1>0, <1>48 DEF RunCtxDone, Exit, AllPlaces, PairPlaces, PlaceTypes, HoldingSteps,
       AnchoredSteps, callVars, bridgeVars, dialogVars, tdVars, engVars
<1>49. ASSUME UNCHANGED vars PROVE AllPlaces'
    BY <1>0, <1>49 DEF vars, AllPlaces, PairPlaces, PlaceTypes, HoldingSteps, AnchoredSteps,
       callVars, bridgeVars, dialogVars, tdVars, engVars
<1>50. ASSUME NEW c \in Calls, RelayCloses(c) PROVE AllPlaces'
    <2>1. UNCHANGED <<pc, state, td, cur, pend, fixed, taps, returned, free>>
        BY <1>50 DEF RelayCloses, callVars, bridgeVars, dialogVars, tdVars
    <2> QED
        BY <1>0, <2>1 DEF AllPlaces, PairPlaces
<1> QED
    BY <1>1, <1>2, <1>3, <1>4, <1>5, <1>6, <1>7, <1>8, <1>9, <1>10, <1>11, <1>12, <1>13, <1>14,
       <1>15, <1>16, <1>17, <1>18, <1>19, <1>20, <1>21, <1>22, <1>23, <1>24, <1>25, <1>26, <1>27,
       <1>28, <1>29, <1>30, <1>31, <1>32, <1>33, <1>34, <1>35, <1>36, <1>37, <1>38, <1>39, <1>40,
       <1>41, <1>42, <1>43, <1>44, <1>45, <1>46, <1>47, <1>48, <1>49, <1>50
       DEF Next, CallStep, Bridge, TeardownStep, Exited

-----------------------------------------------------------------------------
(* Ownership *)

\* The variables that say who has a pair.
ownVars == <<cur, pend, fixed, taps, returned, free>>

\* Some of the pairs of one call go back to the pool, and nothing else changes hands.
LEMMA OwnedShrinks ==
    ASSUME PlaceTypes, PairOwnedOnce, NEW c \in Calls, NEW G \in SUBSET Pairs,
           G \subseteq Owned(c), Give(G), Owned(c)' = Owned(c) \ G,
           \A d \in Calls : d # c => Owned(d)' = Owned(d)
    PROVE  /\ \A p \in Pairs : free'[p] <= 1
           /\ \A d \in Calls : \A p \in Owned(d)' : free'[p] = 0
           /\ \A d, e \in Calls : d # e => Owned(d)' \cap Owned(e)' = {}
<1>1. Owned(c) \subseteq Pairs /\ \A d \in Calls : Owned(d) \subseteq Pairs
    BY DEF Owned, PlaceTypes
<1>2. \A d \in Calls : Owned(d)' \subseteq Owned(d)
    OBVIOUS
<1>3. \A d \in Calls : Owned(d)' \cap G = {}
    BY DEF PairOwnedOnce
<1>4. \A p \in Pairs : free'[p] <= 1
    BY <1>1 DEF Give, PairOwnedOnce, PlaceTypes
<1>5. \A d \in Calls : \A p \in Owned(d)' : free'[p] = 0
    BY <1>1, <1>2, <1>3 DEF Give, PairOwnedOnce, PlaceTypes
<1>6. \A d, e \in Calls : d # e => Owned(d)' \cap Owned(e)' = {}
    BY <1>2 DEF PairOwnedOnce
<1> QED
    BY <1>4, <1>5, <1>6

\* Pairs in the goroutine's hands or pending go back: tap.release, fail,
\* releasePendingTaps and the refused registration.
LEMMA GiveBack ==
    ASSUME PlaceTypes, AllPlaces, PairOwnedOnce, NEW c \in Calls,
           cur' = [cur EXCEPT ![c] = {}],
           \/ Give(cur[c] \cup pend[c]) /\ pend' = [pend EXCEPT ![c] = {}]
           \/ Give(cur[c]) /\ pend' = pend,
           UNCHANGED <<fixed, taps, returned>>
    PROVE  PairOwnedOnce'
<1> DEFINE G == IF pend' = pend THEN cur[c] ELSE cur[c] \cup pend[c]
<1>1. G \in SUBSET Pairs /\ G \subseteq Owned(c)
    BY DEF PlaceTypes, Owned
<1>2. Give(G)
    <2>1. CASE Give(cur[c]) /\ pend' = pend
        BY <2>1
    <2>2. CASE Give(cur[c] \cup pend[c]) /\ pend' = [pend EXCEPT ![c] = {}]
        <3>1. pend' = pend => pend[c] = {}
            BY <2>2 DEF PlaceTypes
        <3>2. pend' = pend => cur[c] \cup pend[c] = cur[c]
            BY <3>1
        <3> QED
            BY <2>2, <3>2
    <2> QED
        BY <2>1, <2>2
<1>3. \A d \in Calls : d # c => cur'[d] = cur[d] /\ pend'[d] = pend[d]
    BY DEF PlaceTypes
<1>4. cur'[c] = {} /\ pend'[c] = pend[c] \ G
    <2>1. cur'[c] = {}
        BY DEF PlaceTypes
    <2>2. pend[c] \cap cur[c] = {}
        BY DEF PairOwnedOnce
    <2>3. CASE pend' = pend
        BY <2>1, <2>2, <2>3
    <2>4. CASE pend' # pend
        BY <2>1, <2>4 DEF PlaceTypes
    <2> QED
        BY <2>1, <2>3, <2>4
<1>5. Owned(c)' = Owned(c) \ G
    <2>1. (fixed[c] \cup taps[c]) \cap G = {}
        BY DEF PairOwnedOnce
    <2>2. cur[c] \subseteq G
        OBVIOUS
    <2> HIDE DEF G
    <2> QED
        BY <1>4, <2>1, <2>2 DEF Owned
<1>6. \A d \in Calls : d # c => Owned(d)' = Owned(d)
    BY <1>3 DEF Owned
<1> HIDE DEF G
<1>7. /\ \A p \in Pairs : free'[p] <= 1
      /\ \A d \in Calls : \A p \in Owned(d)' : free'[p] = 0
      /\ \A d, e \in Calls : d # e => Owned(d)' \cap Owned(e)' = {}
    BY <1>1, <1>2, <1>5, <1>6, OwnedShrinks
<1>8. \A d \in Calls : cur'[d] \subseteq cur[d] /\ pend'[d] \subseteq pend[d]
    BY <1>3, <1>4
<1>9. \A d \in Calls :
        /\ cur'[d] \cap (pend'[d] \cup fixed'[d] \cup taps'[d]) = {}
        /\ pend'[d] \cap (fixed'[d] \cup taps'[d]) = {}
        /\ fixed'[d] \cap taps'[d] = {}
    BY <1>8 DEF PairOwnedOnce
<1> QED
    BY <1>7, <1>9 DEF PairOwnedOnce

\* A pair taken from the pool was nobody's.
LEMMA TakeOne ==
    ASSUME PlaceTypes, AllPlaces, PairOwnedOnce, NEW c \in Calls, NEW then,
           AcquirePair(c, then), pc[c] \notin AnchoredSteps,
           UNCHANGED <<pend, fixed, taps, returned>>
    PROVE  PairOwnedOnce'
<1>1. PICK p \in Pairs : Take(p) /\ cur' = [cur EXCEPT ![c] = @ \cup {p}]
    BY DEF AcquirePair
<1>2. fixed[c] = {} /\ taps[c] = {}
    BY DEF AllPlaces, PairPlaces
<1>3. free[p] = 1 /\ free' = [free EXCEPT ![p] = 0]
    <2>1. free[p] \in Nat /\ free[p] > 0 /\ free' = [free EXCEPT ![p] = @ - 1]
        BY <1>1 DEF Take, PlaceTypes
    <2>2. free[p] <= 1
        BY DEF PairOwnedOnce
    <2>3. free[p] = 1
        BY <2>1, <2>2
    <2> QED
        BY <2>1, <2>3
<1>4. \A d \in Calls : p \notin Owned(d)
    BY <1>3 DEF PairOwnedOnce
<1>5. cur'[c] = cur[c] \cup {p} /\ \A d \in Calls : d # c => cur'[d] = cur[d]
    BY <1>1 DEF PlaceTypes
<1>6. Owned(c)' = Owned(c) \cup {p} /\ \A d \in Calls : d # c => Owned(d)' = Owned(d)
    BY <1>5 DEF Owned
<1>7. \A q \in Pairs : free'[q] <= 1
    BY <1>3 DEF PairOwnedOnce, PlaceTypes
<1>8. \A d \in Calls : \A q \in Owned(d)' : free'[q] = 0
    <2>1. \A d \in Calls : Owned(d) \subseteq Pairs
        BY DEF Owned, PlaceTypes
    <2> QED
        BY <1>3, <1>6, <2>1 DEF PairOwnedOnce, PlaceTypes
<1>9. \A d, e \in Calls : d # e => Owned(d)' \cap Owned(e)' = {}
    BY <1>4, <1>6 DEF PairOwnedOnce
<1>10. \A d \in Calls :
        /\ cur'[d] \cap (pend'[d] \cup fixed'[d] \cup taps'[d]) = {}
        /\ pend'[d] \cap (fixed'[d] \cup taps'[d]) = {}
        /\ fixed'[d] \cap taps'[d] = {}
    <2>1. p \notin pend[c]
        BY <1>4 DEF Owned
    <2> QED
        BY <1>2, <1>5, <2>1 DEF PairOwnedOnce
<1> QED
    BY <1>7, <1>8, <1>9, <1>10 DEF PairOwnedOnce

\* A call's pairs move from one of its holders to another.
LEMMA HandOver ==
    ASSUME PlaceTypes, PairOwnedOnce, NEW c \in Calls, UNCHANGED free,
           Owned(c)' = Owned(c),
           \A d \in Calls : d # c =>
                /\ cur'[d] = cur[d] /\ pend'[d] = pend[d] /\ fixed'[d] = fixed[d]
                /\ taps'[d] = taps[d] /\ returned'[d] = returned[d],
           /\ cur'[c] \cap (pend'[c] \cup fixed'[c] \cup taps'[c]) = {}
           /\ pend'[c] \cap (fixed'[c] \cup taps'[c]) = {}
           /\ fixed'[c] \cap taps'[c] = {}
    PROVE  PairOwnedOnce'
<1>1. \A d \in Calls : Owned(d)' = Owned(d)
    BY DEF Owned
<1>2. /\ \A p \in Pairs : free'[p] <= 1
      /\ \A d \in Calls : \A p \in Owned(d)' : free'[p] = 0
      /\ \A d, e \in Calls : d # e => Owned(d)' \cap Owned(e)' = {}
    BY <1>1 DEF PairOwnedOnce
<1>3. \A d \in Calls :
        /\ cur'[d] \cap (pend'[d] \cup fixed'[d] \cup taps'[d]) = {}
        /\ pend'[d] \cap (fixed'[d] \cup taps'[d]) = {}
        /\ fixed'[d] \cap taps'[d] = {}
    BY DEF PairOwnedOnce
<1> QED
    BY <1>2, <1>3 DEF PairOwnedOnce

\* What the steps do that move no pair.
LEMMA Untouched == ASSUME PairOwnedOnce, UNCHANGED ownVars PROVE PairOwnedOnce'
BY DEF PairOwnedOnce, Owned, ownVars

\* No step breaks the ownership of a pair.
LEMMA OwnedStep == PairInv /\ [Next]_vars => PairOwnedOnce'
<1> SUFFICES ASSUME PairInv, [Next]_vars PROVE PairOwnedOnce'
    OBVIOUS
<1>0. PlaceTypes /\ AllPlaces /\ PairOwnedOnce
    BY DEF PairInv, TypeInv, TypeOK, PlaceTypes
<1>1. ASSUME NEW c \in Calls, NEW o \in Offers, NEW R \in SUBSET Apps, HandleInvite(c, o, R)
   PROVE PairOwnedOnce'
    BY <1>0, <1>1, Untouched DEF HandleInvite, tdVars, ownVars
<1>2. ASSUME NEW c \in Calls, 
              \/ HookInbound(c) \/ SkipUnrouted(c) \/ BindTap(c) \/ OfferInactive(c)
              \/ DialApp(c) \/ WaitAnswerApp(c) \/ HookAppLeg(c) \/ ChainDone(c)
      PROVE  PairOwnedOnce'
    BY <1>0, <1>2, Untouched DEF ownVars, callVars, bridgeVars, dialogVars, tdVars, engVars,
       HookInbound, SkipUnrouted, BindTap, OfferInactive, DialApp, WaitAnswerApp, HookAppLeg,
       ChainDone
<1>3. ASSUME NEW c \in Calls, 
              \/ AnchorWebRTC(c) \/ BindAnchor(c) \/ DialPBX(c) \/ WaitAnswerPBX(c)
              \/ HookPBX(c) \/ AnswerInbound(c) \/ AnswerFails(c) PROVE PairOwnedOnce'
    BY <1>0, <1>3, Untouched DEF ownVars, callVars, bridgeVars, dialogVars, tdVars, engVars,
       AnchorWebRTC, BindAnchor, DialPBX, WaitAnswerPBX, HookPBX, AnswerInbound, AnswerFails
<1>4. ASSUME NEW c \in Calls, 
              \/ AbortTeardown(c) \/ BridgeReturns(c) \/ TeardownCancel(c) \/ TeardownClose(c)
              \/ TeardownRemove(c) \/ TeardownByes(c) \/ CallerCancels(c) \/ CallerByes(c)
              \/ InboundHook(c) \/ Reap(c) \/ ShutdownCall(c) \/ RelayCloses(c)
      PROVE PairOwnedOnce'
    BY <1>0, <1>4, Untouched DEF ownVars, callVars, bridgeVars, dialogVars, tdVars, engVars,
       AbortTeardown, BridgeReturns, TeardownCancel, TeardownClose, TeardownRemove, TeardownByes,
       CallerCancels, CallerByes, InboundHook, Reap, ShutdownCall, RelayCloses
<1>5. ASSUME NEW c \in Calls, NEW l \in Legs, LegEnds(c, l) \/ LegHook(c, l) PROVE PairOwnedOnce'
    BY <1>0, <1>5, Untouched DEF LegEnds, LegHook, ownVars, callVars, bridgeVars, dialogVars,
       tdVars, engVars
<1>6. ASSUME RunCtxDone \/ Shutdown \/ Exit \/ UNCHANGED vars PROVE PairOwnedOnce'
    BY <1>0, <1>6, Untouched DEF RunCtxDone, Shutdown, Exit, vars, ownVars, callVars, bridgeVars,
       dialogVars, tdVars, engVars
<1>7. ASSUME NEW c \in Calls, AcquireTapCaller(c) PROVE PairOwnedOnce'
    BY <1>0, <1>7, TakeOne DEF AcquireTapCaller, AtApp, AnchoredSteps, callVars, tdVars
<1>8. ASSUME NEW c \in Calls, AcquireTapCallee(c) PROVE PairOwnedOnce'
    BY <1>0, <1>8, TakeOne DEF AcquireTapCallee, AnchoredSteps, callVars, tdVars
<1>9. ASSUME NEW c \in Calls, AnchorEndpoint(c) PROVE PairOwnedOnce'
    BY <1>0, <1>9, TakeOne DEF AnchorEndpoint, AnchoredSteps, callVars, tdVars
<1>10. ASSUME NEW c \in Calls, AnchorPBX(c) PROVE PairOwnedOnce'
    BY <1>0, <1>10, TakeOne DEF AnchorPBX, AnchoredSteps, callVars, tdVars
<1>11. ASSUME NEW c \in Calls, TapSetupFails(c) PROVE PairOwnedOnce'
    BY <1>0, <1>11, AppFailedShape, GiveBack DEF TapSetupFails, tdVars
<1>12. ASSUME NEW c \in Calls, AppLegFails(c) PROVE PairOwnedOnce'
    BY <1>0, <1>12, AppFailedShape, GiveBack DEF AppLegFails, tdVars
<1>13. ASSUME NEW c \in Calls, BuildOfferFails(c) PROVE PairOwnedOnce'
    BY <1>0, <1>13, GiveBack DEF BuildOfferFails, Fail, tdVars
<1>14. ASSUME NEW c \in Calls, AnchorFails(c) PROVE PairOwnedOnce'
    BY <1>0, <1>14, GiveBack DEF AnchorFails, Fail, tdVars
<1>15. ASSUME NEW c \in Calls, BadAppURI(c) PROVE PairOwnedOnce'
    <2>1. cur[c] = {}
        BY <1>0, <1>15 DEF BadAppURI, AtApp, AllPlaces, PairPlaces, HoldingSteps
    <2>2. Give({} \cup pend[c]) /\ {} \cup pend[c] = cur[c] \cup pend[c]
        BY <1>15, <2>1 DEF BadAppURI, Fail
    <2> QED
        BY <1>0, <1>15, <2>2, GiveBack DEF BadAppURI, Fail, tdVars
<1>16. ASSUME NEW c \in Calls, PBXFails(c) PROVE PairOwnedOnce'
    <2>1. cur[c] = {}
        BY <1>0, <1>16 DEF PBXFails, AllPlaces, PairPlaces, HoldingSteps
    <2>2. Give({} \cup pend[c]) /\ {} \cup pend[c] = cur[c] \cup pend[c]
        BY <1>16, <2>1 DEF PBXFails, Fail
    <2> QED
        BY <1>0, <1>16, <2>2, GiveBack DEF PBXFails, Fail, tdVars
<1>17. ASSUME NEW c \in Calls, PBXAnswerUnparsed(c) PROVE PairOwnedOnce'
    <2>1. cur[c] = {}
        BY <1>0, <1>17 DEF PBXAnswerUnparsed, AllPlaces, PairPlaces, HoldingSteps
    <2>2. Give({} \cup pend[c]) /\ {} \cup pend[c] = cur[c] \cup pend[c]
        BY <1>17, <2>1 DEF PBXAnswerUnparsed, Fail
    <2> QED
        BY <1>0, <1>17, <2>2, GiveBack DEF PBXAnswerUnparsed, Fail, tdVars
<1>18. ASSUME NEW c \in Calls, TapAnswerUnparsed(c) PROVE PairOwnedOnce'
    BY <1>0, <1>18, GiveBack DEF TapAnswerUnparsed, callVars, tdVars
<1>19. ASSUME NEW c \in Calls, RegisterRefused(c) PROVE PairOwnedOnce'
    BY <1>0, <1>19, GiveBack DEF RegisterRefused, callVars, tdVars
<1>20. ASSUME NEW c \in Calls, AppendAppLeg(c) PROVE PairOwnedOnce'
    <2>1. cur'[c] = {} /\ pend'[c] = pend[c] \cup cur[c]
        BY <1>0, <1>20 DEF AppendAppLeg, PlaceTypes
    <2>2. Owned(c)' = Owned(c)
        BY <1>20, <2>1 DEF AppendAppLeg, Owned, tdVars
    <2> QED
        BY <1>0, <1>20, <2>1, <2>2, HandOver DEF AppendAppLeg, PlaceTypes, PairOwnedOnce, tdVars
<1>21. ASSUME NEW c \in Calls, RegisterMedia(c) PROVE PairOwnedOnce'
    <2>1. fixed[c] = {} /\ taps[c] = {} /\ returned[c] = {}
        BY <1>0, <1>21 DEF RegisterMedia, AllPlaces, PairPlaces, AnchoredSteps
    <2>2. cur'[c] = {} /\ fixed'[c] = cur[c]
        BY <1>0, <1>21 DEF RegisterMedia, PlaceTypes
    <2>3. Owned(c)' = Owned(c)
        BY <1>21, <2>1, <2>2 DEF RegisterMedia, Owned, tdVars
    <2> QED
        BY <1>0, <1>21, <2>1, <2>2, <2>3, HandOver
           DEF RegisterMedia, PlaceTypes, PairOwnedOnce, tdVars
<1>22. ASSUME NEW c \in Calls, Establish(c) PROVE PairOwnedOnce'
    <2>1. returned[c] \subseteq fixed[c] \cup taps[c]
        BY <1>0 DEF AllPlaces, PairPlaces
    <2>2. pend'[c] = {} /\ taps'[c] = taps[c] \cup pend[c]
        BY <1>0, <1>22 DEF Establish, PlaceTypes
    <2>3. pend[c] \cap returned[c] = {}
        BY <1>0, <2>1 DEF PairOwnedOnce
    <2>4. Owned(c)' = Owned(c)
        BY <1>22, <2>2, <2>3 DEF Establish, Owned, tdVars
    <2> QED
        BY <1>0, <1>22, <2>2, <2>4, HandOver DEF Establish, PlaceTypes, PairOwnedOnce, tdVars
<1>23. ASSUME NEW c \in Calls, TeardownRelease(c) PROVE PairOwnedOnce'
    <2>1. CASE ~tdHook[c]
        BY <1>0, <1>23, <2>1, Untouched DEF TeardownRelease, ownVars, callVars, bridgeVars
    <2>2. CASE tdHook[c]
        <3> DEFINE G == fixed[c] \cup taps[c]
        <3>1. returned[c] = {}
            BY <1>0, <1>23 DEF TeardownRelease, AllPlaces, PairPlaces
        <3>2. Give(G) /\ returned'[c] = G /\ \A d \in Calls : d # c => returned'[d] = returned[d]
            BY <1>0, <1>23, <2>2, <3>1 DEF TeardownRelease, PlaceTypes
        <3>3. UNCHANGED <<cur, pend, fixed, taps>>
            BY <1>23 DEF TeardownRelease, callVars, bridgeVars
        <3>4. G \in SUBSET Pairs /\ G \subseteq Owned(c)
            BY <1>0, <3>1 DEF PlaceTypes, Owned
        <3>5. Owned(c)' = Owned(c) \ G
            BY <1>0, <3>1, <3>2, <3>3 DEF Owned, PairOwnedOnce
        <3>6. \A d \in Calls : d # c => Owned(d)' = Owned(d)
            BY <3>2, <3>3 DEF Owned
        <3> HIDE DEF G
        <3>7. /\ \A p \in Pairs : free'[p] <= 1
              /\ \A d \in Calls : \A p \in Owned(d)' : free'[p] = 0
              /\ \A d, e \in Calls : d # e => Owned(d)' \cap Owned(e)' = {}
            BY <1>0, <3>2, <3>4, <3>5, <3>6, OwnedShrinks
        <3> QED
            BY <1>0, <3>3, <3>7 DEF PairOwnedOnce
    <2> QED
        BY <2>1, <2>2
<1> QED
    BY <1>1, <1>2, <1>3, <1>4, <1>5, <1>6, <1>7, <1>8, <1>9, <1>10, <1>11, <1>12, <1>13, <1>14,
       <1>15, <1>16, <1>17, <1>18, <1>19, <1>20, <1>21, <1>22, <1>23
       DEF Next, CallStep, Bridge, TeardownStep, Exited

\* PairOwnedOnce holds in every reachable state, whatever the number of calls, the
\* chain, the offers and the port range.
THEOREM PairsOwnedOnce == Spec => []PairOwnedOnce
<1>1. Init => PairInv
    <2>1. Init => TypeInv
        BY InitType
    <2>2. Init => AllPlaces
        BY DEF Init, AllPlaces, PairPlaces, HoldingSteps, AnchoredSteps
    <2>3. Init => PairOwnedOnce
        BY DEF Init, PoolInit, PairOwnedOnce, Owned
    <2> QED
        BY <2>1, <2>2, <2>3 DEF PairInv
<1>2. PairInv /\ [Next]_vars => PairInv'
    BY TypeStep, PlacesStep, OwnedStep DEF PairInv
<1>3. PairInv => PairOwnedOnce
    BY DEF PairInv
<1> QED
    BY <1>1, <1>2, <1>3, PTL DEF Spec

-----------------------------------------------------------------------------
(* The media session and the release hook. *)

\* The steps after registerMedia that have not failed, and those after which the
\* goroutine sets nothing up any more.
MediaSteps == {"dialPBX", "waitPBX", "hookPBX", "establish", "answer", "relay"}
SettledSteps == {"answer", "abort", "relay", "done"}

\* How far teardown has got once the session is closed, once its pairs are returned.
ClosedSteps == {"closed", "released", "removed", "done"}
ReleasedSteps == {"released", "removed", "done"}

\* A committed teardown has a release hook exactly when there is a session: registerMedia
\* is refused from then on.
HookTaken ==
    \A c \in Calls :
        /\ td[c] = "none" => state[c] # "tearingDown"
        /\ td[c] # "none" => (tdHook[c] <=> sess[c] # "none")

\* The session is opened by registerMedia and never opened again; teardown's hook finds
\* it closed or closes it; a call that got past registerMedia has the pairs of its two
\* sides in it, which the hook returns; and nothing is pending once the goroutine is past
\* Establish.
MediaPlaces(c) ==
    /\ state[c] = "none" => pc[c] = "idle"
    /\ sess[c] = "open" => td[c] \notin ClosedSteps
    /\ sess[c] = "none" => fixed[c] = {} /\ taps[c] = {}
    /\ pc[c] \in {"bind", "register"} => cur[c] # {}
    /\ pc[c] \in MediaSteps => fixed[c] # {}
    /\ td[c] \in ReleasedSteps => fixed[c] \subseteq returned[c]
    /\ state[c] = "established" => pc[c] \in SettledSteps /\ fixed[c] # {} /\ pend[c] = {}
    /\ pc[c] \in {"answer", "abort", "relay"} => pend[c] = {}

AllMedia == \A c \in Calls : MediaPlaces(c)

\* The media goroutine runs from the answer on and has a session.  What has closed a
\* session is teardown, or the media goroutine on the cancellation of the call or of the
\* run; while the call is still established, nothing can bind the session's sockets again.
RelayPlaces(c) ==
    /\ c \in relays => pc[c] \in {"relay", "done"} /\ sess[c] # "none"
    /\ sess[c] = "closed" =>
        \/ td[c] \in ClosedSteps
        \/ pc[c] \in {"relay", "done"} /\ (td[c] = "cancelled" \/ eng # "run")
    /\ sess[c] = "closed" /\ state[c] = "established" =>
        (fixed[c] \cup taps[c]) \cap open = {}

AllRelays == \A c \in Calls : RelayPlaces(c)

\* The types the two depend on.
HookTypes ==
    /\ state \in [Calls -> CallStates]
    /\ td \in [Calls -> TeardownSteps]
    /\ tdHook \in [Calls -> BOOLEAN]
    /\ sess \in [Calls -> {"none", "open", "closed"}]

MediaTypes ==
    /\ state \in [Calls -> CallStates]
    /\ td \in [Calls -> TeardownSteps]
    /\ sess \in [Calls -> {"none", "open", "closed"}]
    /\ PlaceTypes

\* What the steps do that touch neither the session nor the teardown.
LEMMA HookUnchanged ==
    ASSUME HookTaken, UNCHANGED <<state, td, tdHook, sess>>
    PROVE  HookTaken'
BY DEF HookTaken

\* A committed teardown takes the hook of the session there is; a second one does nothing.
LEMMA HookTeardown ==
    ASSUME HookTypes, HookTaken, NEW c \in Calls, NEW why, Teardown(c, why), UNCHANGED sess
    PROVE  HookTaken'
<1>1. CASE CanTransition(state[c], "tearingDown")
    <2>1. /\ state' = [state EXCEPT ![c] = "tearingDown"]
          /\ td' = [td EXCEPT ![c] = "committed"]
          /\ tdHook' = [tdHook EXCEPT ![c] = sess[c] # "none"]
        BY <1>1 DEF Teardown
    <2> QED
        BY <2>1 DEF HookTypes, HookTaken
<1>2. CASE ~CanTransition(state[c], "tearingDown")
    BY <1>2, HookUnchanged DEF Teardown
<1> QED
    BY <1>1, <1>2

\* Every step keeps HookTaken: registerMedia checks the state under the lock teardown takes.
LEMMA HookStep ==
    TypeInv /\ AllPlaces /\ AllRelays /\ HookTaken /\ [Next]_vars => HookTaken'
<1> SUFFICES ASSUME TypeInv, AllPlaces, AllRelays, HookTaken, [Next]_vars PROVE HookTaken'
    OBVIOUS
<1>0. HookTypes /\ AllPlaces /\ HookTaken
    BY DEF TypeInv, TypeOK, HookTypes
<1>1. ASSUME NEW c \in Calls, NEW o \in Offers, NEW R \in SUBSET Apps, HandleInvite(c, o, R)
   PROVE HookTaken'
    BY <1>0, <1>1 DEF HandleInvite, Goto, HookTaken, HookTypes, tdVars, engVars
<1>2. ASSUME NEW c \in Calls, AnchorWebRTC(c) PROVE HookTaken'
    BY <1>0, <1>2 DEF AnchorWebRTC, Goto, HookTaken, HookTypes, AllPlaces, PairPlaces,
       dialogVars, tdVars, engVars
<1>3. ASSUME NEW c \in Calls, RegisterMedia(c) PROVE HookTaken'
    BY <1>0, <1>3 DEF RegisterMedia, Goto, HookTaken, HookTypes, AllPlaces, PairPlaces,
       dialogVars, tdVars, engVars
<1>4. ASSUME NEW c \in Calls, Establish(c) PROVE HookTaken'
    BY <1>0, <1>4 DEF Establish, CanTransition, Goto, HookTaken, HookTypes, dialogVars, tdVars,
       engVars
<1>5. ASSUME NEW c \in Calls, AbortTeardown(c) PROVE HookTaken'
    BY <1>0, <1>5, HookTeardown DEF AbortTeardown, HookTaken, HookTypes, dialogVars, engVars
<1>6. ASSUME NEW c \in Calls, TeardownCancel(c) PROVE HookTaken'
    BY <1>0, <1>6 DEF TeardownCancel, HookTaken, HookTypes, callVars, bridgeVars, dialogVars,
       engVars
<1>7. ASSUME NEW c \in Calls, TeardownClose(c) PROVE HookTaken'
    BY <1>0, <1>7 DEF TeardownClose, HookTaken, HookTypes, bridgeVars, dialogVars, engVars
<1>8. ASSUME NEW c \in Calls, TeardownRelease(c) PROVE HookTaken'
    BY <1>0, <1>8 DEF TeardownRelease, HookTaken, HookTypes, callVars, bridgeVars, dialogVars,
       engVars
<1>9. ASSUME NEW c \in Calls, TeardownRemove(c) PROVE HookTaken'
    BY <1>0, <1>9 DEF TeardownRemove, HookTaken, HookTypes, bridgeVars, dialogVars, engVars
<1>10. ASSUME NEW c \in Calls, TeardownByes(c) PROVE HookTaken'
    BY <1>0, <1>10 DEF TeardownByes, HookTaken, HookTypes, callVars, bridgeVars
<1>11. ASSUME NEW c \in Calls, InboundHook(c) PROVE HookTaken'
    BY <1>0, <1>11, HookTeardown DEF InboundHook, HookTaken, HookTypes, bridgeVars, engVars
<1>12. ASSUME NEW c \in Calls, NEW l \in Legs, LegHook(c, l) PROVE HookTaken'
    BY <1>0, <1>12, HookTeardown DEF LegHook, HookTaken, HookTypes, bridgeVars, engVars
<1>13. ASSUME NEW c \in Calls, Reap(c) PROVE HookTaken'
    BY <1>0, <1>13, HookTeardown DEF Reap, HookTaken, HookTypes, bridgeVars, dialogVars, engVars
<1>14. ASSUME NEW c \in Calls, ShutdownCall(c) PROVE HookTaken'
    BY <1>0, <1>14, HookTeardown DEF ShutdownCall, HookTaken, HookTypes, bridgeVars, dialogVars
<1>15. ASSUME NEW c \in Calls,
             \/ HookInbound(c) \/ SkipUnrouted(c) \/ BadAppURI(c) \/ AcquireTapCaller(c)
             \/ AcquireTapCallee(c) \/ BindTap(c) \/ TapSetupFails(c) \/ OfferInactive(c)
      PROVE  HookTaken'
    <2>1. UNCHANGED <<state, td, tdHook, sess>>
        BY <1>15 DEF HookInbound, SkipUnrouted, BadAppURI, AcquireTapCaller, AcquireTapCallee,
           BindTap, TapSetupFails, OfferInactive, callVars, dialogVars, tdVars, engVars
    <2> QED
        BY <1>0, <2>1, HookUnchanged
<1>16. ASSUME NEW c \in Calls,
             \/ BuildOfferFails(c) \/ DialApp(c) \/ WaitAnswerApp(c) \/ AppLegFails(c)
             \/ AppendAppLeg(c) \/ TapAnswerUnparsed(c) \/ HookAppLeg(c) \/ ChainDone(c)
      PROVE  HookTaken'
    <2>1. UNCHANGED <<state, td, tdHook, sess>>
        BY <1>16 DEF BuildOfferFails, DialApp, WaitAnswerApp, AppLegFails, AppendAppLeg,
           TapAnswerUnparsed, HookAppLeg, ChainDone, callVars, dialogVars, tdVars, engVars
    <2> QED
        BY <1>0, <2>1, HookUnchanged
<1>17. ASSUME NEW c \in Calls,
             \/ AnchorEndpoint(c) \/ AnchorPBX(c) \/ BindAnchor(c) \/ AnchorFails(c)
             \/ RegisterRefused(c) \/ DialPBX(c) \/ WaitAnswerPBX(c) \/ PBXFails(c)
      PROVE  HookTaken'
    <2>1. UNCHANGED <<state, td, tdHook, sess>>
        BY <1>17 DEF AnchorEndpoint, AnchorPBX, BindAnchor, AnchorFails, RegisterRefused,
           DialPBX, WaitAnswerPBX, PBXFails, callVars, dialogVars, tdVars, engVars
    <2> QED
        BY <1>0, <2>1, HookUnchanged
<1>18. ASSUME NEW c \in Calls,
             \/ HookPBX(c) \/ PBXAnswerUnparsed(c) \/ AnswerInbound(c) \/ AnswerFails(c)
             \/ BridgeReturns(c) \/ CallerCancels(c) \/ CallerByes(c)
      PROVE  HookTaken'
    <2>1. UNCHANGED <<state, td, tdHook, sess>>
        BY <1>18 DEF HookPBX, PBXAnswerUnparsed, AnswerInbound, AnswerFails, BridgeReturns,
           CallerCancels, CallerByes, callVars, bridgeVars, dialogVars, tdVars, engVars
    <2> QED
        BY <1>0, <2>1, HookUnchanged
<1>19. ASSUME NEW c \in Calls, NEW l \in Legs, LegEnds(c, l) PROVE HookTaken'
    <2>1. UNCHANGED <<state, td, tdHook, sess>>
        BY <1>19 DEF LegEnds, callVars, bridgeVars, tdVars, engVars
    <2> QED
        BY <1>0, <2>1, HookUnchanged
<1>20. ASSUME RunCtxDone \/ Shutdown \/ Exit \/ UNCHANGED vars PROVE HookTaken'
    <2>1. UNCHANGED <<state, td, tdHook, sess>>
        BY <1>20 DEF RunCtxDone, Shutdown, Exit, vars, callVars, bridgeVars, dialogVars, tdVars,
           engVars
    <2> QED
        BY <1>0, <2>1, HookUnchanged
<1>21. ASSUME NEW c \in Calls, RelayCloses(c) PROVE HookTaken'
    <2>1. sess[c] # "none"
        BY <1>21 DEF RelayCloses, AllRelays, RelayPlaces
    <2> QED
        BY <1>0, <1>21, <2>1 DEF RelayCloses, HookTaken, HookTypes, tdVars
<1> QED
    BY <1>1, <1>2, <1>3, <1>4, <1>5, <1>6, <1>7, <1>8, <1>9, <1>10, <1>11, <1>12, <1>13, <1>14,
       <1>15, <1>16, <1>17, <1>18, <1>19, <1>20, <1>21
       DEF Next, CallStep, Bridge, TeardownStep, Exited

\* A failing step gives up what was acquired and pending, and settles the goroutine.
LEMMA MediaFail ==
    ASSUME MediaTypes, AllMedia, NEW c \in Calls, pc[c] # "idle",
           cur' = [cur EXCEPT ![c] = {}],
           \/ pc' = [pc EXCEPT ![c] = "abort"] /\ pend' = [pend EXCEPT ![c] = {}]
           \/ pc' = [pc EXCEPT ![c] = "chain"] /\ pend' = pend /\ pc[c] \notin SettledSteps,
           UNCHANGED <<state, td, sess, fixed, taps, returned>>
    PROVE  AllMedia'
BY DEF AllMedia, MediaPlaces, MediaTypes, PlaceTypes, MediaSteps, SettledSteps

\* Committing a teardown moves no pair, and finds what it will release in its place.
LEMMA MediaTeardown ==
    ASSUME MediaTypes, AllPlaces, AllMedia, NEW c \in Calls, NEW why, Teardown(c, why),
           UNCHANGED <<sess, fixed, taps, cur, pend, returned>>,
           pc' = pc \/ (pc[c] = "abort" /\ pc' = [pc EXCEPT ![c] = "done"])
    PROVE  AllMedia'
<1> SUFFICES ASSUME NEW d \in Calls PROVE MediaPlaces(d)'
    BY DEF AllMedia
<1>1. MediaPlaces(d) /\ MediaPlaces(c) /\ PairPlaces(c)
    BY DEF AllMedia, AllPlaces
<1>2. CASE CanTransition(state[c], "tearingDown")
    BY <1>1, <1>2 DEF Teardown, CanTransition, MediaPlaces, PairPlaces, MediaTypes, PlaceTypes,
       MediaSteps, SettledSteps, ClosedSteps, ReleasedSteps
<1>3. CASE ~CanTransition(state[c], "tearingDown")
    BY <1>1, <1>3 DEF Teardown, MediaPlaces, MediaTypes, PlaceTypes, MediaSteps, SettledSteps,
       ClosedSteps, ReleasedSteps
<1> QED
    BY <1>2, <1>3

\* Every step keeps the session and its pairs in their places.
LEMMA MediaStep ==
    TypeInv /\ AllPlaces /\ HookTaken /\ AllRelays /\ AllMedia /\ [Next]_vars => AllMedia'
<1> SUFFICES ASSUME TypeInv, AllPlaces, HookTaken, AllRelays, AllMedia, [Next]_vars
             PROVE  AllMedia'
    OBVIOUS
<1>0. MediaTypes /\ AllPlaces /\ AllMedia
    BY DEF TypeInv, TypeOK, MediaTypes, PlaceTypes
<1>1. ASSUME NEW c \in Calls, NEW o \in Offers, NEW R \in SUBSET Apps, HandleInvite(c, o, R)
   PROVE AllMedia'
    BY <1>0, <1>1 DEF HandleInvite, Goto, AllMedia, MediaPlaces, MediaTypes, PlaceTypes,
       MediaSteps, SettledSteps, ClosedSteps, ReleasedSteps, tdVars, engVars
<1>2. ASSUME NEW c \in Calls, HookInbound(c) PROVE AllMedia'
    BY <1>0, <1>2 DEF HookInbound, Goto, AllMedia, MediaPlaces, MediaTypes, PlaceTypes,
       MediaSteps, SettledSteps, ClosedSteps, ReleasedSteps, callVars, dialogVars, tdVars,
       engVars
<1>3. ASSUME NEW c \in Calls, BadAppURI(c) PROVE AllMedia'
    BY <1>0, <1>3, MediaFail DEF BadAppURI, AtApp, Fail, Goto, tdVars, engVars
<1>4. ASSUME NEW c \in Calls, AcquireTapCaller(c) PROVE AllMedia'
    BY <1>0, <1>4 DEF AcquireTapCaller, AcquirePair, AtApp, Goto, AllMedia, MediaPlaces,
       MediaTypes, PlaceTypes, MediaSteps, SettledSteps, ClosedSteps, ReleasedSteps, callVars,
       dialogVars, tdVars, engVars
<1>5. ASSUME NEW c \in Calls, AcquireTapCallee(c) PROVE AllMedia'
    BY <1>0, <1>5 DEF AcquireTapCallee, AcquirePair, Goto, AllMedia, MediaPlaces, MediaTypes,
       PlaceTypes, MediaSteps, SettledSteps, ClosedSteps, ReleasedSteps, callVars, dialogVars,
       tdVars, engVars
<1>6. ASSUME NEW c \in Calls, BindTap(c) PROVE AllMedia'
    BY <1>0, <1>6 DEF BindTap, BindPairs, Goto, AllMedia, MediaPlaces, MediaTypes, PlaceTypes,
       MediaSteps, SettledSteps, ClosedSteps, ReleasedSteps, callVars, dialogVars, tdVars,
       engVars
<1>7. ASSUME NEW c \in Calls, TapSetupFails(c) PROVE AllMedia'
    BY <1>0, <1>7, MediaFail DEF TapSetupFails, AtApp, AppFailed, Fail, Goto, SettledSteps,
       tdVars, engVars
<1>8. ASSUME NEW c \in Calls, OfferInactive(c) PROVE AllMedia'
    BY <1>0, <1>8 DEF OfferInactive, AtApp, Goto, AllMedia, MediaPlaces, MediaTypes, PlaceTypes,
       MediaSteps, SettledSteps, ClosedSteps, ReleasedSteps, callVars, dialogVars, tdVars,
       engVars
<1>9. ASSUME NEW c \in Calls, BuildOfferFails(c) PROVE AllMedia'
    BY <1>0, <1>9, MediaFail DEF BuildOfferFails, AtApp, Fail, Goto, tdVars, engVars
<1>10. ASSUME NEW c \in Calls, DialApp(c) PROVE AllMedia'
    BY <1>0, <1>10 DEF DialApp, Goto, AllMedia, MediaPlaces, MediaTypes, PlaceTypes, MediaSteps,
       SettledSteps, ClosedSteps, ReleasedSteps, callVars, tdVars, engVars
<1>11. ASSUME NEW c \in Calls, WaitAnswerApp(c) PROVE AllMedia'
    BY <1>0, <1>11 DEF WaitAnswerApp, Goto, AllMedia, MediaPlaces, MediaTypes, PlaceTypes,
       MediaSteps, SettledSteps, ClosedSteps, ReleasedSteps, callVars, tdVars, engVars
<1>12. ASSUME NEW c \in Calls, AppLegFails(c) PROVE AllMedia'
    BY <1>0, <1>12, MediaFail DEF AppLegFails, AppFailed, Fail, Goto, SettledSteps, tdVars,
       engVars
<1>13. ASSUME NEW c \in Calls, AppendAppLeg(c) PROVE AllMedia'
    BY <1>0, <1>13 DEF AppendAppLeg, Goto, AllMedia, MediaPlaces, MediaTypes, PlaceTypes,
       MediaSteps, SettledSteps, ClosedSteps, ReleasedSteps, dialogVars, tdVars, engVars
<1>14. ASSUME NEW c \in Calls, TapAnswerUnparsed(c) PROVE AllMedia'
    BY <1>0, <1>14 DEF TapAnswerUnparsed, Goto, AllMedia, MediaPlaces, MediaTypes, PlaceTypes,
       MediaSteps, SettledSteps, ClosedSteps, ReleasedSteps, dialogVars, tdVars, engVars
<1>15. ASSUME NEW c \in Calls, HookAppLeg(c) PROVE AllMedia'
    BY <1>0, <1>15 DEF HookAppLeg, Goto, AllMedia, MediaPlaces, MediaTypes, PlaceTypes,
       MediaSteps, SettledSteps, ClosedSteps, ReleasedSteps, callVars, tdVars, engVars
<1>16. ASSUME NEW c \in Calls, ChainDone(c) PROVE AllMedia'
    BY <1>0, <1>16 DEF ChainDone, Goto, AllMedia, MediaPlaces, MediaTypes, PlaceTypes,
       MediaSteps, SettledSteps, ClosedSteps, ReleasedSteps, callVars, dialogVars, tdVars,
       engVars
<1>17. ASSUME NEW c \in Calls, AnchorEndpoint(c) PROVE AllMedia'
    BY <1>0, <1>17 DEF AnchorEndpoint, AcquirePair, Goto, AllMedia, MediaPlaces, MediaTypes,
       PlaceTypes, MediaSteps, SettledSteps, ClosedSteps, ReleasedSteps, callVars, dialogVars,
       tdVars, engVars
<1>18. ASSUME NEW c \in Calls, AnchorWebRTC(c) PROVE AllMedia'
    BY <1>0, <1>18 DEF AnchorWebRTC, Goto, AllMedia, MediaPlaces, MediaTypes, PlaceTypes,
       MediaSteps, SettledSteps, ClosedSteps, ReleasedSteps, AllPlaces, PairPlaces,
       AnchoredSteps, dialogVars, tdVars, engVars
<1>19. ASSUME NEW c \in Calls, AnchorPBX(c) PROVE AllMedia'
    BY <1>0, <1>19 DEF AnchorPBX, AcquirePair, Goto, AllMedia, MediaPlaces, MediaTypes,
       PlaceTypes, MediaSteps, SettledSteps, ClosedSteps, ReleasedSteps, callVars, dialogVars,
       tdVars, engVars
<1>20. ASSUME NEW c \in Calls, BindAnchor(c) PROVE AllMedia'
    BY <1>0, <1>20 DEF BindAnchor, BindPairs, Goto, AllMedia, MediaPlaces, MediaTypes,
       PlaceTypes, MediaSteps, SettledSteps, ClosedSteps, ReleasedSteps, callVars, dialogVars,
       tdVars, engVars
<1>21. ASSUME NEW c \in Calls, AnchorFails(c) PROVE AllMedia'
    BY <1>0, <1>21, MediaFail DEF AnchorFails, Fail, Goto, tdVars, engVars
<1>22. ASSUME NEW c \in Calls, RegisterMedia(c) PROVE AllMedia'
    BY <1>0, <1>22 DEF RegisterMedia, Goto, AllMedia, MediaPlaces, MediaTypes, PlaceTypes,
       MediaSteps, SettledSteps, ClosedSteps, ReleasedSteps, AllPlaces, PairPlaces,
       AnchoredSteps, dialogVars, tdVars, engVars
<1>23. ASSUME NEW c \in Calls, RegisterRefused(c) PROVE AllMedia'
    BY <1>0, <1>23 DEF RegisterRefused, Goto, AllMedia, MediaPlaces, MediaTypes, PlaceTypes,
       MediaSteps, SettledSteps, ClosedSteps, ReleasedSteps, callVars, tdVars, engVars
<1>24. ASSUME NEW c \in Calls, DialPBX(c) PROVE AllMedia'
    BY <1>0, <1>24 DEF DialPBX, Goto, AllMedia, MediaPlaces, MediaTypes, PlaceTypes, MediaSteps,
       SettledSteps, ClosedSteps, ReleasedSteps, tdVars, engVars
<1>25. ASSUME NEW c \in Calls, WaitAnswerPBX(c) PROVE AllMedia'
    BY <1>0, <1>25 DEF WaitAnswerPBX, Goto, AllMedia, MediaPlaces, MediaTypes, PlaceTypes,
       MediaSteps, SettledSteps, ClosedSteps, ReleasedSteps, callVars, tdVars, engVars
<1>26. ASSUME NEW c \in Calls, PBXFails(c) PROVE AllMedia'
    BY <1>0, <1>26, MediaFail DEF PBXFails, Fail, Goto, tdVars, engVars
<1>27. ASSUME NEW c \in Calls, HookPBX(c) PROVE AllMedia'
    BY <1>0, <1>27 DEF HookPBX, Goto, AllMedia, MediaPlaces, MediaTypes, PlaceTypes, MediaSteps,
       SettledSteps, ClosedSteps, ReleasedSteps, callVars, tdVars, engVars
<1>28. ASSUME NEW c \in Calls, PBXAnswerUnparsed(c) PROVE AllMedia'
    BY <1>0, <1>28, MediaFail DEF PBXAnswerUnparsed, Fail, Goto, tdVars, engVars
<1>29. ASSUME NEW c \in Calls, Establish(c) PROVE AllMedia'
    BY <1>0, <1>29 DEF Establish, CanTransition, Goto, AllMedia, MediaPlaces, MediaTypes,
       PlaceTypes, MediaSteps, SettledSteps, ClosedSteps, ReleasedSteps, AllPlaces, PairPlaces,
       dialogVars, tdVars, engVars
<1>30. ASSUME NEW c \in Calls, AnswerInbound(c) PROVE AllMedia'
    BY <1>0, <1>30 DEF AnswerInbound, Goto, AllMedia, MediaPlaces, MediaTypes, PlaceTypes,
       MediaSteps, SettledSteps, ClosedSteps, ReleasedSteps, callVars, tdVars, engVars
<1>31. ASSUME NEW c \in Calls, AnswerFails(c) PROVE AllMedia'
    BY <1>0, <1>31 DEF AnswerFails, Goto, AllMedia, MediaPlaces, MediaTypes, PlaceTypes,
       MediaSteps, SettledSteps, ClosedSteps, ReleasedSteps, callVars, tdVars, engVars
<1>32. ASSUME NEW c \in Calls, AbortTeardown(c) PROVE AllMedia'
    BY <1>0, <1>32, MediaTeardown DEF AbortTeardown, Goto, dialogVars, engVars
<1>33. ASSUME NEW c \in Calls, BridgeReturns(c) PROVE AllMedia'
    BY <1>0, <1>33 DEF BridgeReturns, Goto, AllMedia, MediaPlaces, MediaTypes, PlaceTypes,
       MediaSteps, SettledSteps, ClosedSteps, ReleasedSteps, callVars, dialogVars, tdVars,
       engVars
<1>34. ASSUME NEW c \in Calls, TeardownCancel(c) PROVE AllMedia'
    BY <1>0, <1>34 DEF TeardownCancel, AllMedia, MediaPlaces, MediaTypes, PlaceTypes,
       MediaSteps, SettledSteps, ClosedSteps, ReleasedSteps, callVars, bridgeVars, dialogVars,
       engVars
<1>35. ASSUME NEW c \in Calls, TeardownClose(c) PROVE AllMedia'
    <2>1. tdHook[c] \/ sess[c] = "none"
        BY <1>0, <1>35 DEF TeardownClose, HookTaken, MediaTypes
    <2>2. CASE tdHook[c]
        BY <1>0, <1>35, <2>2 DEF TeardownClose, AllMedia, MediaPlaces, MediaTypes, PlaceTypes,
           MediaSteps, SettledSteps, ClosedSteps, ReleasedSteps, bridgeVars
    <2>3. CASE ~tdHook[c] /\ sess[c] = "none"
        BY <1>0, <1>35, <2>3 DEF TeardownClose, AllMedia, MediaPlaces, MediaTypes, PlaceTypes,
           MediaSteps, SettledSteps, ClosedSteps, ReleasedSteps, bridgeVars
    <2> QED
        BY <2>1, <2>2, <2>3
<1>36. ASSUME NEW c \in Calls, TeardownRelease(c) PROVE AllMedia'
    <2>1. tdHook[c] \/ fixed[c] = {}
        BY <1>0, <1>36 DEF TeardownRelease, HookTaken, AllMedia, MediaPlaces
    <2>2. CASE tdHook[c]
        <3>1. /\ td' = [td EXCEPT ![c] = "released"]
              /\ returned' = [returned EXCEPT ![c] = @ \cup fixed[c] \cup taps[c]]
            BY <1>36, <2>2 DEF TeardownRelease
        <3> QED
            BY <1>0, <1>36, <3>1 DEF TeardownRelease, AllMedia, MediaPlaces, MediaTypes,
               PlaceTypes, MediaSteps, SettledSteps, ClosedSteps, ReleasedSteps, callVars,
               bridgeVars
    <2>3. CASE ~tdHook[c] /\ fixed[c] = {}
        <3>1. td' = [td EXCEPT ![c] = "released"] /\ returned' = returned
            BY <1>36, <2>3 DEF TeardownRelease
        <3> QED
            BY <1>0, <1>36, <2>3, <3>1 DEF TeardownRelease, AllMedia, MediaPlaces, MediaTypes,
               PlaceTypes, MediaSteps, SettledSteps, ClosedSteps, ReleasedSteps, callVars,
               bridgeVars
    <2> QED
        BY <2>1, <2>2, <2>3
<1>37. ASSUME NEW c \in Calls, TeardownRemove(c) PROVE AllMedia'
    BY <1>0, <1>37 DEF TeardownRemove, AllMedia, MediaPlaces, MediaTypes, PlaceTypes,
       MediaSteps, SettledSteps, ClosedSteps, ReleasedSteps, bridgeVars, dialogVars, engVars
<1>38. ASSUME NEW c \in Calls, TeardownByes(c) PROVE AllMedia'
    BY <1>0, <1>38 DEF TeardownByes, AllMedia, MediaPlaces, MediaTypes, PlaceTypes, MediaSteps,
       SettledSteps, ClosedSteps, ReleasedSteps, callVars, bridgeVars
<1>39. ASSUME NEW c \in Calls, InboundHook(c) PROVE AllMedia'
    BY <1>0, <1>39, MediaTeardown DEF InboundHook, bridgeVars, engVars
<1>40. ASSUME NEW c \in Calls, NEW l \in Legs, LegHook(c, l) PROVE AllMedia'
    BY <1>0, <1>40, MediaTeardown DEF LegHook, bridgeVars, engVars
<1>41. ASSUME NEW c \in Calls, Reap(c) PROVE AllMedia'
    BY <1>0, <1>41, MediaTeardown DEF Reap, bridgeVars, dialogVars, engVars
<1>42. ASSUME NEW c \in Calls, ShutdownCall(c) PROVE AllMedia'
    BY <1>0, <1>42, MediaTeardown DEF ShutdownCall, bridgeVars, dialogVars
<1>43. ASSUME NEW c \in Calls,
             \/ SkipUnrouted(c) \/ CallerCancels(c) \/ CallerByes(c)
      PROVE  AllMedia'
    <2>1. UNCHANGED <<state, td, pc, sess, fixed, taps, cur, pend, returned>>
        BY <1>43 DEF SkipUnrouted, CallerCancels, CallerByes, callVars, bridgeVars, dialogVars,
           tdVars, engVars
    <2> QED
        BY <1>0, <2>1 DEF AllMedia, MediaPlaces
<1>44. ASSUME NEW c \in Calls, NEW l \in Legs, LegEnds(c, l) PROVE AllMedia'
    <2>1. UNCHANGED <<state, td, pc, sess, fixed, taps, cur, pend, returned>>
        BY <1>44 DEF LegEnds, callVars, bridgeVars, tdVars, engVars
    <2> QED
        BY <1>0, <2>1 DEF AllMedia, MediaPlaces
<1>45. ASSUME RunCtxDone \/ Shutdown \/ Exit \/ UNCHANGED vars PROVE AllMedia'
    <2>1. UNCHANGED <<state, td, pc, sess, fixed, taps, cur, pend, returned>>
        BY <1>45 DEF RunCtxDone, Shutdown, Exit, vars, callVars, bridgeVars, dialogVars, tdVars,
           engVars
    <2> QED
        BY <1>0, <2>1 DEF AllMedia, MediaPlaces
<1>46. ASSUME NEW c \in Calls, RelayCloses(c) PROVE AllMedia'
    <2>1. sess[c] # "none"
        BY <1>46 DEF RelayCloses, AllRelays, RelayPlaces
    <2> QED
        BY <1>0, <1>46, <2>1 DEF RelayCloses, AllMedia, MediaPlaces, MediaTypes, bridgeVars, tdVars
<1> QED
    BY <1>1, <1>2, <1>3, <1>4, <1>5, <1>6, <1>7, <1>8, <1>9, <1>10, <1>11, <1>12, <1>13, <1>14,
       <1>15, <1>16, <1>17, <1>18, <1>19, <1>20, <1>21, <1>22, <1>23, <1>24, <1>25, <1>26,
       <1>27, <1>28, <1>29, <1>30, <1>31, <1>32, <1>33, <1>34, <1>35, <1>36, <1>37, <1>38,
       <1>39, <1>40, <1>41, <1>42, <1>43, <1>44, <1>45, <1>46
       DEF Next, CallStep, Bridge, TeardownStep, Exited

-----------------------------------------------------------------------------
(* The media goroutine, which closes the session when the call or the run is cancelled. *)

RelayTypes ==
    /\ eng \in {"run", "cancelled", "draining", "exited"}
    /\ relays \subseteq Calls
    /\ MediaTypes

\* What the steps do that end no session and start no relay: sockets may be closed, and
\* others bound than those of an established call's session.
LEMMA RelayMove ==
    ASSUME AllRelays, UNCHANGED <<relays, sess, fixed, taps>>,
           eng' = eng \/ eng' # "run",
           \A d \in Calls :
               /\ pc[d] \in {"relay", "done"} => pc'[d] \in {"relay", "done"}
               /\ td[d] \in ClosedSteps => td'[d] \in ClosedSteps
               /\ td[d] = "cancelled" => td'[d] \in ClosedSteps \cup {"cancelled"}
               /\ state'[d] = "established" =>
                    /\ state[d] = "established"
                    /\ (fixed[d] \cup taps[d]) \cap open' \subseteq open
    PROVE  AllRelays'
<1> SUFFICES ASSUME NEW d \in Calls PROVE RelayPlaces(d)'
    BY DEF AllRelays
<1>1. RelayPlaces(d)
    BY DEF AllRelays
<1> QED
    BY <1>1 DEF RelayPlaces

\* A step of the bridge before the relay, or of the dialogs.
LEMMA RelaySetup ==
    ASSUME RelayTypes, AllRelays, NEW c \in Calls,
           UNCHANGED <<relays, sess, fixed, taps, eng, td, state>>, open' \subseteq open,
           \/ pc' = pc
           \/ pc[c] \notin {"relay", "done"} /\ \E l \in BridgeSteps : pc' = [pc EXCEPT ![c] = l]
    PROVE  AllRelays'
BY RelayMove DEF RelayTypes, MediaTypes, PlaceTypes

\* Committing a teardown.
LEMMA RelayTeardown ==
    ASSUME RelayTypes, AllPlaces, AllRelays, NEW c \in Calls, NEW why, Teardown(c, why),
           UNCHANGED <<relays, sess, fixed, taps, eng, open>>,
           pc' = pc \/ (pc[c] = "abort" /\ pc' = [pc EXCEPT ![c] = "done"])
    PROVE  AllRelays'
<1>1. \A d \in Calls : pc[d] \in {"relay", "done"} => pc'[d] \in {"relay", "done"}
    BY DEF RelayTypes, MediaTypes, PlaceTypes
<1>2. CASE CanTransition(state[c], "tearingDown")
    <2>1. state[c] # "tearingDown"
        BY <1>2 DEF CanTransition
    <2>2. td[c] = "none"
        BY <2>1 DEF AllPlaces, PairPlaces
    <2>3. /\ state' = [state EXCEPT ![c] = "tearingDown"]
          /\ td' = [td EXCEPT ![c] = "committed"]
        BY <1>2 DEF Teardown
    <2> QED
        BY <1>1, <2>2, <2>3, RelayMove DEF RelayTypes, MediaTypes, ClosedSteps
<1>3. CASE ~CanTransition(state[c], "tearingDown")
    BY <1>1, <1>3, RelayMove DEF Teardown
<1> QED
    BY <1>2, <1>3

\* Pairs that the goroutine holds are not those of an established call's session.
LEMMA RelayBind ==
    ASSUME RelayTypes, AllPlaces, PairOwnedOnce, AllRelays, NEW c \in Calls, NEW l \in BridgeSteps,
           BindPairs(c, l), pc[c] \notin {"relay", "done"},
           UNCHANGED <<relays, sess, fixed, taps, eng, td, state>>
    PROVE  AllRelays'
<1>1. ASSUME NEW d \in Calls, state[d] = "established"
      PROVE  (fixed[d] \cup taps[d]) \cap cur[c] = {}
    <2>1. returned[d] = {}
        BY <1>1 DEF AllPlaces, PairPlaces
    <2>2. fixed[d] \cup taps[d] \subseteq Owned(d) /\ cur[c] \subseteq Owned(c)
        BY <2>1 DEF Owned
    <2> QED
        BY <2>2 DEF PairOwnedOnce
<1>2. open' = open \cup cur[c] /\ pc' = [pc EXCEPT ![c] = l]
    BY DEF BindPairs, Goto
<1> QED
    BY <1>1, <1>2, RelayMove DEF RelayTypes, MediaTypes, PlaceTypes

\* Every step keeps the media goroutine and the session in their places.
LEMMA RelayStep ==
    TypeInv /\ AllPlaces /\ HookTaken /\ AllMedia /\ PairOwnedOnce /\ AllRelays /\ [Next]_vars
        => AllRelays'
<1> SUFFICES ASSUME TypeInv, AllPlaces, HookTaken, AllMedia, PairOwnedOnce, AllRelays,
                    [Next]_vars
             PROVE  AllRelays'
    OBVIOUS
<1>0. RelayTypes /\ AllPlaces /\ AllMedia /\ PairOwnedOnce /\ AllRelays
    BY DEF TypeInv, TypeOK, RelayTypes, MediaTypes, PlaceTypes
<1>1. ASSUME NEW c \in Calls, NEW o \in Offers, NEW R \in SUBSET Apps, HandleInvite(c, o, R)
   PROVE AllRelays'
    <2>1. \A d \in Calls : pc[d] \in {"relay", "done"} => pc'[d] \in {"relay", "done"}
        BY <1>0, <1>1 DEF HandleInvite, Goto, RelayTypes, MediaTypes, PlaceTypes
    <2>2. \A d \in Calls : state'[d] = "established" => state[d] = "established"
        BY <1>0, <1>1 DEF HandleInvite, RelayTypes, MediaTypes
    <2> QED
        BY <1>0, <1>1, <2>1, <2>2, RelayMove DEF HandleInvite, tdVars, engVars
<1>2. ASSUME NEW c \in Calls,
             \/ HookInbound(c) \/ SkipUnrouted(c) \/ AcquireTapCaller(c) \/ AcquireTapCallee(c)
             \/ OfferInactive(c) \/ DialApp(c) \/ WaitAnswerApp(c) \/ HookAppLeg(c) \/ ChainDone(c)
      PROVE  AllRelays'
    <2>1. /\ UNCHANGED <<relays, sess, fixed, taps, eng, td, state, open>>
          /\ \/ pc' = pc
             \/ /\ pc[c] \notin {"relay", "done"}
                /\ \E l \in BridgeSteps : pc' = [pc EXCEPT ![c] = l]
        BY <1>2 DEF HookInbound, SkipUnrouted, AcquireTapCaller, AcquireTapCallee, AtApp,
           AcquirePair, OfferInactive, DialApp, WaitAnswerApp, HookAppLeg, ChainDone, Goto,
           BridgeSteps, callVars, tdVars, engVars
    <2> QED
        BY <1>0, <2>1, RelaySetup
<1>3. ASSUME NEW c \in Calls,
             \/ AppendAppLeg(c) \/ TapAnswerUnparsed(c) \/ AnchorEndpoint(c) \/ AnchorPBX(c)
             \/ RegisterRefused(c) \/ DialPBX(c) \/ WaitAnswerPBX(c) \/ HookPBX(c)
             \/ AnswerFails(c)
      PROVE  AllRelays'
    <2>1. /\ UNCHANGED <<relays, sess, fixed, taps, eng, td, state>>
          /\ open' \subseteq open
          /\ pc[c] \notin {"relay", "done"}
          /\ \E l \in BridgeSteps : pc' = [pc EXCEPT ![c] = l]
        BY <1>3 DEF AppendAppLeg, TapAnswerUnparsed, AnchorEndpoint, AnchorPBX, AcquirePair,
           RegisterRefused, DialPBX, WaitAnswerPBX, HookPBX, AnswerFails, Goto, BridgeSteps,
           callVars, tdVars, engVars
    <2> QED
        BY <1>0, <2>1, RelaySetup
<1>4. ASSUME NEW c \in Calls,
             \/ BadAppURI(c) \/ BuildOfferFails(c) \/ AnchorFails(c) \/ PBXFails(c)
             \/ PBXAnswerUnparsed(c)
      PROVE  AllRelays'
    <2>1. /\ UNCHANGED <<relays, sess, fixed, taps, eng, td, state>>
          /\ open' \subseteq open
          /\ pc[c] \notin {"relay", "done"}
          /\ \E l \in BridgeSteps : pc' = [pc EXCEPT ![c] = l]
        BY <1>4 DEF BadAppURI, AtApp, BuildOfferFails, AnchorFails, PBXFails, PBXAnswerUnparsed,
           Fail, Goto, BridgeSteps, tdVars, engVars
    <2> QED
        BY <1>0, <2>1, RelaySetup
<1>5. ASSUME NEW c \in Calls, TapSetupFails(c) \/ AppLegFails(c) PROVE AllRelays'
    <2>1. /\ UNCHANGED <<relays, sess, fixed, taps, eng, td, state>>
          /\ open' \subseteq open
          /\ pc[c] \notin {"relay", "done"}
          /\ \E l \in BridgeSteps : pc' = [pc EXCEPT ![c] = l]
        BY <1>5 DEF TapSetupFails, AtApp, AppLegFails, AppFailed, Fail, Goto, BridgeSteps,
           tdVars, engVars
    <2> QED
        BY <1>0, <2>1, RelaySetup
<1>6. ASSUME NEW c \in Calls, BindTap(c) PROVE AllRelays'
    BY <1>0, <1>6, RelayBind DEF BindTap, BridgeSteps, callVars, tdVars, engVars
<1>7. ASSUME NEW c \in Calls, BindAnchor(c) PROVE AllRelays'
    BY <1>0, <1>7, RelayBind DEF BindAnchor, BridgeSteps, callVars, tdVars, engVars
<1>8. ASSUME NEW c \in Calls, AnchorWebRTC(c) \/ RegisterMedia(c) PROVE AllRelays'
    <2> SUFFICES ASSUME NEW d \in Calls PROVE RelayPlaces(d)'
        BY DEF AllRelays
    <2>1. RelayPlaces(d) /\ pc[c] \notin {"relay", "done"}
        BY <1>0, <1>8 DEF AllRelays, AnchorWebRTC, RegisterMedia
    <2>2. CASE d = c
        <3>1. c \notin relays
            BY <2>1, <2>2 DEF RelayPlaces
        <3>2. relays' = relays /\ sess'[c] = "open"
            BY <1>0, <1>8 DEF AnchorWebRTC, RegisterMedia, engVars, RelayTypes, MediaTypes
        <3> QED
            BY <2>2, <3>1, <3>2 DEF RelayPlaces
    <2>3. CASE d # c
        <3>1. /\ UNCHANGED <<relays, eng, open, td, state>>
              /\ pc'[d] = pc[d] /\ sess'[d] = sess[d] /\ fixed'[d] = fixed[d] /\ taps'[d] = taps[d]
            BY <1>0, <1>8, <2>3 DEF AnchorWebRTC, RegisterMedia, Goto, tdVars, engVars, RelayTypes,
               MediaTypes, PlaceTypes
        <3> QED
            BY <2>1, <3>1 DEF RelayPlaces
    <2> QED
        BY <2>2, <2>3
<1>9. ASSUME NEW c \in Calls, Establish(c) PROVE AllRelays'
    <2> SUFFICES ASSUME NEW d \in Calls PROVE RelayPlaces(d)'
        BY DEF AllRelays
    <2>1. RelayPlaces(d) /\ PairPlaces(d)
        BY <1>0 DEF AllRelays, AllPlaces
    <2>2. UNCHANGED <<relays, eng, open, td, sess, fixed>>
        BY <1>9 DEF Establish, tdVars, engVars
    <2>3. CASE d = c
        <3>1. c \notin relays /\ (sess[c] = "closed" => td[c] \in ClosedSteps)
            BY <1>9, <2>1, <2>3 DEF Establish, RelayPlaces
        <3>2. sess[c] = "closed" => state[c] = "tearingDown"
            BY <2>1, <2>3, <3>1 DEF PairPlaces, ClosedSteps
        <3>3. state[c] = "tearingDown" => state'[c] = "tearingDown"
            BY <1>0, <1>9 DEF Establish, CanTransition, RelayTypes, MediaTypes
        <3> QED
            BY <2>2, <2>3, <3>1, <3>2, <3>3 DEF RelayPlaces
    <2>4. CASE d # c
        <3>1. pc'[d] = pc[d] /\ state'[d] = state[d] /\ taps'[d] = taps[d]
            BY <1>0, <1>9, <2>4 DEF Establish, Goto, RelayTypes, MediaTypes, PlaceTypes
        <3> QED
            BY <2>1, <2>2, <3>1 DEF RelayPlaces
    <2> QED
        BY <2>3, <2>4
<1>10. ASSUME NEW c \in Calls, AnswerInbound(c) PROVE AllRelays'
    <2> SUFFICES ASSUME NEW d \in Calls PROVE RelayPlaces(d)'
        BY DEF AllRelays
    <2>1. RelayPlaces(d)
        BY <1>0 DEF AllRelays
    <2>2. fixed[c] # {} /\ sess[c] # "none"
        BY <1>0, <1>10 DEF AnswerInbound, AllMedia, MediaPlaces, MediaSteps
    <2>3. /\ UNCHANGED <<eng, open, td, state, sess, fixed, taps>>
          /\ relays' = relays \cup {c} /\ pc' = [pc EXCEPT ![c] = "relay"]
        BY <1>10 DEF AnswerInbound, Goto, callVars, tdVars
    <2> QED
        BY <1>0, <2>1, <2>2, <2>3 DEF RelayPlaces, RelayTypes, MediaTypes, PlaceTypes
<1>11. ASSUME NEW c \in Calls, BridgeReturns(c) PROVE AllRelays'
    <2>1. \A d \in Calls : pc[d] \in {"relay", "done"} => pc'[d] \in {"relay", "done"}
        BY <1>0, <1>11 DEF BridgeReturns, Goto, RelayTypes, MediaTypes, PlaceTypes
    <2> QED
        BY <1>0, <1>11, <2>1, RelayMove DEF BridgeReturns, callVars, tdVars, engVars
<1>12. ASSUME NEW c \in Calls, RelayCloses(c) PROVE AllRelays'
    <2> SUFFICES ASSUME NEW d \in Calls PROVE RelayPlaces(d)'
        BY DEF AllRelays
    <2>1. RelayPlaces(d)
        BY <1>0 DEF AllRelays
    <2>2. /\ UNCHANGED <<eng, td, state, pc, fixed, taps>>
          /\ relays' = relays \ {c} /\ sess' = [sess EXCEPT ![c] = "closed"]
          /\ open' = IF sess[c] = "open" THEN open \ (fixed[c] \cup taps[c]) ELSE open
        BY <1>12 DEF RelayCloses, bridgeVars, tdVars
    <2>3. CASE d = c
        <3>1. sess[c] \in {"open", "closed"} /\ pc[c] \in {"relay", "done"}
            BY <1>0, <1>12, <2>1, <2>3 DEF RelayCloses, RelayPlaces, RelayTypes, MediaTypes
        <3>2. td[c] \in ClosedSteps \cup {"cancelled"} \/ eng # "run"
            BY <1>0, <1>12 DEF RelayCloses, Cancelled, RelayTypes, MediaTypes, TeardownSteps,
               ClosedSteps
        <3>3. sess'[c] = "closed"
            BY <1>0, <2>2 DEF RelayTypes, MediaTypes
        <3> QED
            BY <2>1, <2>2, <2>3, <3>1, <3>2, <3>3 DEF RelayPlaces
    <2>4. CASE d # c
        <3>1. sess'[d] = sess[d] /\ open' \subseteq open
            BY <1>0, <2>2, <2>4 DEF RelayTypes, MediaTypes
        <3> QED
            BY <2>1, <2>2, <2>4, <3>1 DEF RelayPlaces
    <2> QED
        BY <2>3, <2>4
<1>13. ASSUME NEW c \in Calls, TeardownClose(c) PROVE AllRelays'
    <2> SUFFICES ASSUME NEW d \in Calls PROVE RelayPlaces(d)'
        BY DEF AllRelays
    <2>1. RelayPlaces(d) /\ PairPlaces(d)
        BY <1>0 DEF AllRelays, AllPlaces
    <2>2. /\ UNCHANGED <<eng, relays, state, pc, fixed, taps>>
          /\ td' = [td EXCEPT ![c] = "closed"] /\ open' \subseteq open
        BY <1>13 DEF TeardownClose, bridgeVars, engVars
    <2>3. CASE d = c
        <3>1. sess'[c] = sess[c] \/ sess'[c] = "closed"
            BY <1>0, <1>13 DEF TeardownClose, RelayTypes, MediaTypes
        <3>2. td'[c] \in ClosedSteps /\ state[c] = "tearingDown"
            BY <1>0, <1>13, <2>1, <2>2, <2>3 DEF TeardownClose, PairPlaces, ClosedSteps,
               RelayTypes, MediaTypes
        <3> QED
            BY <2>1, <2>2, <2>3, <3>1, <3>2 DEF RelayPlaces
    <2>4. CASE d # c
        <3>1. sess'[d] = sess[d] /\ td'[d] = td[d]
            BY <1>0, <1>13, <2>4 DEF TeardownClose, RelayTypes, MediaTypes
        <3> QED
            BY <2>1, <2>2, <3>1 DEF RelayPlaces
    <2> QED
        BY <2>3, <2>4
<1>14. ASSUME NEW c \in Calls,
             \/ TeardownCancel(c) \/ TeardownRelease(c) \/ TeardownRemove(c) \/ TeardownByes(c)
      PROVE  AllRelays'
    <2>1. UNCHANGED <<eng, relays, state, pc, sess, fixed, taps, open>>
        BY <1>14 DEF TeardownCancel, TeardownRelease, TeardownRemove, TeardownByes, callVars,
           bridgeVars, engVars
    <2>2. \A d \in Calls :
            /\ td[d] \in ClosedSteps => td'[d] \in ClosedSteps
            /\ td[d] = "cancelled" => td'[d] \in ClosedSteps \cup {"cancelled"}
        BY <1>0, <1>14 DEF TeardownCancel, TeardownRelease, TeardownRemove, TeardownByes,
           ClosedSteps, RelayTypes, MediaTypes
    <2> QED
        BY <1>0, <2>1, <2>2, RelayMove
<1>15. ASSUME NEW c \in Calls, AbortTeardown(c) PROVE AllRelays'
    BY <1>0, <1>15, RelayTeardown DEF AbortTeardown, Goto, engVars
<1>16. ASSUME NEW c \in Calls, InboundHook(c) \/ Reap(c) PROVE AllRelays'
    <2>1. PICK why : Teardown(c, why)
        BY <1>16 DEF InboundHook, Reap
    <2>2. UNCHANGED <<relays, sess, fixed, taps, eng, open, pc>>
        BY <1>16 DEF InboundHook, Reap, bridgeVars, engVars
    <2> QED
        BY <1>0, <2>1, <2>2, RelayTeardown
<1>17. ASSUME NEW c \in Calls, NEW l \in Legs, LegHook(c, l) PROVE AllRelays'
    BY <1>0, <1>17, RelayTeardown DEF LegHook, bridgeVars, engVars
<1>18. ASSUME NEW c \in Calls, ShutdownCall(c) PROVE AllRelays'
    BY <1>0, <1>18, RelayTeardown DEF ShutdownCall, bridgeVars
<1>19. ASSUME NEW c \in Calls, CallerCancels(c) \/ CallerByes(c) PROVE AllRelays'
    <2>1. UNCHANGED <<relays, sess, fixed, taps, eng, td, state, open, pc>>
        BY <1>19 DEF CallerCancels, CallerByes, callVars, bridgeVars, tdVars, engVars
    <2> QED
        BY <1>0, <2>1, RelaySetup
<1>20. ASSUME NEW c \in Calls, NEW l \in Legs, LegEnds(c, l) PROVE AllRelays'
    <2>1. UNCHANGED <<relays, sess, fixed, taps, eng, td, state, open, pc>>
        BY <1>20 DEF LegEnds, callVars, bridgeVars, tdVars, engVars
    <2> QED
        BY <1>0, <2>1, RelaySetup
<1>21. ASSUME RunCtxDone \/ Shutdown \/ Exit \/ UNCHANGED vars PROVE AllRelays'
    <2>1. /\ UNCHANGED <<relays, sess, fixed, taps, td, state, open, pc>>
          /\ eng' = eng \/ eng' # "run"
        BY <1>21 DEF RunCtxDone, Shutdown, Exit, vars, callVars, bridgeVars, dialogVars, tdVars,
           engVars
    <2> QED
        BY <1>0, <2>1, RelayMove
<1> QED
    BY <1>1, <1>2, <1>3, <1>4, <1>5, <1>6, <1>7, <1>8, <1>9, <1>10, <1>11, <1>12, <1>13, <1>14,
       <1>15, <1>16, <1>17, <1>18, <1>19, <1>20, <1>21
       DEF Next, CallStep, Bridge, TeardownStep, Exited

-----------------------------------------------------------------------------
(* Sockets *)

\* The steps at which the sockets of the pairs in the goroutine's hands are bound.
BoundSteps == {"dial", "wait", "append", "register"}

\* The pairs whose sockets are bound on the call's behalf.
Bound(c) ==
    (IF pc[c] \in BoundSteps THEN cur[c] ELSE {}) \cup pend[c]
        \cup (IF sess[c] = "open" THEN fixed[c] \cup taps[c] ELSE {})

\* The taps of a closed session, the late ones among them.
DeadTaps(c) == IF sess[c] = "closed" THEN taps[c] ELSE {}

\* Every bound socket is one call's, or that of a tap of a session closed already, and all
\* a call counts on is bound.
Sockets ==
    /\ \A c \in Calls : Bound(c) \subseteq open
    /\ \A p \in open : \E c \in Calls : p \in Bound(c) \cup DeadTaps(c)

\* What is bound for a call is owned by it, because the session is closed before its
\* pairs are returned: no two calls have the same socket.
LEMMA BoundApart ==
    ASSUME MediaTypes, AllPlaces, AllMedia, PairOwnedOnce
    PROVE  /\ \A c \in Calls : Bound(c) \subseteq Owned(c)
           /\ \A c, d \in Calls : c # d => Bound(c) \cap Bound(d) = {}
<1>1. ASSUME NEW c \in Calls PROVE Bound(c) \subseteq Owned(c)
    <2>1. sess[c] = "open" => returned[c] = {}
        BY DEF AllMedia, MediaPlaces, AllPlaces, PairPlaces, MediaTypes, ClosedSteps,
           TeardownSteps
    <2> QED
        BY <2>1 DEF Bound, Owned
<1>2. \A c, d \in Calls : c # d => Bound(c) \cap Bound(d) = {}
    BY <1>1 DEF PairOwnedOnce
<1> QED
    BY <1>1, <1>2

\* The sockets of B, which are the call's, are closed; its other sockets may change
\* their place.
LEMMA SocketsMove ==
    ASSUME MediaTypes, AllPlaces, AllMedia, PairOwnedOnce, Sockets, NEW c \in Calls, NEW B,
           B \subseteq Bound(c), open' = open \ B,
           \A d \in Calls : d # c => Bound(d)' = Bound(d) /\ DeadTaps(d)' = DeadTaps(d),
           Bound(c)' \subseteq Bound(c) \ B,
           Bound(c) \cup DeadTaps(c) \subseteq Bound(c)' \cup DeadTaps(c)' \cup B
    PROVE  Sockets'
<1>1. \A d \in Calls : d # c => B \cap Bound(d) = {}
    BY BoundApart
<1>2. \A d \in Calls : Bound(d)' \subseteq open'
    BY <1>1 DEF Sockets
<1>3. ASSUME NEW p \in open' PROVE \E d \in Calls : p \in Bound(d)' \cup DeadTaps(d)'
    <2>1. PICK d \in Calls : p \in Bound(d) \cup DeadTaps(d)
        BY DEF Sockets
    <2> QED
        BY <2>1
<1> QED
    BY <1>2, <1>3 DEF Sockets

\* Nothing is bound or closed.
LEMMA SocketsKept ==
    ASSUME Sockets, open' = open,
           \A d \in Calls : Bound(d)' = Bound(d) /\ DeadTaps(d)' = DeadTaps(d)
    PROVE  Sockets'
BY DEF Sockets

\* The sockets of the pairs in the goroutine's hands are bound.
LEMMA SocketsBind ==
    ASSUME MediaTypes, Sockets, NEW c \in Calls, NEW l \in BoundSteps, BindPairs(c, l),
           pc[c] \notin BoundSteps, UNCHANGED <<cur, pend, sess, fixed, taps>>
    PROVE  Sockets'
<1>1. Bound(c)' = Bound(c) \cup cur[c]
    BY DEF Bound, BindPairs, Goto, MediaTypes, PlaceTypes
<1>2. \A d \in Calls : d # c => Bound(d)' = Bound(d)
    BY DEF Bound, BindPairs, Goto, MediaTypes, PlaceTypes
<1>3. \A d \in Calls : DeadTaps(d)' = DeadTaps(d)
    BY DEF DeadTaps
<1>4. open' = open \cup cur[c]
    BY DEF BindPairs
<1>5. \A d \in Calls : Bound(d)' \subseteq open'
    BY <1>1, <1>2, <1>4 DEF Sockets
<1>6. ASSUME NEW p \in open' PROVE \E d \in Calls : p \in Bound(d)' \cup DeadTaps(d)'
    <2>1. CASE p \in cur[c]
        BY <1>1, <2>1
    <2>2. CASE p \in open
        <3>1. PICK d \in Calls : p \in Bound(d) \cup DeadTaps(d)
            BY <2>2 DEF Sockets
        <3> QED
            BY <1>1, <1>2, <1>3, <3>1
    <2> QED
        BY <1>4, <2>1, <2>2
<1> QED
    BY <1>5, <1>6 DEF Sockets

\* A failing step closes what is pending and, if bound, what the goroutine has in its
\* hands, or only the latter when the chain goes on.
LEMMA SocketsFail ==
    ASSUME MediaTypes, AllPlaces, AllMedia, PairOwnedOnce, Sockets, NEW c \in Calls, NEW B,
           B = IF pc[c] \in BoundSteps THEN cur[c] ELSE {},
           cur' = [cur EXCEPT ![c] = {}],
           \/ open' = open \ (B \cup pend[c]) /\ pend' = [pend EXCEPT ![c] = {}]
           \/ open' = open \ B /\ pend' = pend,
           NEW l \in BridgeSteps, pc' = [pc EXCEPT ![c] = l],
           UNCHANGED <<sess, fixed, taps>>
    PROVE  Sockets'
<1> DEFINE G == IF pend' = pend THEN B ELSE B \cup pend[c]
<1>1. G \subseteq Bound(c)
    BY DEF Bound
<1>2. open' = open \ G
    <2>1. CASE open' = open \ B /\ pend' = pend
        BY <2>1
    <2>2. CASE open' = open \ (B \cup pend[c]) /\ pend' = [pend EXCEPT ![c] = {}]
        <3>1. pend' = pend => pend[c] = {}
            BY <2>2 DEF MediaTypes, PlaceTypes
        <3> QED
            BY <2>2, <3>1
    <2> QED
        BY <2>1, <2>2
<1>3. \A d \in Calls : d # c => Bound(d)' = Bound(d)
    BY DEF Bound, MediaTypes, PlaceTypes
<1>4. \A d \in Calls : DeadTaps(d)' = DeadTaps(d)
    BY DEF DeadTaps
<1>5. Bound(c)' \subseteq Bound(c) \ G /\ Bound(c) \subseteq Bound(c)' \cup G
    <2> DEFINE S == IF sess[c] = "open" THEN fixed[c] \cup taps[c] ELSE {}
    <2>1. Bound(c) = B \cup pend[c] \cup S
        BY DEF Bound
    <2>2. Bound(c)' = pend'[c] \cup S
        BY DEF Bound, MediaTypes, PlaceTypes
    <2>3. B \cap pend[c] = {} /\ (B \cup pend[c]) \cap S = {}
        BY DEF PairOwnedOnce
    <2>4. pend'[c] = pend[c] \/ pend'[c] = {}
        BY DEF MediaTypes, PlaceTypes
    <2>5. pend' # pend => pend'[c] = {}
        BY DEF MediaTypes, PlaceTypes
    <2> HIDE DEF S
    <2>6. CASE pend' = pend
        BY <2>1, <2>2, <2>3, <2>6
    <2>7. CASE pend' # pend
        BY <2>1, <2>2, <2>3, <2>5, <2>7
    <2> QED
        BY <2>6, <2>7
<1> HIDE DEF G
<1> QED
    BY <1>1, <1>2, <1>3, <1>4, <1>5, SocketsMove

\* MediaSession.Close closes the sides and taps of a session once, whoever calls it.
LEMMA SocketsClose ==
    ASSUME MediaTypes, AllPlaces, AllMedia, PairOwnedOnce, Sockets, NEW c \in Calls,
           sess[c] \in {"open", "closed"}, sess' = [sess EXCEPT ![c] = "closed"],
           open' = IF sess[c] = "open" THEN open \ (fixed[c] \cup taps[c]) ELSE open,
           UNCHANGED <<pc, cur, pend, fixed, taps>>
    PROVE  Sockets'
<1>1. \A d \in Calls : d # c => Bound(d)' = Bound(d) /\ DeadTaps(d)' = DeadTaps(d)
    BY DEF Bound, DeadTaps, MediaTypes
<1>2. CASE sess[c] = "open"
    <2>1. open' = open \ (fixed[c] \cup taps[c]) /\ fixed[c] \cup taps[c] \subseteq Bound(c)
        BY <1>2 DEF Bound
    <2>2. Bound(c)' = Bound(c) \ (fixed[c] \cup taps[c])
        BY <1>2 DEF Bound, MediaTypes, PairOwnedOnce
    <2>3. DeadTaps(c) = {}
        BY <1>2 DEF DeadTaps
    <2> QED
        BY <1>1, <2>1, <2>2, <2>3, SocketsMove
<1>3. CASE sess[c] = "closed"
    BY <1>1, <1>3, SocketsKept DEF Bound, DeadTaps, MediaTypes
<1> QED
    BY <1>2, <1>3

\* Every step keeps the sockets with their calls.
LEMMA SocketsStep ==
    TypeInv /\ AllPlaces /\ HookTaken /\ AllRelays /\ AllMedia /\ PairOwnedOnce /\ Sockets
        /\ [Next]_vars => Sockets'
<1> SUFFICES ASSUME TypeInv, AllPlaces, HookTaken, AllRelays, AllMedia, PairOwnedOnce, Sockets,
                    [Next]_vars
             PROVE  Sockets'
    OBVIOUS
<1>0. MediaTypes /\ AllPlaces /\ AllMedia /\ PairOwnedOnce /\ Sockets
    BY DEF TypeInv, TypeOK, MediaTypes, PlaceTypes
<1>1. ASSUME NEW c \in Calls, NEW o \in Offers, NEW R \in SUBSET Apps, HandleInvite(c, o, R)
   PROVE Sockets'
    <2>1. \A d \in Calls : Bound(d)' = Bound(d) /\ DeadTaps(d)' = DeadTaps(d)
        BY <1>0, <1>1 DEF HandleInvite, Goto, Bound, DeadTaps, BoundSteps, HoldingSteps,
           AnchoredSteps, AllPlaces, PairPlaces, MediaTypes, PlaceTypes, tdVars, engVars
    <2> QED
        BY <1>0, <1>1, <2>1, SocketsKept DEF HandleInvite, tdVars, engVars
<1>2. ASSUME NEW c \in Calls, HookInbound(c) PROVE Sockets'
    <2>1. \A d \in Calls : Bound(d)' = Bound(d) /\ DeadTaps(d)' = DeadTaps(d)
        BY <1>0, <1>2 DEF HookInbound, Goto, Bound, DeadTaps, BoundSteps, HoldingSteps,
           AnchoredSteps, AllPlaces, PairPlaces, MediaTypes, PlaceTypes, callVars, dialogVars,
           tdVars, engVars
    <2> QED
        BY <1>0, <1>2, <2>1, SocketsKept DEF HookInbound, callVars, dialogVars, tdVars, engVars
<1>3. ASSUME NEW c \in Calls, BadAppURI(c) PROVE Sockets'
    BY <1>0, <1>3, SocketsFail DEF BadAppURI, AtApp, Fail, Goto, BoundSteps, BridgeSteps,
       AllPlaces, PairPlaces, HoldingSteps, tdVars, engVars
<1>4. ASSUME NEW c \in Calls, AcquireTapCaller(c) PROVE Sockets'
    <2>1. \A d \in Calls : Bound(d)' = Bound(d) /\ DeadTaps(d)' = DeadTaps(d)
        BY <1>0, <1>4 DEF AcquireTapCaller, AcquirePair, AtApp, Goto, Bound, DeadTaps,
           BoundSteps, HoldingSteps, AnchoredSteps, AllPlaces, PairPlaces, MediaTypes,
           PlaceTypes, callVars, dialogVars, tdVars, engVars
    <2> QED
        BY <1>0, <1>4, <2>1, SocketsKept DEF AcquireTapCaller, callVars, dialogVars, tdVars,
           engVars
<1>5. ASSUME NEW c \in Calls, AcquireTapCallee(c) PROVE Sockets'
    <2>1. \A d \in Calls : Bound(d)' = Bound(d) /\ DeadTaps(d)' = DeadTaps(d)
        BY <1>0, <1>5 DEF AcquireTapCallee, AcquirePair, Goto, Bound, DeadTaps, BoundSteps,
           HoldingSteps, AnchoredSteps, AllPlaces, PairPlaces, MediaTypes, PlaceTypes, callVars,
           dialogVars, tdVars, engVars
    <2> QED
        BY <1>0, <1>5, <2>1, SocketsKept DEF AcquireTapCallee, callVars, dialogVars, tdVars,
           engVars
<1>6. ASSUME NEW c \in Calls, BindTap(c) PROVE Sockets'
    BY <1>0, <1>6, SocketsBind DEF BindTap, BoundSteps, callVars, dialogVars, tdVars, engVars
<1>7. ASSUME NEW c \in Calls, TapSetupFails(c) PROVE Sockets'
    <2>1. pc[c] \notin BoundSteps \/ cur[c] = {}
        BY <1>0, <1>7 DEF TapSetupFails, AtApp, BoundSteps, HoldingSteps, AllPlaces, PairPlaces
    <2>2. /\ cur' = [cur EXCEPT ![c] = {}]
          /\ UNCHANGED <<sess, fixed, taps>>
          /\ \/ /\ open' = open \ ({} \cup pend[c]) /\ pend' = [pend EXCEPT ![c] = {}]
                /\ pc' = [pc EXCEPT ![c] = "abort"]
             \/ /\ open' = open \ {} /\ pend' = pend
                /\ pc' = [pc EXCEPT ![c] = "chain"]
        BY <1>7 DEF TapSetupFails, AppFailed, Fail, Goto
    <2> QED
        BY <1>0, <2>1, <2>2, SocketsFail DEF BridgeSteps
<1>8. ASSUME NEW c \in Calls, OfferInactive(c) PROVE Sockets'
    <2>1. \A d \in Calls : Bound(d)' = Bound(d) /\ DeadTaps(d)' = DeadTaps(d)
        BY <1>0, <1>8 DEF OfferInactive, AtApp, Goto, Bound, DeadTaps, BoundSteps, HoldingSteps,
           AnchoredSteps, AllPlaces, PairPlaces, MediaTypes, PlaceTypes, callVars, dialogVars,
           tdVars, engVars
    <2> QED
        BY <1>0, <1>8, <2>1, SocketsKept DEF OfferInactive, callVars, dialogVars, tdVars,
           engVars
<1>9. ASSUME NEW c \in Calls, BuildOfferFails(c) PROVE Sockets'
    BY <1>0, <1>9, SocketsFail DEF BuildOfferFails, AtApp, Fail, Goto, BoundSteps, BridgeSteps,
       AllPlaces, PairPlaces, HoldingSteps, tdVars, engVars
<1>10. ASSUME NEW c \in Calls, DialApp(c) PROVE Sockets'
    <2>1. \A d \in Calls : Bound(d)' = Bound(d) /\ DeadTaps(d)' = DeadTaps(d)
        BY <1>0, <1>10 DEF DialApp, Goto, Bound, DeadTaps, BoundSteps, HoldingSteps,
           AnchoredSteps, AllPlaces, PairPlaces, MediaTypes, PlaceTypes, callVars, tdVars,
           engVars
    <2> QED
        BY <1>0, <1>10, <2>1, SocketsKept DEF DialApp, callVars, tdVars, engVars
<1>11. ASSUME NEW c \in Calls, WaitAnswerApp(c) PROVE Sockets'
    <2>1. \A d \in Calls : Bound(d)' = Bound(d) /\ DeadTaps(d)' = DeadTaps(d)
        BY <1>0, <1>11 DEF WaitAnswerApp, Goto, Bound, DeadTaps, BoundSteps, HoldingSteps,
           AnchoredSteps, AllPlaces, PairPlaces, MediaTypes, PlaceTypes, callVars, tdVars,
           engVars
    <2> QED
        BY <1>0, <1>11, <2>1, SocketsKept DEF WaitAnswerApp, callVars, tdVars, engVars
<1>12. ASSUME NEW c \in Calls, AppLegFails(c) PROVE Sockets'
    <2>1. pc[c] \in BoundSteps \/ cur[c] = {}
        BY <1>0, <1>12 DEF AppLegFails, BoundSteps, HoldingSteps, AllPlaces, PairPlaces
    <2>2. /\ cur' = [cur EXCEPT ![c] = {}]
          /\ UNCHANGED <<sess, fixed, taps>>
          /\ \/ /\ open' = open \ (cur[c] \cup pend[c]) /\ pend' = [pend EXCEPT ![c] = {}]
                /\ pc' = [pc EXCEPT ![c] = "abort"]
             \/ /\ open' = open \ cur[c] /\ pend' = pend
                /\ pc' = [pc EXCEPT ![c] = "chain"]
        BY <1>12 DEF AppLegFails, AppFailed, Fail, Goto
    <2> QED
        BY <1>0, <2>1, <2>2, SocketsFail DEF BridgeSteps
<1>13. ASSUME NEW c \in Calls, AppendAppLeg(c) PROVE Sockets'
    <2>1. \A d \in Calls : Bound(d)' = Bound(d) /\ DeadTaps(d)' = DeadTaps(d)
        BY <1>0, <1>13 DEF AppendAppLeg, Goto, Bound, DeadTaps, BoundSteps, HoldingSteps,
           AnchoredSteps, AllPlaces, PairPlaces, MediaTypes, PlaceTypes, dialogVars, tdVars,
           engVars
    <2> QED
        BY <1>0, <1>13, <2>1, SocketsKept DEF AppendAppLeg, dialogVars, tdVars, engVars
<1>14. ASSUME NEW c \in Calls, TapAnswerUnparsed(c) PROVE Sockets'
    BY <1>0, <1>14, SocketsFail DEF TapAnswerUnparsed, Goto, BoundSteps, BridgeSteps, AllPlaces,
       PairPlaces, HoldingSteps, dialogVars, tdVars, engVars
<1>15. ASSUME NEW c \in Calls, HookAppLeg(c) PROVE Sockets'
    <2>1. \A d \in Calls : Bound(d)' = Bound(d) /\ DeadTaps(d)' = DeadTaps(d)
        BY <1>0, <1>15 DEF HookAppLeg, Goto, Bound, DeadTaps, BoundSteps, HoldingSteps,
           AnchoredSteps, AllPlaces, PairPlaces, MediaTypes, PlaceTypes, callVars, tdVars,
           engVars
    <2> QED
        BY <1>0, <1>15, <2>1, SocketsKept DEF HookAppLeg, callVars, tdVars, engVars
<1>16. ASSUME NEW c \in Calls, ChainDone(c) PROVE Sockets'
    <2>1. \A d \in Calls : Bound(d)' = Bound(d) /\ DeadTaps(d)' = DeadTaps(d)
        BY <1>0, <1>16 DEF ChainDone, Goto, Bound, DeadTaps, BoundSteps, HoldingSteps,
           AnchoredSteps, AllPlaces, PairPlaces, MediaTypes, PlaceTypes, callVars, dialogVars,
           tdVars, engVars
    <2> QED
        BY <1>0, <1>16, <2>1, SocketsKept DEF ChainDone, callVars, dialogVars, tdVars, engVars
<1>17. ASSUME NEW c \in Calls, AnchorEndpoint(c) PROVE Sockets'
    <2>1. \A d \in Calls : Bound(d)' = Bound(d) /\ DeadTaps(d)' = DeadTaps(d)
        BY <1>0, <1>17 DEF AnchorEndpoint, AcquirePair, Goto, Bound, DeadTaps, BoundSteps,
           HoldingSteps, AnchoredSteps, AllPlaces, PairPlaces, MediaTypes, PlaceTypes, callVars,
           dialogVars, tdVars, engVars
    <2> QED
        BY <1>0, <1>17, <2>1, SocketsKept DEF AnchorEndpoint, callVars, dialogVars, tdVars,
           engVars
<1>18. ASSUME NEW c \in Calls, AnchorWebRTC(c) PROVE Sockets'
    <2>1. \A d \in Calls : Bound(d)' = Bound(d) /\ DeadTaps(d)' = DeadTaps(d)
        BY <1>0, <1>18 DEF AnchorWebRTC, Goto, Bound, DeadTaps, BoundSteps, HoldingSteps,
           AnchoredSteps, AllPlaces, PairPlaces, MediaTypes, PlaceTypes, dialogVars, tdVars,
           engVars
    <2> QED
        BY <1>0, <1>18, <2>1, SocketsKept DEF AnchorWebRTC, dialogVars, tdVars, engVars
<1>19. ASSUME NEW c \in Calls, AnchorPBX(c) PROVE Sockets'
    <2>1. \A d \in Calls : Bound(d)' = Bound(d) /\ DeadTaps(d)' = DeadTaps(d)
        BY <1>0, <1>19 DEF AnchorPBX, AcquirePair, Goto, Bound, DeadTaps, BoundSteps,
           HoldingSteps, AnchoredSteps, AllPlaces, PairPlaces, MediaTypes, PlaceTypes, callVars,
           dialogVars, tdVars, engVars
    <2> QED
        BY <1>0, <1>19, <2>1, SocketsKept DEF AnchorPBX, callVars, dialogVars, tdVars, engVars
<1>20. ASSUME NEW c \in Calls, BindAnchor(c) PROVE Sockets'
    BY <1>0, <1>20, SocketsBind DEF BindAnchor, BoundSteps, callVars, dialogVars, tdVars, engVars
<1>21. ASSUME NEW c \in Calls, AnchorFails(c) PROVE Sockets'
    BY <1>0, <1>21, SocketsFail DEF AnchorFails, Fail, Goto, BoundSteps, BridgeSteps, AllPlaces,
       PairPlaces, HoldingSteps, tdVars, engVars
<1>22. ASSUME NEW c \in Calls, RegisterMedia(c) PROVE Sockets'
    <2>1. \A d \in Calls : Bound(d)' = Bound(d) /\ DeadTaps(d)' = DeadTaps(d)
        BY <1>0, <1>22 DEF RegisterMedia, Goto, Bound, DeadTaps, BoundSteps, HoldingSteps,
           AnchoredSteps, AllPlaces, PairPlaces, MediaTypes, PlaceTypes, dialogVars, tdVars,
           engVars
    <2> QED
        BY <1>0, <1>22, <2>1, SocketsKept DEF RegisterMedia, dialogVars, tdVars, engVars
<1>23. ASSUME NEW c \in Calls, RegisterRefused(c) PROVE Sockets'
    BY <1>0, <1>23, SocketsFail DEF RegisterRefused, Goto, BoundSteps, BridgeSteps, AllPlaces,
       PairPlaces, HoldingSteps, callVars, tdVars, engVars
<1>24. ASSUME NEW c \in Calls, DialPBX(c) PROVE Sockets'
    <2>1. \A d \in Calls : Bound(d)' = Bound(d) /\ DeadTaps(d)' = DeadTaps(d)
        BY <1>0, <1>24 DEF DialPBX, Goto, Bound, DeadTaps, BoundSteps, HoldingSteps,
           AnchoredSteps, AllPlaces, PairPlaces, MediaTypes, PlaceTypes, tdVars, engVars
    <2> QED
        BY <1>0, <1>24, <2>1, SocketsKept DEF DialPBX, tdVars, engVars
<1>25. ASSUME NEW c \in Calls, WaitAnswerPBX(c) PROVE Sockets'
    <2>1. \A d \in Calls : Bound(d)' = Bound(d) /\ DeadTaps(d)' = DeadTaps(d)
        BY <1>0, <1>25 DEF WaitAnswerPBX, Goto, Bound, DeadTaps, BoundSteps, HoldingSteps,
           AnchoredSteps, AllPlaces, PairPlaces, MediaTypes, PlaceTypes, callVars, tdVars,
           engVars
    <2> QED
        BY <1>0, <1>25, <2>1, SocketsKept DEF WaitAnswerPBX, callVars, tdVars, engVars
<1>26. ASSUME NEW c \in Calls, PBXFails(c) PROVE Sockets'
    BY <1>0, <1>26, SocketsFail DEF PBXFails, Fail, Goto, BoundSteps, BridgeSteps, AllPlaces,
       PairPlaces, HoldingSteps, tdVars, engVars
<1>27. ASSUME NEW c \in Calls, HookPBX(c) PROVE Sockets'
    <2>1. \A d \in Calls : Bound(d)' = Bound(d) /\ DeadTaps(d)' = DeadTaps(d)
        BY <1>0, <1>27 DEF HookPBX, Goto, Bound, DeadTaps, BoundSteps, HoldingSteps,
           AnchoredSteps, AllPlaces, PairPlaces, MediaTypes, PlaceTypes, callVars, tdVars,
           engVars
    <2> QED
        BY <1>0, <1>27, <2>1, SocketsKept DEF HookPBX, callVars, tdVars, engVars
<1>28. ASSUME NEW c \in Calls, PBXAnswerUnparsed(c) PROVE Sockets'
    BY <1>0, <1>28, SocketsFail DEF PBXAnswerUnparsed, Fail, Goto, BoundSteps, BridgeSteps,
       AllPlaces, PairPlaces, HoldingSteps, tdVars, engVars
<1>29. ASSUME NEW c \in Calls, Establish(c) PROVE Sockets'
    <2>1. sess[c] # "none"
        BY <1>0, <1>29 DEF Establish, AllMedia, MediaPlaces, MediaSteps
    <2>2. /\ pc' = [pc EXCEPT ![c] = "answer"] /\ taps' = [taps EXCEPT ![c] = @ \cup pend[c]]
          /\ pend' = [pend EXCEPT ![c] = {}] /\ UNCHANGED <<cur, sess, fixed, open>>
        BY <1>29 DEF Establish, Goto
    <2>3. \A d \in Calls : d # c => Bound(d)' = Bound(d) /\ DeadTaps(d)' = DeadTaps(d)
        BY <1>0, <2>2 DEF Bound, DeadTaps, MediaTypes, PlaceTypes
    <2>4. /\ Bound(c)' \subseteq Bound(c)
          /\ Bound(c) \cup DeadTaps(c) \subseteq Bound(c)' \cup DeadTaps(c)'
        BY <1>0, <1>29, <2>1, <2>2 DEF Establish, Bound, DeadTaps, BoundSteps, MediaTypes,
           PlaceTypes
    <2> DEFINE None == {}
    <2>5. /\ None \subseteq Bound(c)
          /\ open' = open \ None
          /\ Bound(c)' \subseteq Bound(c) \ None
          /\ Bound(c) \cup DeadTaps(c) \subseteq Bound(c)' \cup DeadTaps(c)' \cup None
        BY <2>2, <2>4
    <2> HIDE DEF None
    <2> QED
        BY <1>0, <2>3, <2>5, SocketsMove
<1>30. ASSUME NEW c \in Calls, AnswerInbound(c) PROVE Sockets'
    <2>1. \A d \in Calls : Bound(d)' = Bound(d) /\ DeadTaps(d)' = DeadTaps(d)
        BY <1>0, <1>30 DEF AnswerInbound, Goto, Bound, DeadTaps, BoundSteps, HoldingSteps,
           AnchoredSteps, AllPlaces, PairPlaces, MediaTypes, PlaceTypes, callVars, tdVars,
           engVars
    <2> QED
        BY <1>0, <1>30, <2>1, SocketsKept DEF AnswerInbound, callVars, tdVars, engVars
<1>31. ASSUME NEW c \in Calls, AnswerFails(c) PROVE Sockets'
    <2>1. \A d \in Calls : Bound(d)' = Bound(d) /\ DeadTaps(d)' = DeadTaps(d)
        BY <1>0, <1>31 DEF AnswerFails, Goto, Bound, DeadTaps, BoundSteps, HoldingSteps,
           AnchoredSteps, AllPlaces, PairPlaces, MediaTypes, PlaceTypes, callVars, tdVars,
           engVars
    <2> QED
        BY <1>0, <1>31, <2>1, SocketsKept DEF AnswerFails, callVars, tdVars, engVars
<1>32. ASSUME NEW c \in Calls, AbortTeardown(c) PROVE Sockets'
    <2>1. \A d \in Calls : Bound(d)' = Bound(d) /\ DeadTaps(d)' = DeadTaps(d)
        BY <1>0, <1>32 DEF AbortTeardown, Teardown, Goto, Bound, DeadTaps, BoundSteps,
           HoldingSteps, AnchoredSteps, AllPlaces, PairPlaces, MediaTypes, PlaceTypes,
           dialogVars, engVars
    <2> QED
        BY <1>0, <1>32, <2>1, SocketsKept DEF AbortTeardown, dialogVars, engVars
<1>33. ASSUME NEW c \in Calls, BridgeReturns(c) PROVE Sockets'
    <2>1. \A d \in Calls : Bound(d)' = Bound(d) /\ DeadTaps(d)' = DeadTaps(d)
        BY <1>0, <1>33 DEF BridgeReturns, Goto, Bound, DeadTaps, BoundSteps, HoldingSteps,
           AnchoredSteps, AllPlaces, PairPlaces, MediaTypes, PlaceTypes, callVars, dialogVars,
           tdVars, engVars
    <2> QED
        BY <1>0, <1>33, <2>1, SocketsKept DEF BridgeReturns, callVars, dialogVars, tdVars,
           engVars
<1>34. ASSUME NEW c \in Calls, TeardownClose(c) PROVE Sockets'
    <2>1. CASE tdHook[c]
        <3>1. sess[c] \in {"open", "closed"}
            BY <1>0, <1>34, <2>1 DEF TeardownClose, HookTaken, MediaTypes
        <3>2. /\ open' = IF sess[c] = "open" THEN open \ (fixed[c] \cup taps[c]) ELSE open
              /\ sess' = [sess EXCEPT ![c] = "closed"]
              /\ UNCHANGED <<pc, cur, pend, fixed, taps>>
            BY <1>34, <2>1 DEF TeardownClose, bridgeVars
        <3> QED
            BY <1>0, <3>1, <3>2, SocketsClose
    <2>2. CASE ~tdHook[c]
        BY <1>0, <1>34, <2>2, SocketsKept DEF TeardownClose, Bound, DeadTaps, bridgeVars
    <2> QED
        BY <2>1, <2>2
<1>35. ASSUME NEW c \in Calls,
             \/ SkipUnrouted(c) \/ TeardownCancel(c) \/ TeardownRelease(c) \/ TeardownRemove(c)
             \/ TeardownByes(c) \/ CallerCancels(c) \/ CallerByes(c) \/ InboundHook(c)
      PROVE  Sockets'
    <2>1. UNCHANGED <<open, pc, cur, pend, sess, fixed, taps>>
        BY <1>35 DEF SkipUnrouted, TeardownCancel, TeardownRelease, TeardownRemove,
           TeardownByes, CallerCancels, CallerByes, InboundHook, callVars, bridgeVars,
           dialogVars, tdVars, engVars
    <2> QED
        BY <1>0, <2>1 DEF Sockets, Bound, DeadTaps
<1>36. ASSUME NEW c \in Calls,
             \/ Reap(c) \/ ShutdownCall(c)
      PROVE  Sockets'
    <2>1. UNCHANGED <<open, pc, cur, pend, sess, fixed, taps>>
        BY <1>36 DEF Reap, ShutdownCall, bridgeVars, dialogVars, engVars
    <2> QED
        BY <1>0, <2>1 DEF Sockets, Bound, DeadTaps
<1>37. ASSUME NEW c \in Calls, NEW l \in Legs, LegEnds(c, l) PROVE Sockets'
    <2>1. UNCHANGED <<open, pc, cur, pend, sess, fixed, taps>>
        BY <1>37 DEF LegEnds, callVars, bridgeVars, tdVars, engVars
    <2> QED
        BY <1>0, <2>1 DEF Sockets, Bound, DeadTaps
<1>38. ASSUME NEW c \in Calls, NEW l \in Legs, LegHook(c, l) PROVE Sockets'
    <2>1. UNCHANGED <<open, pc, cur, pend, sess, fixed, taps>>
        BY <1>38 DEF LegHook, bridgeVars, engVars
    <2> QED
        BY <1>0, <2>1 DEF Sockets, Bound, DeadTaps
<1>39. ASSUME RunCtxDone \/ Shutdown \/ Exit \/ UNCHANGED vars PROVE Sockets'
    <2>1. UNCHANGED <<open, pc, cur, pend, sess, fixed, taps>>
        BY <1>39 DEF RunCtxDone, Shutdown, Exit, vars, callVars, bridgeVars, dialogVars, tdVars,
           engVars
    <2> QED
        BY <1>0, <2>1 DEF Sockets, Bound, DeadTaps
<1>40. ASSUME NEW c \in Calls, RelayCloses(c) PROVE Sockets'
    <2>1. sess[c] \in {"open", "closed"}
        BY <1>0, <1>40 DEF RelayCloses, AllRelays, RelayPlaces, MediaTypes
    <2>2. UNCHANGED <<pc, cur, pend, fixed, taps>> /\ sess' = [sess EXCEPT ![c] = "closed"]
        BY <1>40 DEF RelayCloses, bridgeVars
    <2> QED
        BY <1>0, <1>40, <2>1, <2>2, SocketsClose DEF RelayCloses
<1> QED
    BY <1>1, <1>2, <1>3, <1>4, <1>5, <1>6, <1>7, <1>8, <1>9, <1>10, <1>11, <1>12, <1>13, <1>14,
       <1>15, <1>16, <1>17, <1>18, <1>19, <1>20, <1>21, <1>22, <1>23, <1>24, <1>25, <1>26,
       <1>27, <1>28, <1>29, <1>30, <1>31, <1>32, <1>33, <1>34, <1>35, <1>36, <1>37, <1>38,
       <1>39, <1>40
       DEF Next, CallStep, Bridge, TeardownStep, Exited

\* What PoolIsUnbound needs, with the ownership of the pairs.
SocketInv == PairInv /\ HookTaken /\ AllMedia /\ AllRelays /\ Sockets

\* It holds before the first call ...
LEMMA InitSockets == Init => SocketInv
<1> SUFFICES ASSUME Init PROVE SocketInv
    OBVIOUS
<1>1. AllPlaces
    BY DEF Init, AllPlaces, PairPlaces, HoldingSteps, AnchoredSteps
<1>2. PairOwnedOnce
    BY DEF Init, PoolInit, PairOwnedOnce, Owned
<1>3. HookTaken /\ AllMedia /\ AllRelays
    BY DEF Init, HookTaken, AllMedia, MediaPlaces, MediaSteps, ReleasedSteps, AllRelays, RelayPlaces
<1>4. Sockets
    BY DEF Init, Sockets, Bound, BoundSteps
<1> QED
    BY <1>1, <1>2, <1>3, <1>4, InitType DEF SocketInv, PairInv

\* ... and every step keeps it.
LEMMA SocketInvStep == SocketInv /\ [Next]_vars => SocketInv'
BY TypeStep, PlacesStep, OwnedStep, HookStep, MediaStep, RelayStep, SocketsStep
   DEF SocketInv, PairInv

\* The pool never hands out a pair whose socket is still bound, other than one of a tap
\* that the PBX's answer added to a session that teardown had closed already: acquireTap
\* and newAnchorSide fail to bind in no other case.
THEOREM PoolIsUnbound == Spec => []FreeIsUnboundUnlessLateTap
<1>1. SocketInv => FreeIsUnboundUnlessLateTap
    <2> SUFFICES ASSUME SocketInv, NEW p \in open, free[p] > 0
                 PROVE  \E c \in Calls : sess[c] = "closed" /\ p \in taps[c]
        BY DEF FreeIsUnboundUnlessLateTap
    <2>0. MediaTypes /\ AllPlaces /\ AllMedia /\ PairOwnedOnce /\ Sockets
        BY DEF SocketInv, PairInv, TypeInv, TypeOK, MediaTypes, PlaceTypes
    <2>1. PICK c \in Calls : p \in Bound(c) \cup DeadTaps(c)
        BY <2>0 DEF Sockets
    <2>2. p \notin Owned(c)
        BY <2>0 DEF PairOwnedOnce, MediaTypes, PlaceTypes
    <2>3. p \in DeadTaps(c)
        BY <2>0, <2>1, <2>2, BoundApart
    <2> QED
        BY <2>3 DEF DeadTaps
<1> QED
    BY <1>1, InitSockets, SocketInvStep, PTL DEF Spec

-----------------------------------------------------------------------------
(* The registry: whatever the bridge, the dialogs' hooks, the reaper and Shutdown do to a
   call, the registry and the call's state show one legal life to their users. *)

\* The state, the teardown and the registry are kept under three different locks: a call
\* that is not yet tearing down, or whose teardown has not reached reg.remove, is in the
\* registry.
Registered ==
    \A c \in Calls :
        /\ state[c] \in {"setup", "established"} => c \in calls
        /\ td[c] \in {"committed", "cancelled", "closed", "released"} => c \in calls

LifeInv == TypeInv /\ AllPlaces /\ Registered

LifeTypes ==
    /\ state \in [Calls -> CallStates]
    /\ td \in [Calls -> TeardownSteps]
    /\ calls \subseteq Calls

\* What the steps do that neither touch a call's state nor its registration.
LEMMA LifeUnchanged ==
    ASSUME Registered, UNCHANGED <<state, calls, td>>
    PROVE  Registered' /\ [Lifecycle!Next]_(Lifecycle!vars)
BY DEF Registered, Lifecycle!vars

\* Committing a teardown is the lifecycle's End, and finding it committed a stutter.
LEMMA LifeTeardown ==
    ASSUME LifeTypes, Registered, NEW c \in Calls, NEW why, Teardown(c, why), UNCHANGED calls
    PROVE  Registered' /\ [Lifecycle!Next]_(Lifecycle!vars)
<1>1. CASE CanTransition(state[c], "tearingDown")
    <2>1. state[c] \in {"setup", "established"}
        BY <1>1 DEF CanTransition
    <2>2. /\ state' = [state EXCEPT ![c] = "tearingDown"]
          /\ td' = [td EXCEPT ![c] = "committed"]
        BY <1>1 DEF Teardown
    <2>3. Lifecycle!End(c)
        BY <2>1, <2>2 DEF Lifecycle!End
    <2>4. Registered'
        BY <2>1, <2>2 DEF Registered, LifeTypes
    <2> QED
        BY <2>3, <2>4 DEF Lifecycle!Next
<1>2. CASE ~CanTransition(state[c], "tearingDown")
    BY <1>2, LifeUnchanged DEF Teardown
<1> QED
    BY <1>1, <1>2

\* Every step keeps the registry in step and is a step of the lifecycle, or none.
LEMMA LifeStep ==
    LifeInv /\ [Next]_vars => Registered' /\ [Lifecycle!Next]_(Lifecycle!vars)
<1> DEFINE Goal == Registered' /\ [Lifecycle!Next]_(Lifecycle!vars)
<1> SUFFICES ASSUME LifeInv, [Next]_vars PROVE Goal
    OBVIOUS
<1>0. LifeTypes /\ Registered /\ AllPlaces
    BY DEF LifeInv, LifeTypes, TypeInv, TypeOK
<1>1. ASSUME NEW c \in Calls, NEW o \in Offers, NEW R \in SUBSET Apps, HandleInvite(c, o, R)
      PROVE  Goal
    <2>1. state[c] = "none" /\ td[c] = "none"
        BY <1>0, <1>1 DEF HandleInvite, AllPlaces, PairPlaces
    <2>2. state' = [state EXCEPT ![c] = "setup"] /\ calls' = calls \cup {c} /\ td' = td
        BY <1>1 DEF HandleInvite, tdVars
    <2>3. Lifecycle!Admit(c)
        BY <2>1, <2>2 DEF Lifecycle!Admit
    <2>4. Registered'
        BY <1>0, <2>2 DEF Registered, LifeTypes
    <2> QED
        BY <2>3, <2>4 DEF Lifecycle!Next
<1>2. ASSUME NEW c \in Calls, Establish(c) PROVE Goal
    <2>1. CASE state[c] = "setup"
        <3>1. c \in calls
            BY <1>0, <2>1 DEF Registered
        <3>2. /\ state' = [state EXCEPT ![c] = "established"]
              /\ calls' = calls /\ td' = td
            BY <1>2, <2>1 DEF Establish, CanTransition, tdVars
        <3>3. Lifecycle!Establish(c)
            BY <2>1, <3>1, <3>2 DEF Lifecycle!Establish
        <3>4. Registered'
            BY <1>0, <3>1, <3>2 DEF Registered, LifeTypes
        <3> QED
            BY <3>3, <3>4 DEF Lifecycle!Next
    <2>2. CASE state[c] # "setup"
        <3>1. state' = state /\ calls' = calls /\ td' = td
            BY <1>0, <1>2, <2>2 DEF Establish, CanTransition, tdVars, LifeTypes
        <3> QED
            BY <1>0, <3>1, LifeUnchanged
    <2> QED
        BY <2>1, <2>2
<1>3. ASSUME NEW c \in Calls, TeardownRemove(c) PROVE Goal
    <2>1. state[c] = "tearingDown" /\ c \in calls
        BY <1>0, <1>3 DEF TeardownRemove, Registered, AllPlaces, PairPlaces
    <2>2. state' = state /\ calls' = calls \ {c} /\ td' = [td EXCEPT ![c] = "removed"]
        BY <1>3 DEF TeardownRemove
    <2>3. Lifecycle!Remove(c)
        BY <2>1, <2>2 DEF Lifecycle!Remove
    <2>4. Registered'
        BY <1>0, <2>1, <2>2 DEF Registered, LifeTypes
    <2> QED
        BY <2>3, <2>4 DEF Lifecycle!Next
<1>4. ASSUME NEW c \in Calls,
             AbortTeardown(c) \/ InboundHook(c) \/ Reap(c) \/ ShutdownCall(c)
      PROVE  Goal
    BY <1>0, <1>4, LifeTeardown DEF AbortTeardown, InboundHook, Reap, ShutdownCall
<1>5. ASSUME NEW c \in Calls, NEW l \in Legs, LegHook(c, l) PROVE Goal
    BY <1>0, <1>5, LifeTeardown DEF LegHook
<1>6. ASSUME NEW c \in Calls,
             TeardownCancel(c) \/ TeardownClose(c) \/ TeardownRelease(c) \/ TeardownByes(c)
      PROVE  Goal
    <2>1. UNCHANGED <<state, calls>>
        BY <1>6 DEF TeardownCancel, TeardownClose, TeardownRelease, TeardownByes, callVars
    <2>2. Registered'
        BY <1>0, <1>6, <2>1
           DEF TeardownCancel, TeardownClose, TeardownRelease, TeardownByes, Registered, LifeTypes
    <2> QED
        BY <2>1, <2>2 DEF Lifecycle!vars
<1>7. ASSUME NEW c \in Calls,
             \/ HookInbound(c) \/ SkipUnrouted(c) \/ BadAppURI(c) \/ AcquireTapCaller(c)
             \/ AcquireTapCallee(c) \/ BindTap(c) \/ TapSetupFails(c) \/ OfferInactive(c)
             \/ BuildOfferFails(c)
      PROVE  Goal
    <2>1. UNCHANGED <<state, calls, td>>
        BY <1>7 DEF HookInbound, SkipUnrouted, BadAppURI, AcquireTapCaller,
           AcquireTapCallee, BindTap, TapSetupFails, OfferInactive, BuildOfferFails, callVars,
           tdVars
    <2> QED
        BY <1>0, <2>1, LifeUnchanged
<1>8. ASSUME NEW c \in Calls,
             \/ DialApp(c) \/ WaitAnswerApp(c) \/ AppLegFails(c) \/ AppendAppLeg(c)
             \/ TapAnswerUnparsed(c) \/ HookAppLeg(c) \/ ChainDone(c)
      PROVE  Goal
    <2>1. UNCHANGED <<state, calls, td>>
        BY <1>8 DEF DialApp, WaitAnswerApp, AppLegFails, AppendAppLeg, TapAnswerUnparsed,
           HookAppLeg, ChainDone, callVars, tdVars
    <2> QED
        BY <1>0, <2>1, LifeUnchanged
<1>9. ASSUME NEW c \in Calls,
             \/ AnchorEndpoint(c) \/ AnchorWebRTC(c) \/ AnchorPBX(c) \/ BindAnchor(c)
             \/ AnchorFails(c) \/ RegisterMedia(c) \/ RegisterRefused(c)
      PROVE  Goal
    <2>1. UNCHANGED <<state, calls, td>>
        BY <1>9 DEF AnchorEndpoint, AnchorWebRTC, AnchorPBX, BindAnchor, AnchorFails,
           RegisterMedia, RegisterRefused, callVars, tdVars
    <2> QED
        BY <1>0, <2>1, LifeUnchanged
<1>10. ASSUME NEW c \in Calls,
             \/ DialPBX(c) \/ WaitAnswerPBX(c) \/ PBXFails(c) \/ HookPBX(c)
             \/ PBXAnswerUnparsed(c) \/ AnswerInbound(c) \/ AnswerFails(c) \/ BridgeReturns(c)
             \/ CallerCancels(c) \/ CallerByes(c)
      PROVE  Goal
    <2>1. UNCHANGED <<state, calls, td>>
        BY <1>10 DEF DialPBX, WaitAnswerPBX, PBXFails, HookPBX, PBXAnswerUnparsed,
           AnswerInbound, AnswerFails, BridgeReturns, CallerCancels, CallerByes, callVars,
           tdVars
    <2> QED
        BY <1>0, <2>1, LifeUnchanged
<1>11. ASSUME NEW c \in Calls, NEW l \in Legs, LegEnds(c, l) PROVE Goal
    BY <1>0, <1>11, LifeUnchanged DEF LegEnds, callVars, tdVars
<1>12. ASSUME RunCtxDone \/ Shutdown \/ Exit \/ UNCHANGED vars PROVE Goal
    BY <1>0, <1>12, LifeUnchanged DEF RunCtxDone, Shutdown, Exit, vars, callVars, tdVars
<1>13. ASSUME NEW c \in Calls, RelayCloses(c) PROVE Goal
    <2>1. UNCHANGED <<state, calls, td>>
        BY <1>13 DEF RelayCloses, tdVars
    <2> QED
        BY <1>0, <2>1, LifeUnchanged
<1> HIDE DEF Goal
<1> QED
    BY <1>1, <1>2, <1>3, <1>4, <1>5, <1>6, <1>7, <1>8, <1>9, <1>10, <1>11, <1>12, <1>13
       DEF Next, CallStep, Bridge, TeardownStep, Exited

\* Every behaviour of the bridge is a behaviour of the lifecycle: a call is
\* established only while it is registered and setting up, never comes back from
\* its teardown, and is removed once.
THEOREM ImplementsLifecycle == Spec => RefinesLifecycle
<1>1. Init => LifeInv /\ Lifecycle!Init
    <2>1. Init => AllPlaces
        BY DEF Init, AllPlaces, PairPlaces, HoldingSteps, AnchoredSteps
    <2>2. Init => Registered /\ Lifecycle!Init
        BY DEF Init, Registered, Lifecycle!Init
    <2> QED
        BY <2>1, <2>2, InitType DEF LifeInv
<1>2. LifeInv /\ [Next]_vars => LifeInv' /\ [Lifecycle!Next]_(Lifecycle!vars)
    BY TypeStep, PlacesStep, LifeStep DEF LifeInv
<1> QED
    BY <1>1, <1>2, PTL DEF Spec, RefinesLifecycle, Lifecycle!Spec

-----------------------------------------------------------------------------
(* What teardown finds *)

\* A teardown that did not interrupt the setup found the goroutine past Establish or
\* failed, with nothing pending: the release hook then sees every tap.
SettledCall(c) ==
    td[c] # "none" /\ ~SetupInterrupted(c) =>
        /\ pc[c] \in SettledSteps
        /\ pend[c] = {}
        /\ td[c] \in ReleasedSteps => taps[c] \subseteq returned[c]

AllSettled == \A c \in Calls : SettledCall(c)

\* The types SettledCall depends on.
SettledTypes ==
    /\ MediaTypes
    /\ legs \in [Calls -> SUBSET Legs]
    /\ tdLegs \in [Calls -> SUBSET (Legs \cup {Inbound})]
    /\ cause \in [Calls -> Causes]

\* Teardown lists the caller's dialog exactly when the call is established.
LEMMA LiveInbound ==
    ASSUME legs \in [Calls -> SUBSET Legs], NEW c \in Calls
    PROVE  Inbound \in LiveDialogs(c) <=> state[c] = "established"
<1>1. Inbound \notin Legs
    BY ConfigAssumption DEF Inbound, Legs, PBX
<1>2. Inbound \notin legs[c]
    BY <1>1
<1> QED
    BY <1>2 DEF LiveDialogs

\* The committed teardown of an established or a failed call interrupts nothing; that
\* of any other call does.
LEMMA SettledTeardown ==
    ASSUME SettledTypes, AllPlaces, AllMedia, AllSettled, NEW c \in Calls, NEW why \in Causes,
           why = "bridge" => pc[c] = "abort", Teardown(c, why),
           UNCHANGED <<pend, taps, returned>>,
           pc' = pc \/ (pc[c] = "abort" /\ pc' = [pc EXCEPT ![c] = "done"])
    PROVE  AllSettled'
<1> SUFFICES ASSUME NEW d \in Calls PROVE SettledCall(d)'
    BY DEF AllSettled
<1>1. SettledCall(d) /\ MediaPlaces(d) /\ PairPlaces(d)
    BY DEF AllSettled, AllMedia, AllPlaces
<1>2. CASE CanTransition(state[c], "tearingDown")
    <2>1. /\ td' = [td EXCEPT ![c] = "committed"]
          /\ tdLegs' = [tdLegs EXCEPT ![c] = LiveDialogs(c)]
          /\ cause' = [cause EXCEPT ![c] = why]
        BY <1>2 DEF Teardown
    <2>2. CASE d = c
        <3>1. Inbound \in tdLegs'[c] <=> state[c] = "established"
            BY <2>1, LiveInbound DEF SettledTypes
        <3>2. ~SetupInterrupted(c)' => state[c] = "established" \/ pc[c] = "abort"
            BY <2>1, <3>1 DEF SetupInterrupted, SettledTypes, MediaTypes
        <3> QED
            BY <1>1, <2>1, <2>2, <3>2 DEF SettledCall, MediaPlaces, SettledTypes, MediaTypes,
               PlaceTypes, SettledSteps, ReleasedSteps
    <2>3. CASE d # c
        BY <1>1, <2>1, <2>3 DEF SettledCall, SetupInterrupted, SettledTypes, MediaTypes,
           PlaceTypes, SettledSteps
    <2> QED
        BY <2>2, <2>3
<1>3. CASE ~CanTransition(state[c], "tearingDown")
    BY <1>1, <1>3 DEF Teardown, SettledCall, SetupInterrupted, SettledTypes, MediaTypes,
       PlaceTypes, SettledSteps
<1> QED
    BY <1>2, <1>3

\* A failing step settles the goroutine, or goes back to a chain that was not settled.
LEMMA SettledFail ==
    ASSUME SettledTypes, AllSettled, NEW c \in Calls,
           \/ pc' = [pc EXCEPT ![c] = "abort"] /\ pend' = [pend EXCEPT ![c] = {}]
           \/ pc' = [pc EXCEPT ![c] = "chain"] /\ pend' = pend /\ pc[c] \notin SettledSteps,
           UNCHANGED <<td, tdLegs, cause, taps, returned>>
    PROVE  AllSettled'
BY DEF AllSettled, SettledCall, SetupInterrupted, SettledTypes, MediaTypes, PlaceTypes,
   SettledSteps

\* Every step keeps an uninterrupted call settled.
LEMMA SettledStep ==
    TypeInv /\ AllPlaces /\ HookTaken /\ AllMedia /\ AllSettled /\ [Next]_vars => AllSettled'
<1> SUFFICES ASSUME TypeInv, AllPlaces, HookTaken, AllMedia, AllSettled, [Next]_vars
             PROVE  AllSettled'
    OBVIOUS
<1>0. SettledTypes /\ AllPlaces /\ AllMedia /\ AllSettled
    BY DEF TypeInv, TypeOK, SettledTypes, MediaTypes, PlaceTypes
<1>1. ASSUME NEW c \in Calls, NEW o \in Offers, NEW R \in SUBSET Apps, HandleInvite(c, o, R)
   PROVE AllSettled'
    BY <1>0, <1>1 DEF HandleInvite, Goto, AllSettled, SettledCall, SetupInterrupted,
       SettledTypes, MediaTypes, PlaceTypes, SettledSteps, AllPlaces, PairPlaces, tdVars,
       engVars
<1>2. ASSUME NEW c \in Calls, HookInbound(c) PROVE AllSettled'
    BY <1>0, <1>2 DEF HookInbound, Goto, AllSettled, SettledCall, SetupInterrupted,
       SettledTypes, MediaTypes, PlaceTypes, SettledSteps, callVars, dialogVars, tdVars, engVars
<1>3. ASSUME NEW c \in Calls, BadAppURI(c) PROVE AllSettled'
    BY <1>0, <1>3, SettledFail DEF BadAppURI, Fail, Goto, tdVars, engVars
<1>4. ASSUME NEW c \in Calls, AcquireTapCaller(c) PROVE AllSettled'
    BY <1>0, <1>4 DEF AcquireTapCaller, AcquirePair, AtApp, Goto, AllSettled, SettledCall,
       SetupInterrupted, SettledTypes, MediaTypes, PlaceTypes, SettledSteps, callVars,
       dialogVars, tdVars, engVars
<1>5. ASSUME NEW c \in Calls, AcquireTapCallee(c) PROVE AllSettled'
    BY <1>0, <1>5 DEF AcquireTapCallee, AcquirePair, Goto, AllSettled, SettledCall,
       SetupInterrupted, SettledTypes, MediaTypes, PlaceTypes, SettledSteps, callVars,
       dialogVars, tdVars, engVars
<1>6. ASSUME NEW c \in Calls, BindTap(c) PROVE AllSettled'
    BY <1>0, <1>6 DEF BindTap, BindPairs, Goto, AllSettled, SettledCall, SetupInterrupted,
       SettledTypes, MediaTypes, PlaceTypes, SettledSteps, callVars, dialogVars, tdVars, engVars
<1>7. ASSUME NEW c \in Calls, TapSetupFails(c) PROVE AllSettled'
    BY <1>0, <1>7, SettledFail DEF TapSetupFails, AtApp, AppFailed, Fail, Goto, SettledSteps,
       tdVars, engVars
<1>8. ASSUME NEW c \in Calls, OfferInactive(c) PROVE AllSettled'
    BY <1>0, <1>8 DEF OfferInactive, AtApp, Goto, AllSettled, SettledCall, SetupInterrupted,
       SettledTypes, MediaTypes, PlaceTypes, SettledSteps, callVars, dialogVars, tdVars, engVars
<1>9. ASSUME NEW c \in Calls, BuildOfferFails(c) PROVE AllSettled'
    BY <1>0, <1>9, SettledFail DEF BuildOfferFails, Fail, Goto, tdVars, engVars
<1>10. ASSUME NEW c \in Calls, DialApp(c) PROVE AllSettled'
    BY <1>0, <1>10 DEF DialApp, Goto, AllSettled, SettledCall, SetupInterrupted, SettledTypes,
       MediaTypes, PlaceTypes, SettledSteps, callVars, tdVars, engVars
<1>11. ASSUME NEW c \in Calls, WaitAnswerApp(c) PROVE AllSettled'
    BY <1>0, <1>11 DEF WaitAnswerApp, Goto, AllSettled, SettledCall, SetupInterrupted,
       SettledTypes, MediaTypes, PlaceTypes, SettledSteps, callVars, tdVars, engVars
<1>12. ASSUME NEW c \in Calls, AppLegFails(c) PROVE AllSettled'
    BY <1>0, <1>12, SettledFail DEF AppLegFails, AppFailed, Fail, Goto, SettledSteps, tdVars,
       engVars
<1>13. ASSUME NEW c \in Calls, AppendAppLeg(c) PROVE AllSettled'
    BY <1>0, <1>13 DEF AppendAppLeg, Goto, AllSettled, SettledCall, SetupInterrupted,
       SettledTypes, MediaTypes, PlaceTypes, SettledSteps, dialogVars, tdVars, engVars
<1>14. ASSUME NEW c \in Calls, TapAnswerUnparsed(c) PROVE AllSettled'
    BY <1>0, <1>14 DEF TapAnswerUnparsed, Goto, AllSettled, SettledCall, SetupInterrupted,
       SettledTypes, MediaTypes, PlaceTypes, SettledSteps, dialogVars, tdVars, engVars
<1>15. ASSUME NEW c \in Calls, HookAppLeg(c) PROVE AllSettled'
    BY <1>0, <1>15 DEF HookAppLeg, Goto, AllSettled, SettledCall, SetupInterrupted,
       SettledTypes, MediaTypes, PlaceTypes, SettledSteps, callVars, tdVars, engVars
<1>16. ASSUME NEW c \in Calls, ChainDone(c) PROVE AllSettled'
    BY <1>0, <1>16 DEF ChainDone, Goto, AllSettled, SettledCall, SetupInterrupted, SettledTypes,
       MediaTypes, PlaceTypes, SettledSteps, callVars, dialogVars, tdVars, engVars
<1>17. ASSUME NEW c \in Calls, AnchorEndpoint(c) PROVE AllSettled'
    BY <1>0, <1>17 DEF AnchorEndpoint, AcquirePair, Goto, AllSettled, SettledCall,
       SetupInterrupted, SettledTypes, MediaTypes, PlaceTypes, SettledSteps, callVars,
       dialogVars, tdVars, engVars
<1>18. ASSUME NEW c \in Calls, AnchorWebRTC(c) PROVE AllSettled'
    BY <1>0, <1>18 DEF AnchorWebRTC, Goto, AllSettled, SettledCall, SetupInterrupted,
       SettledTypes, MediaTypes, PlaceTypes, SettledSteps, dialogVars, tdVars, engVars
<1>19. ASSUME NEW c \in Calls, AnchorPBX(c) PROVE AllSettled'
    BY <1>0, <1>19 DEF AnchorPBX, AcquirePair, Goto, AllSettled, SettledCall, SetupInterrupted,
       SettledTypes, MediaTypes, PlaceTypes, SettledSteps, callVars, dialogVars, tdVars, engVars
<1>20. ASSUME NEW c \in Calls, BindAnchor(c) PROVE AllSettled'
    BY <1>0, <1>20 DEF BindAnchor, BindPairs, Goto, AllSettled, SettledCall, SetupInterrupted,
       SettledTypes, MediaTypes, PlaceTypes, SettledSteps, callVars, dialogVars, tdVars, engVars
<1>21. ASSUME NEW c \in Calls, AnchorFails(c) PROVE AllSettled'
    BY <1>0, <1>21, SettledFail DEF AnchorFails, Fail, Goto, tdVars, engVars
<1>22. ASSUME NEW c \in Calls, RegisterMedia(c) PROVE AllSettled'
    BY <1>0, <1>22 DEF RegisterMedia, Goto, AllSettled, SettledCall, SetupInterrupted,
       SettledTypes, MediaTypes, PlaceTypes, SettledSteps, dialogVars, tdVars, engVars
<1>23. ASSUME NEW c \in Calls, RegisterRefused(c) PROVE AllSettled'
    BY <1>0, <1>23 DEF RegisterRefused, Goto, AllSettled, SettledCall, SetupInterrupted,
       SettledTypes, MediaTypes, PlaceTypes, SettledSteps, callVars, tdVars, engVars
<1>24. ASSUME NEW c \in Calls, DialPBX(c) PROVE AllSettled'
    BY <1>0, <1>24 DEF DialPBX, Goto, AllSettled, SettledCall, SetupInterrupted, SettledTypes,
       MediaTypes, PlaceTypes, SettledSteps, tdVars, engVars
<1>25. ASSUME NEW c \in Calls, WaitAnswerPBX(c) PROVE AllSettled'
    BY <1>0, <1>25 DEF WaitAnswerPBX, Goto, AllSettled, SettledCall, SetupInterrupted,
       SettledTypes, MediaTypes, PlaceTypes, SettledSteps, callVars, tdVars, engVars
<1>26. ASSUME NEW c \in Calls, PBXFails(c) PROVE AllSettled'
    BY <1>0, <1>26, SettledFail DEF PBXFails, Fail, Goto, tdVars, engVars
<1>27. ASSUME NEW c \in Calls, HookPBX(c) PROVE AllSettled'
    BY <1>0, <1>27 DEF HookPBX, Goto, AllSettled, SettledCall, SetupInterrupted, SettledTypes,
       MediaTypes, PlaceTypes, SettledSteps, callVars, tdVars, engVars
<1>28. ASSUME NEW c \in Calls, PBXAnswerUnparsed(c) PROVE AllSettled'
    BY <1>0, <1>28, SettledFail DEF PBXAnswerUnparsed, Fail, Goto, tdVars, engVars
<1>29. ASSUME NEW c \in Calls, Establish(c) PROVE AllSettled'
    BY <1>0, <1>29 DEF Establish, CanTransition, Goto, AllSettled, SettledCall,
       SetupInterrupted, SettledTypes, MediaTypes, PlaceTypes, SettledSteps, dialogVars, tdVars,
       engVars
<1>30. ASSUME NEW c \in Calls, AnswerInbound(c) PROVE AllSettled'
    BY <1>0, <1>30 DEF AnswerInbound, Goto, AllSettled, SettledCall, SetupInterrupted,
       SettledTypes, MediaTypes, PlaceTypes, SettledSteps, callVars, tdVars, engVars
<1>31. ASSUME NEW c \in Calls, AnswerFails(c) PROVE AllSettled'
    BY <1>0, <1>31 DEF AnswerFails, Goto, AllSettled, SettledCall, SetupInterrupted,
       SettledTypes, MediaTypes, PlaceTypes, SettledSteps, callVars, tdVars, engVars
<1>32. ASSUME NEW c \in Calls, AbortTeardown(c) PROVE AllSettled'
    BY <1>0, <1>32, SettledTeardown DEF AbortTeardown, Causes, Goto, dialogVars, engVars
<1>33. ASSUME NEW c \in Calls, BridgeReturns(c) PROVE AllSettled'
    BY <1>0, <1>33 DEF BridgeReturns, Goto, AllSettled, SettledCall, SetupInterrupted,
       SettledTypes, MediaTypes, PlaceTypes, SettledSteps, callVars, dialogVars, tdVars, engVars
<1>34. ASSUME NEW c \in Calls, TeardownCancel(c) PROVE AllSettled'
    BY <1>0, <1>34 DEF TeardownCancel, AllSettled, SettledCall, SetupInterrupted, SettledTypes,
       MediaTypes, PlaceTypes, SettledSteps, ReleasedSteps, callVars, bridgeVars, dialogVars,
       engVars
<1>35. ASSUME NEW c \in Calls, TeardownClose(c) PROVE AllSettled'
    BY <1>0, <1>35 DEF TeardownClose, AllSettled, SettledCall, SetupInterrupted, SettledTypes,
       MediaTypes, PlaceTypes, SettledSteps, ReleasedSteps, bridgeVars, dialogVars, engVars
<1>36. ASSUME NEW c \in Calls, TeardownRelease(c) PROVE AllSettled'
    <2>1. tdHook[c] \/ taps[c] = {}
        BY <1>0, <1>36 DEF TeardownRelease, HookTaken, AllMedia, MediaPlaces
    <2>2. CASE tdHook[c]
        <3>1. /\ td' = [td EXCEPT ![c] = "released"]
              /\ returned' = [returned EXCEPT ![c] = @ \cup fixed[c] \cup taps[c]]
            BY <1>36, <2>2 DEF TeardownRelease
        <3> QED
            BY <1>0, <1>36, <3>1 DEF TeardownRelease, AllSettled, SettledCall, SetupInterrupted,
               SettledTypes, MediaTypes, PlaceTypes, callVars, bridgeVars
    <2>3. CASE ~tdHook[c] /\ taps[c] = {}
        <3>1. td' = [td EXCEPT ![c] = "released"] /\ returned' = returned
            BY <1>36, <2>3 DEF TeardownRelease
        <3> QED
            BY <1>0, <1>36, <2>3, <3>1 DEF TeardownRelease, AllSettled, SettledCall,
               SetupInterrupted, SettledTypes, MediaTypes, PlaceTypes, callVars, bridgeVars
    <2> QED
        BY <2>1, <2>2, <2>3
<1>37. ASSUME NEW c \in Calls, TeardownRemove(c) PROVE AllSettled'
    BY <1>0, <1>37 DEF TeardownRemove, AllSettled, SettledCall, SetupInterrupted, SettledTypes,
       MediaTypes, PlaceTypes, SettledSteps, ReleasedSteps, bridgeVars, dialogVars, engVars
<1>38. ASSUME NEW c \in Calls, TeardownByes(c) PROVE AllSettled'
    BY <1>0, <1>38 DEF TeardownByes, AllSettled, SettledCall, SetupInterrupted, SettledTypes,
       MediaTypes, PlaceTypes, SettledSteps, ReleasedSteps, callVars, bridgeVars
<1>39. ASSUME NEW c \in Calls, InboundHook(c) PROVE AllSettled'
    BY <1>0, <1>39, SettledTeardown DEF InboundHook, Causes, bridgeVars, engVars
<1>40. ASSUME NEW c \in Calls, NEW l \in Legs, LegHook(c, l) PROVE AllSettled'
    BY <1>0, <1>40, SettledTeardown DEF LegHook, Causes, bridgeVars, engVars
<1>41. ASSUME NEW c \in Calls, Reap(c) PROVE AllSettled'
    BY <1>0, <1>41, SettledTeardown DEF Reap, Causes, bridgeVars, dialogVars, engVars
<1>42. ASSUME NEW c \in Calls, ShutdownCall(c) PROVE AllSettled'
    BY <1>0, <1>42, SettledTeardown DEF ShutdownCall, Causes, bridgeVars, dialogVars
<1>43. ASSUME NEW c \in Calls,
             \/ SkipUnrouted(c) \/ CallerCancels(c) \/ CallerByes(c)
      PROVE  AllSettled'
    <2>1. UNCHANGED <<td, tdLegs, cause, pc, pend, taps, returned>>
        BY <1>43 DEF SkipUnrouted, CallerCancels, CallerByes, callVars, bridgeVars, dialogVars,
           tdVars, engVars
    <2> QED
        BY <1>0, <2>1 DEF AllSettled, SettledCall, SetupInterrupted
<1>44. ASSUME NEW c \in Calls, NEW l \in Legs, LegEnds(c, l) PROVE AllSettled'
    <2>1. UNCHANGED <<td, tdLegs, cause, pc, pend, taps, returned>>
        BY <1>44 DEF LegEnds, callVars, bridgeVars, tdVars, engVars
    <2> QED
        BY <1>0, <2>1 DEF AllSettled, SettledCall, SetupInterrupted
<1>45. ASSUME RunCtxDone \/ Shutdown \/ Exit \/ UNCHANGED vars PROVE AllSettled'
    <2>1. UNCHANGED <<td, tdLegs, cause, pc, pend, taps, returned>>
        BY <1>45 DEF RunCtxDone, Shutdown, Exit, vars, callVars, bridgeVars, dialogVars, tdVars,
           engVars
    <2> QED
        BY <1>0, <2>1 DEF AllSettled, SettledCall, SetupInterrupted
<1>46. ASSUME NEW c \in Calls, RelayCloses(c) PROVE AllSettled'
    <2>1. UNCHANGED <<td, tdLegs, cause, pc, pend, taps, returned>>
        BY <1>46 DEF RelayCloses, callVars, bridgeVars, dialogVars, tdVars
    <2> QED
        BY <1>0, <2>1 DEF AllSettled, SettledCall, SetupInterrupted
<1> QED
    BY <1>1, <1>2, <1>3, <1>4, <1>5, <1>6, <1>7, <1>8, <1>9, <1>10, <1>11, <1>12, <1>13, <1>14,
       <1>15, <1>16, <1>17, <1>18, <1>19, <1>20, <1>21, <1>22, <1>23, <1>24, <1>25, <1>26,
       <1>27, <1>28, <1>29, <1>30, <1>31, <1>32, <1>33, <1>34, <1>35, <1>36, <1>37, <1>38,
       <1>39, <1>40, <1>41, <1>42, <1>43, <1>44, <1>45, <1>46
       DEF Next, CallStep, Bridge, TeardownStep, Exited

-----------------------------------------------------------------------------
(* The final response *)

\* The final response is owed until the goroutine has failed or answered, and is never
\* sent only if registerMedia is refused to an interrupted setup.
Replied(c) ==
    /\ inb[c] = "dropped" => pc[c] = "done"
    /\ pc[c] \in {"abort", "relay"} => inb[c] # "pending"
    /\ pc[c] = "done" /\ ~SetupInterrupted(c) => inb[c] \notin {"pending", "dropped"}

AllReplied == \A c \in Calls : Replied(c)

ReplyTypes ==
    /\ SettledTypes
    /\ inb \in [Calls -> InboundStates]

\* A failing step rejects the INVITE, unless the chain goes on.
LEMMA RepliedFail ==
    ASSUME ReplyTypes, AllReplied, NEW c \in Calls, pc[c] # "done",
           \/ pc' = [pc EXCEPT ![c] = "abort"] /\ Reject(c)
           \/ pc' = [pc EXCEPT ![c] = "chain"] /\ inb' = inb,
           UNCHANGED <<td, tdLegs, cause>>
    PROVE  AllReplied'
BY DEF AllReplied, Replied, SetupInterrupted, Reject, ReplyTypes, SettledTypes, MediaTypes,
   PlaceTypes

\* A teardown, and the CANCEL or BYE that may come with it, owes no new response.
LEMMA RepliedTeardown ==
    ASSUME ReplyTypes, AllPlaces, AllReplied, NEW c \in Calls, NEW why, Teardown(c, why),
           pc' = pc \/ (pc[c] = "abort" /\ pc' = [pc EXCEPT ![c] = "done"]),
           inb' = inb \/ inb' = [inb EXCEPT ![c] = "gone"]
    PROVE  AllReplied'
<1> SUFFICES ASSUME NEW d \in Calls PROVE Replied(d)'
    BY DEF AllReplied
<1>1. Replied(d) /\ PairPlaces(d)
    BY DEF AllReplied, AllPlaces
<1>2. SetupInterrupted(d) => SetupInterrupted(d)'
    BY <1>1 DEF Teardown, CanTransition, SetupInterrupted, PairPlaces, ReplyTypes,
       SettledTypes, MediaTypes
<1> QED
    BY <1>1, <1>2 DEF Replied, ReplyTypes, SettledTypes, MediaTypes, PlaceTypes

\* Every step keeps the response owed or sent.
LEMMA RepliedStep ==
    TypeInv /\ AllPlaces /\ AllMedia /\ AllSettled /\ HookTaken /\ AllReplied /\ [Next]_vars
        => AllReplied'
<1> SUFFICES ASSUME TypeInv, AllPlaces, AllMedia, AllSettled, HookTaken, AllReplied, [Next]_vars
             PROVE  AllReplied'
    OBVIOUS
<1>0. ReplyTypes /\ AllPlaces /\ AllSettled /\ AllReplied
    BY DEF TypeInv, TypeOK, ReplyTypes, SettledTypes, MediaTypes, PlaceTypes
<1>1. ASSUME NEW c \in Calls, NEW o \in Offers, NEW R \in SUBSET Apps, HandleInvite(c, o, R)
   PROVE AllReplied'
    BY <1>0, <1>1 DEF HandleInvite, Goto, AllReplied, Replied, SetupInterrupted, ReplyTypes,
       SettledTypes, MediaTypes, PlaceTypes, AllPlaces, PairPlaces, tdVars, engVars
<1>2. ASSUME NEW c \in Calls, HookInbound(c) PROVE AllReplied'
    BY <1>0, <1>2 DEF HookInbound, Goto, AllReplied, Replied, SetupInterrupted, ReplyTypes,
       SettledTypes, MediaTypes, PlaceTypes, callVars, dialogVars, tdVars, engVars
<1>3. ASSUME NEW c \in Calls, BadAppURI(c) PROVE AllReplied'
    BY <1>0, <1>3, RepliedFail DEF BadAppURI, AtApp, Fail, Goto, tdVars, engVars
<1>4. ASSUME NEW c \in Calls, AcquireTapCaller(c) PROVE AllReplied'
    BY <1>0, <1>4 DEF AcquireTapCaller, AcquirePair, AtApp, Goto, AllReplied, Replied,
       SetupInterrupted, ReplyTypes, SettledTypes, MediaTypes, PlaceTypes, callVars, dialogVars,
       tdVars, engVars
<1>5. ASSUME NEW c \in Calls, AcquireTapCallee(c) PROVE AllReplied'
    BY <1>0, <1>5 DEF AcquireTapCallee, AcquirePair, Goto, AllReplied, Replied,
       SetupInterrupted, ReplyTypes, SettledTypes, MediaTypes, PlaceTypes, callVars, dialogVars,
       tdVars, engVars
<1>6. ASSUME NEW c \in Calls, BindTap(c) PROVE AllReplied'
    BY <1>0, <1>6 DEF BindTap, BindPairs, Goto, AllReplied, Replied, SetupInterrupted,
       ReplyTypes, SettledTypes, MediaTypes, PlaceTypes, callVars, dialogVars, tdVars, engVars
<1>7. ASSUME NEW c \in Calls, TapSetupFails(c) PROVE AllReplied'
    BY <1>0, <1>7, RepliedFail DEF TapSetupFails, AtApp, AppFailed, Fail, Goto, tdVars, engVars
<1>8. ASSUME NEW c \in Calls, OfferInactive(c) PROVE AllReplied'
    BY <1>0, <1>8 DEF OfferInactive, AtApp, Goto, AllReplied, Replied, SetupInterrupted,
       ReplyTypes, SettledTypes, MediaTypes, PlaceTypes, callVars, dialogVars, tdVars, engVars
<1>9. ASSUME NEW c \in Calls, BuildOfferFails(c) PROVE AllReplied'
    BY <1>0, <1>9, RepliedFail DEF BuildOfferFails, AtApp, Fail, Goto, tdVars, engVars
<1>10. ASSUME NEW c \in Calls, DialApp(c) PROVE AllReplied'
    BY <1>0, <1>10 DEF DialApp, Goto, AllReplied, Replied, SetupInterrupted, ReplyTypes,
       SettledTypes, MediaTypes, PlaceTypes, callVars, tdVars, engVars
<1>11. ASSUME NEW c \in Calls, WaitAnswerApp(c) PROVE AllReplied'
    BY <1>0, <1>11 DEF WaitAnswerApp, Goto, AllReplied, Replied, SetupInterrupted, ReplyTypes,
       SettledTypes, MediaTypes, PlaceTypes, callVars, tdVars, engVars
<1>12. ASSUME NEW c \in Calls, AppLegFails(c) PROVE AllReplied'
    BY <1>0, <1>12, RepliedFail DEF AppLegFails, AppFailed, Fail, Goto, tdVars, engVars
<1>13. ASSUME NEW c \in Calls, AppendAppLeg(c) PROVE AllReplied'
    BY <1>0, <1>13 DEF AppendAppLeg, Goto, AllReplied, Replied, SetupInterrupted, ReplyTypes,
       SettledTypes, MediaTypes, PlaceTypes, dialogVars, tdVars, engVars
<1>14. ASSUME NEW c \in Calls, TapAnswerUnparsed(c) PROVE AllReplied'
    BY <1>0, <1>14 DEF TapAnswerUnparsed, Goto, AllReplied, Replied, SetupInterrupted,
       ReplyTypes, SettledTypes, MediaTypes, PlaceTypes, dialogVars, tdVars, engVars
<1>15. ASSUME NEW c \in Calls, HookAppLeg(c) PROVE AllReplied'
    BY <1>0, <1>15 DEF HookAppLeg, Goto, AllReplied, Replied, SetupInterrupted, ReplyTypes,
       SettledTypes, MediaTypes, PlaceTypes, callVars, tdVars, engVars
<1>16. ASSUME NEW c \in Calls, ChainDone(c) PROVE AllReplied'
    BY <1>0, <1>16 DEF ChainDone, Goto, AllReplied, Replied, SetupInterrupted, ReplyTypes,
       SettledTypes, MediaTypes, PlaceTypes, callVars, dialogVars, tdVars, engVars
<1>17. ASSUME NEW c \in Calls, AnchorEndpoint(c) PROVE AllReplied'
    BY <1>0, <1>17 DEF AnchorEndpoint, AcquirePair, Goto, AllReplied, Replied, SetupInterrupted,
       ReplyTypes, SettledTypes, MediaTypes, PlaceTypes, callVars, dialogVars, tdVars, engVars
<1>18. ASSUME NEW c \in Calls, AnchorWebRTC(c) PROVE AllReplied'
    BY <1>0, <1>18 DEF AnchorWebRTC, Goto, AllReplied, Replied, SetupInterrupted, ReplyTypes,
       SettledTypes, MediaTypes, PlaceTypes, dialogVars, tdVars, engVars
<1>19. ASSUME NEW c \in Calls, AnchorPBX(c) PROVE AllReplied'
    BY <1>0, <1>19 DEF AnchorPBX, AcquirePair, Goto, AllReplied, Replied, SetupInterrupted,
       ReplyTypes, SettledTypes, MediaTypes, PlaceTypes, callVars, dialogVars, tdVars, engVars
<1>20. ASSUME NEW c \in Calls, BindAnchor(c) PROVE AllReplied'
    BY <1>0, <1>20 DEF BindAnchor, BindPairs, Goto, AllReplied, Replied, SetupInterrupted,
       ReplyTypes, SettledTypes, MediaTypes, PlaceTypes, callVars, dialogVars, tdVars, engVars
<1>21. ASSUME NEW c \in Calls, AnchorFails(c) PROVE AllReplied'
    BY <1>0, <1>21, RepliedFail DEF AnchorFails, Fail, Goto, tdVars, engVars
<1>22. ASSUME NEW c \in Calls, RegisterMedia(c) PROVE AllReplied'
    BY <1>0, <1>22 DEF RegisterMedia, Goto, AllReplied, Replied, SetupInterrupted, ReplyTypes,
       SettledTypes, MediaTypes, PlaceTypes, dialogVars, tdVars, engVars
<1>23. ASSUME NEW c \in Calls, RegisterRefused(c) PROVE AllReplied'
    BY <1>0, <1>23 DEF RegisterRefused, Goto, AllReplied, Replied, SetupInterrupted, ReplyTypes,
       SettledTypes, MediaTypes, PlaceTypes, HookTaken, AllSettled, SettledCall, SettledSteps,
       callVars, tdVars, engVars
<1>24. ASSUME NEW c \in Calls, DialPBX(c) PROVE AllReplied'
    BY <1>0, <1>24 DEF DialPBX, Goto, AllReplied, Replied, SetupInterrupted, ReplyTypes,
       SettledTypes, MediaTypes, PlaceTypes, tdVars, engVars
<1>25. ASSUME NEW c \in Calls, WaitAnswerPBX(c) PROVE AllReplied'
    BY <1>0, <1>25 DEF WaitAnswerPBX, Goto, AllReplied, Replied, SetupInterrupted, ReplyTypes,
       SettledTypes, MediaTypes, PlaceTypes, callVars, tdVars, engVars
<1>26. ASSUME NEW c \in Calls, PBXFails(c) PROVE AllReplied'
    BY <1>0, <1>26, RepliedFail DEF PBXFails, Fail, Goto, tdVars, engVars
<1>27. ASSUME NEW c \in Calls, HookPBX(c) PROVE AllReplied'
    BY <1>0, <1>27 DEF HookPBX, Goto, AllReplied, Replied, SetupInterrupted, ReplyTypes,
       SettledTypes, MediaTypes, PlaceTypes, callVars, tdVars, engVars
<1>28. ASSUME NEW c \in Calls, PBXAnswerUnparsed(c) PROVE AllReplied'
    BY <1>0, <1>28, RepliedFail DEF PBXAnswerUnparsed, Fail, Goto, tdVars, engVars
<1>29. ASSUME NEW c \in Calls, Establish(c) PROVE AllReplied'
    BY <1>0, <1>29 DEF Establish, CanTransition, Goto, AllReplied, Replied, SetupInterrupted,
       ReplyTypes, SettledTypes, MediaTypes, PlaceTypes, dialogVars, tdVars, engVars
<1>30. ASSUME NEW c \in Calls, AnswerInbound(c) PROVE AllReplied'
    BY <1>0, <1>30 DEF AnswerInbound, Goto, AllReplied, Replied, SetupInterrupted, ReplyTypes,
       SettledTypes, MediaTypes, PlaceTypes, callVars, tdVars, engVars
<1>31. ASSUME NEW c \in Calls, AnswerFails(c) PROVE AllReplied'
    BY <1>0, <1>31 DEF AnswerFails, Goto, AllReplied, Replied, SetupInterrupted, ReplyTypes,
       SettledTypes, MediaTypes, PlaceTypes, callVars, tdVars, engVars
<1>32. ASSUME NEW c \in Calls, AbortTeardown(c) PROVE AllReplied'
    BY <1>0, <1>32, RepliedTeardown DEF AbortTeardown, Goto, dialogVars, engVars
<1>33. ASSUME NEW c \in Calls, BridgeReturns(c) PROVE AllReplied'
    BY <1>0, <1>33 DEF BridgeReturns, Goto, AllReplied, Replied, SetupInterrupted, ReplyTypes,
       SettledTypes, MediaTypes, PlaceTypes, callVars, dialogVars, tdVars, engVars
<1>34. ASSUME NEW c \in Calls, TeardownCancel(c) PROVE AllReplied'
    BY <1>0, <1>34 DEF TeardownCancel, AllReplied, Replied, SetupInterrupted, ReplyTypes,
       SettledTypes, MediaTypes, PlaceTypes, callVars, bridgeVars, dialogVars, engVars
<1>35. ASSUME NEW c \in Calls, TeardownClose(c) PROVE AllReplied'
    BY <1>0, <1>35 DEF TeardownClose, AllReplied, Replied, SetupInterrupted, ReplyTypes,
       SettledTypes, MediaTypes, PlaceTypes, bridgeVars, dialogVars, engVars
<1>36. ASSUME NEW c \in Calls, TeardownRelease(c) PROVE AllReplied'
    BY <1>0, <1>36 DEF TeardownRelease, AllReplied, Replied, SetupInterrupted, ReplyTypes,
       SettledTypes, MediaTypes, PlaceTypes, callVars, bridgeVars, dialogVars, engVars
<1>37. ASSUME NEW c \in Calls, TeardownRemove(c) PROVE AllReplied'
    BY <1>0, <1>37 DEF TeardownRemove, AllReplied, Replied, SetupInterrupted, ReplyTypes,
       SettledTypes, MediaTypes, PlaceTypes, bridgeVars, dialogVars, engVars
<1>38. ASSUME NEW c \in Calls, TeardownByes(c) PROVE AllReplied'
    BY <1>0, <1>38 DEF TeardownByes, AllReplied, Replied, SetupInterrupted, ReplyTypes,
       SettledTypes, MediaTypes, PlaceTypes, callVars, bridgeVars
<1>39. ASSUME NEW c \in Calls, CallerCancels(c) PROVE AllReplied'
    BY <1>0, <1>39 DEF CallerCancels, AllReplied, Replied, SetupInterrupted, ReplyTypes,
       SettledTypes, MediaTypes, PlaceTypes, callVars, bridgeVars, tdVars, engVars
<1>40. ASSUME NEW c \in Calls, CallerByes(c) PROVE AllReplied'
    BY <1>0, <1>40 DEF CallerByes, AllReplied, Replied, SetupInterrupted, ReplyTypes,
       SettledTypes, MediaTypes, PlaceTypes, callVars, bridgeVars, tdVars, engVars
<1>41. ASSUME NEW c \in Calls, InboundHook(c) PROVE AllReplied'
    BY <1>0, <1>41, RepliedTeardown DEF InboundHook, bridgeVars, engVars
<1>42. ASSUME NEW c \in Calls, NEW l \in Legs, LegHook(c, l) PROVE AllReplied'
    BY <1>0, <1>42, RepliedTeardown DEF LegHook, bridgeVars, engVars
<1>43. ASSUME NEW c \in Calls, Reap(c) PROVE AllReplied'
    BY <1>0, <1>43, RepliedTeardown DEF Reap, bridgeVars, dialogVars, engVars
<1>44. ASSUME NEW c \in Calls, ShutdownCall(c) PROVE AllReplied'
    BY <1>0, <1>44, RepliedTeardown DEF ShutdownCall, bridgeVars, dialogVars
<1>45. ASSUME NEW c \in Calls,
             \/ SkipUnrouted(c)
      PROVE  AllReplied'
    <2>1. UNCHANGED <<td, tdLegs, cause, pc, inb>>
        BY <1>45 DEF SkipUnrouted, callVars, dialogVars, tdVars, engVars
    <2> QED
        BY <1>0, <2>1 DEF AllReplied, Replied, SetupInterrupted
<1>46. ASSUME NEW c \in Calls, NEW l \in Legs, LegEnds(c, l) PROVE AllReplied'
    <2>1. UNCHANGED <<td, tdLegs, cause, pc, inb>>
        BY <1>46 DEF LegEnds, callVars, bridgeVars, tdVars, engVars
    <2> QED
        BY <1>0, <2>1 DEF AllReplied, Replied, SetupInterrupted
<1>47. ASSUME RunCtxDone \/ Shutdown \/ Exit \/ UNCHANGED vars PROVE AllReplied'
    <2>1. UNCHANGED <<td, tdLegs, cause, pc, inb>>
        BY <1>47 DEF RunCtxDone, Shutdown, Exit, vars, callVars, bridgeVars, dialogVars, tdVars,
           engVars
    <2> QED
        BY <1>0, <2>1 DEF AllReplied, Replied, SetupInterrupted
<1>48. ASSUME NEW c \in Calls, RelayCloses(c) PROVE AllReplied'
    <2>1. UNCHANGED <<td, tdLegs, cause, pc, inb>>
        BY <1>48 DEF RelayCloses, callVars, bridgeVars, dialogVars, tdVars
    <2> QED
        BY <1>0, <2>1 DEF AllReplied, Replied, SetupInterrupted
<1> QED
    BY <1>1, <1>2, <1>3, <1>4, <1>5, <1>6, <1>7, <1>8, <1>9, <1>10, <1>11, <1>12, <1>13, <1>14,
       <1>15, <1>16, <1>17, <1>18, <1>19, <1>20, <1>21, <1>22, <1>23, <1>24, <1>25, <1>26,
       <1>27, <1>28, <1>29, <1>30, <1>31, <1>32, <1>33, <1>34, <1>35, <1>36, <1>37, <1>38,
       <1>39, <1>40, <1>41, <1>42, <1>43, <1>44, <1>45, <1>46, <1>47, <1>48
       DEF Next, CallStep, Bridge, TeardownStep, Exited

-----------------------------------------------------------------------------
(* The legs *)

\* A leg that was answered and has been seen by its hook, or has ended.
AnsweredLeg == {"hooked", "ended", "lost", "unmatched", "gone"}

\* The INVITE of a leg is in the air only while the goroutine waits for its answer, a
\* leg that is up is recorded on the call as soon as the goroutine moves on, and so is
\* in the snapshot of a teardown that found the call established.
LegPlaces(c) ==
    \A l \in Legs :
        /\ leg[c][l] \in {"ringing", "late"} =>
            (pc[c] = "wait" /\ l = at[c]) \/ (pc[c] = "waitPBX" /\ l = PBX)
        /\ leg[c][l] \in {"up", "hooked"} => l \in legs[c] \/ (pc[c] = "append" /\ l = at[c])
        /\ td[c] # "none" /\ Inbound \in tdLegs[c] /\ leg[c][l] \in {"up", "hooked"} =>
            l \in tdLegs[c] /\ td[c] # "done"

\* The PBX leg is recorded before it is answered and answered before the call is
\* established.
PBXPlaces(c) ==
    /\ pc[c] \in {"waitPBX", "hookPBX", "establish", "answer", "relay"} => PBX \in legs[c]
    /\ pc[c] = "hookPBX" /\ td[c] # "done" => leg[c][PBX] \in {"up", "lost", "unmatched"}
    /\ pc[c] = "establish" /\ td[c] # "done" => leg[c][PBX] \in AnsweredLeg
    /\ state[c] = "established" => PBX \in legs[c] /\ leg[c][PBX] \in AnsweredLeg

AllLegs == \A c \in Calls : LegPlaces(c)
AllPBX == \A c \in Calls : PBXPlaces(c)

\* The types the two depend on.
LegTypes ==
    /\ state \in [Calls -> CallStates]
    /\ pc \in [Calls -> BridgeSteps]
    /\ at \in [Calls -> Legs]
    /\ legs \in [Calls -> SUBSET Legs]
    /\ leg \in [Calls -> [Legs -> LegStates]]
    /\ td \in [Calls -> TeardownSteps]
    /\ tdLegs \in [Calls -> SUBSET (Legs \cup {Inbound})]
    /\ AtApplication
    /\ PBX \in Legs
    /\ PBX \notin Apps

\* They follow from the type invariant.
LEMMA LegTyping == TypeInv => LegTypes
BY LegNumbers, ConfigAssumption DEF TypeInv, TypeOK, LegTypes, Apps, PBX

\* Only one leg of one call changes.
LegSet(c, i, s) == leg' = [leg EXCEPT ![c][i] = s]

\* What that says of each leg.
LEMMA LegSetShape ==
    ASSUME LegTypes, NEW c \in Calls, NEW i \in Legs, NEW s, LegSet(c, i, s)
    PROVE  /\ leg'[c][i] = s
           /\ \A l \in Legs : l # i => leg'[c][l] = leg[c][l]
           /\ \A d \in Calls : d # c => leg'[d] = leg[d]
BY DEF LegSet, LegTypes

\* A teardown that finds the call established lists every leg that is up.
LEMMA LegsTeardown ==
    ASSUME LegTypes, AllPlaces, AllMedia, AllLegs, NEW c \in Calls, NEW why, Teardown(c, why),
           UNCHANGED <<legs, at>>,
           pc' = pc \/ (pc[c] = "abort" /\ pc' = [pc EXCEPT ![c] = "done"]),
           \/ leg' = leg
           \/ \E l \in Legs : leg[c][l] = "ended" /\ leg' = [leg EXCEPT ![c][l] = "gone"]
    PROVE  AllLegs'
<1> SUFFICES ASSUME NEW d \in Calls, NEW l \in Legs
             PROVE  /\ leg'[d][l] \in {"ringing", "late"} =>
                        (pc'[d] = "wait" /\ l = at[d]) \/ (pc'[d] = "waitPBX" /\ l = PBX)
                    /\ leg'[d][l] \in {"up", "hooked"} =>
                        l \in legs[d] \/ (pc'[d] = "append" /\ l = at[d])
                    /\ /\ td'[d] # "none" /\ Inbound \in tdLegs'[d]
                       /\ leg'[d][l] \in {"up", "hooked"}
                       => l \in tdLegs'[d] /\ td'[d] # "done"
    BY DEF AllLegs, LegPlaces
<1>1. leg'[d][l] \in {"ringing", "late", "up", "hooked"} => leg'[d][l] = leg[d][l]
    <2>1. CASE leg' = leg
        BY <2>1
    <2>2. CASE \E k \in Legs : leg[c][k] = "ended" /\ leg' = [leg EXCEPT ![c][k] = "gone"]
        <3>1. PICK k \in Legs : LegSet(c, k, "gone")
            BY <2>2 DEF LegSet
        <3>2. /\ leg'[c][k] = "gone"
              /\ \A j \in Legs : j # k => leg'[c][j] = leg[c][j]
              /\ \A e \in Calls : e # c => leg'[e] = leg[e]
            BY <3>1, LegSetShape
        <3> QED
            BY <3>2
    <2> QED
        BY <2>1, <2>2
<1>2. /\ leg[d][l] \in {"ringing", "late"} =>
            (pc[d] = "wait" /\ l = at[d]) \/ (pc[d] = "waitPBX" /\ l = PBX)
      /\ leg[d][l] \in {"up", "hooked"} => l \in legs[d] \/ (pc[d] = "append" /\ l = at[d])
      /\ td[d] # "none" /\ Inbound \in tdLegs[d] /\ leg[d][l] \in {"up", "hooked"} =>
            l \in tdLegs[d] /\ td[d] # "done"
    BY DEF AllLegs, LegPlaces
<1>3. pc'[d] = pc[d] \/ pc[d] = "abort"
    BY DEF LegTypes
<1>4. CASE CanTransition(state[c], "tearingDown") /\ d = c
    <2>1. td'[c] = "committed" /\ tdLegs'[c] = LiveDialogs(c)
        BY <1>4 DEF Teardown, LegTypes
    <2>2. Inbound \in tdLegs'[c] => pc[c] \in SettledSteps
        BY <2>1, LiveInbound DEF LegTypes, AllMedia, MediaPlaces
    <2>3. legs[c] \subseteq tdLegs'[c]
        BY <2>1 DEF LiveDialogs
    <2> QED
        BY <1>1, <1>2, <1>3, <1>4, <2>1, <2>2, <2>3 DEF SettledSteps
<1>5. CASE ~CanTransition(state[c], "tearingDown") \/ d # c
    <2>1. td'[d] = td[d] /\ tdLegs'[d] = tdLegs[d]
        BY <1>5 DEF Teardown, LegTypes
    <2> QED
        BY <1>1, <1>2, <1>3, <2>1
<1> QED
    BY <1>4, <1>5

\* Every step keeps the legs recorded and, in a teardown, listed.
LEMMA LegsStep ==
    TypeInv /\ AllPlaces /\ AllMedia /\ AllSettled /\ AllPBX /\ AllLegs /\ [Next]_vars => AllLegs'
<1> SUFFICES ASSUME TypeInv, AllPlaces, AllMedia, AllSettled, AllPBX, AllLegs, [Next]_vars
             PROVE  AllLegs'
    OBVIOUS
<1>0. LegTypes /\ AllPlaces /\ AllMedia /\ AllSettled /\ AllPBX /\ AllLegs
    BY LegTyping
<1>1. ASSUME NEW c \in Calls, NEW o \in Offers, NEW R \in SUBSET Apps, HandleInvite(c, o, R)
   PROVE AllLegs'
    BY <1>0, <1>1 DEF HandleInvite, Goto, AllLegs, LegPlaces, LegTypes, tdVars, engVars
<1>2. ASSUME NEW c \in Calls, HookInbound(c) PROVE AllLegs'
    BY <1>0, <1>2 DEF HookInbound, Goto, AllLegs, LegPlaces, LegTypes, callVars, dialogVars,
       tdVars, engVars
<1>3. ASSUME NEW c \in Calls, SkipUnrouted(c) PROVE AllLegs'
    BY <1>0, <1>3 DEF SkipUnrouted, AllLegs, LegPlaces, LegTypes, callVars, dialogVars, tdVars,
       engVars
<1>4. ASSUME NEW c \in Calls, BadAppURI(c) PROVE AllLegs'
    BY <1>0, <1>4 DEF BadAppURI, Fail, Reject, AtApp, Goto, AllLegs, LegPlaces, LegTypes,
       tdVars, engVars
<1>5. ASSUME NEW c \in Calls, AcquireTapCaller(c) PROVE AllLegs'
    BY <1>0, <1>5 DEF AcquireTapCaller, AcquirePair, AtApp, Goto, AllLegs, LegPlaces, LegTypes,
       callVars, dialogVars, tdVars, engVars
<1>6. ASSUME NEW c \in Calls, AcquireTapCallee(c) PROVE AllLegs'
    BY <1>0, <1>6 DEF AcquireTapCallee, AcquirePair, Goto, AllLegs, LegPlaces, LegTypes,
       callVars, dialogVars, tdVars, engVars
<1>7. ASSUME NEW c \in Calls, BindTap(c) PROVE AllLegs'
    BY <1>0, <1>7 DEF BindTap, BindPairs, Goto, AllLegs, LegPlaces, LegTypes, callVars,
       dialogVars, tdVars, engVars
<1>8. ASSUME NEW c \in Calls, TapSetupFails(c) PROVE AllLegs'
    BY <1>0, <1>8 DEF TapSetupFails, AppFailed, Fail, Reject, AtApp, Goto, AllLegs, LegPlaces,
       LegTypes, tdVars, engVars
<1>9. ASSUME NEW c \in Calls, OfferInactive(c) PROVE AllLegs'
    BY <1>0, <1>9 DEF OfferInactive, AtApp, Goto, AllLegs, LegPlaces, LegTypes, callVars,
       dialogVars, tdVars, engVars
<1>10. ASSUME NEW c \in Calls, BuildOfferFails(c) PROVE AllLegs'
    BY <1>0, <1>10 DEF BuildOfferFails, Fail, Reject, AtApp, Goto, AllLegs, LegPlaces, LegTypes,
       tdVars, engVars
<1>11. ASSUME NEW c \in Calls, DialApp(c) PROVE AllLegs'
    BY <1>0, <1>11 DEF DialApp, Goto, AllLegs, LegPlaces, LegTypes, AllSettled, SettledCall,
       SetupInterrupted, SettledSteps, AtApplication, callVars, tdVars, engVars
<1>12. ASSUME NEW c \in Calls, WaitAnswerApp(c) PROVE AllLegs'
    <2>1. ~(td[c] # "none" /\ Inbound \in tdLegs[c])
        BY <1>0, <1>12 DEF WaitAnswerApp, AllSettled, SettledCall, SetupInterrupted, SettledSteps
    <2>2. at[c] \in Legs /\ LegSet(c, at[c], "up")
        BY <1>0, <1>12 DEF WaitAnswerApp, LegTypes, LegSet
    <2>3. /\ leg'[c][at[c]] = "up"
          /\ \A l \in Legs : l # at[c] => leg'[c][l] = leg[c][l]
          /\ \A d \in Calls : d # c => leg'[d] = leg[d]
        BY <1>0, <2>2, LegSetShape
    <2> QED
        BY <1>0, <1>12, <2>1, <2>3 DEF WaitAnswerApp, Goto, AllLegs, LegPlaces, LegTypes,
           callVars, tdVars, engVars
<1>13. ASSUME NEW c \in Calls, AppLegFails(c) PROVE AllLegs'
    BY <1>0, <1>13 DEF AppLegFails, AppFailed, Fail, Reject, Goto, AllLegs, LegPlaces, LegTypes,
       AllSettled, SettledCall, SetupInterrupted, SettledSteps, AtApplication, tdVars, engVars
<1>14. ASSUME NEW c \in Calls, AppendAppLeg(c) PROVE AllLegs'
    BY <1>0, <1>14 DEF AppendAppLeg, Goto, AllLegs, LegPlaces, LegTypes, AllSettled,
       SettledCall, SetupInterrupted, SettledSteps, AtApplication, dialogVars, tdVars, engVars
<1>15. ASSUME NEW c \in Calls, TapAnswerUnparsed(c) PROVE AllLegs'
    BY <1>0, <1>15 DEF TapAnswerUnparsed, Goto, AllLegs, LegPlaces, LegTypes, AllSettled,
       SettledCall, SetupInterrupted, SettledSteps, dialogVars, tdVars, engVars
<1>16. ASSUME NEW c \in Calls, HookAppLeg(c) PROVE AllLegs'
    BY <1>0, <1>16 DEF HookAppLeg, Goto, AllLegs, LegPlaces, LegTypes, AllSettled, SettledCall,
       SetupInterrupted, SettledSteps, AtApplication, callVars, tdVars, engVars
<1>17. ASSUME NEW c \in Calls, ChainDone(c) PROVE AllLegs'
    BY <1>0, <1>17 DEF ChainDone, Goto, AllLegs, LegPlaces, LegTypes, callVars, dialogVars,
       tdVars, engVars
<1>18. ASSUME NEW c \in Calls, AnchorEndpoint(c) PROVE AllLegs'
    BY <1>0, <1>18 DEF AnchorEndpoint, AcquirePair, Goto, AllLegs, LegPlaces, LegTypes,
       callVars, dialogVars, tdVars, engVars
<1>19. ASSUME NEW c \in Calls, AnchorWebRTC(c) PROVE AllLegs'
    BY <1>0, <1>19 DEF AnchorWebRTC, Goto, AllLegs, LegPlaces, LegTypes, dialogVars, tdVars,
       engVars
<1>20. ASSUME NEW c \in Calls, AnchorPBX(c) PROVE AllLegs'
    BY <1>0, <1>20 DEF AnchorPBX, AcquirePair, Goto, AllLegs, LegPlaces, LegTypes, callVars,
       dialogVars, tdVars, engVars
<1>21. ASSUME NEW c \in Calls, BindAnchor(c) PROVE AllLegs'
    BY <1>0, <1>21 DEF BindAnchor, BindPairs, Goto, AllLegs, LegPlaces, LegTypes, callVars,
       dialogVars, tdVars, engVars
<1>22. ASSUME NEW c \in Calls, AnchorFails(c) PROVE AllLegs'
    BY <1>0, <1>22 DEF AnchorFails, Fail, Reject, Goto, AllLegs, LegPlaces, LegTypes, tdVars,
       engVars
<1>23. ASSUME NEW c \in Calls, RegisterMedia(c) PROVE AllLegs'
    BY <1>0, <1>23 DEF RegisterMedia, Goto, AllLegs, LegPlaces, LegTypes, dialogVars, tdVars,
       engVars
<1>24. ASSUME NEW c \in Calls, RegisterRefused(c) PROVE AllLegs'
    BY <1>0, <1>24 DEF RegisterRefused, Goto, AllLegs, LegPlaces, LegTypes, callVars, tdVars,
       engVars
<1>25. ASSUME NEW c \in Calls, DialPBX(c) PROVE AllLegs'
    BY <1>0, <1>25 DEF DialPBX, Goto, AllLegs, LegPlaces, LegTypes, AllSettled, SettledCall,
       SetupInterrupted, SettledSteps, tdVars, engVars
<1>26. ASSUME NEW c \in Calls, WaitAnswerPBX(c) PROVE AllLegs'
    <2>1. ~(td[c] # "none" /\ Inbound \in tdLegs[c])
        BY <1>0, <1>26 DEF WaitAnswerPBX, AllSettled, SettledCall, SetupInterrupted, SettledSteps
    <2>2. PBX \in Legs /\ LegSet(c, PBX, "up")
        BY <1>0, <1>26 DEF WaitAnswerPBX, LegTypes, LegSet
    <2>3. /\ leg'[c][PBX] = "up"
          /\ \A l \in Legs : l # PBX => leg'[c][l] = leg[c][l]
          /\ \A d \in Calls : d # c => leg'[d] = leg[d]
        BY <1>0, <2>2, LegSetShape
    <2> QED
        BY <1>0, <1>26, <2>1, <2>3 DEF WaitAnswerPBX, Goto, AllLegs, LegPlaces, LegTypes, AllPBX,
           PBXPlaces, callVars, tdVars, engVars
<1>27. ASSUME NEW c \in Calls, PBXFails(c) PROVE AllLegs'
    BY <1>0, <1>27 DEF PBXFails, Fail, Reject, Goto, AllLegs, LegPlaces, LegTypes, AllSettled,
       SettledCall, SetupInterrupted, SettledSteps, tdVars, engVars
<1>28. ASSUME NEW c \in Calls, HookPBX(c) PROVE AllLegs'
    BY <1>0, <1>28 DEF HookPBX, Goto, AllLegs, LegPlaces, LegTypes, AllSettled, SettledCall,
       SetupInterrupted, SettledSteps, callVars, tdVars, engVars
<1>29. ASSUME NEW c \in Calls, PBXAnswerUnparsed(c) PROVE AllLegs'
    BY <1>0, <1>29 DEF PBXAnswerUnparsed, Fail, Reject, Goto, AllLegs, LegPlaces, LegTypes,
       tdVars, engVars
<1>30. ASSUME NEW c \in Calls, Establish(c) PROVE AllLegs'
    BY <1>0, <1>30 DEF Establish, CanTransition, Goto, AllLegs, LegPlaces, LegTypes, dialogVars,
       tdVars, engVars
<1>31. ASSUME NEW c \in Calls, AnswerInbound(c) PROVE AllLegs'
    BY <1>0, <1>31 DEF AnswerInbound, Goto, AllLegs, LegPlaces, LegTypes, callVars, tdVars,
       engVars
<1>32. ASSUME NEW c \in Calls, AnswerFails(c) PROVE AllLegs'
    BY <1>0, <1>32 DEF AnswerFails, Goto, AllLegs, LegPlaces, LegTypes, callVars, tdVars,
       engVars
<1>33. ASSUME NEW c \in Calls, AbortTeardown(c) PROVE AllLegs'
    BY <1>0, <1>33, LegsTeardown DEF AbortTeardown, Goto, dialogVars, engVars
<1>34. ASSUME NEW c \in Calls, BridgeReturns(c) PROVE AllLegs'
    BY <1>0, <1>34 DEF BridgeReturns, Goto, AllLegs, LegPlaces, LegTypes, callVars, dialogVars,
       tdVars, engVars
<1>35. ASSUME NEW c \in Calls, TeardownCancel(c) PROVE AllLegs'
    BY <1>0, <1>35 DEF TeardownCancel, AllLegs, LegPlaces, LegTypes, callVars, bridgeVars,
       dialogVars, engVars
<1>36. ASSUME NEW c \in Calls, TeardownClose(c) PROVE AllLegs'
    BY <1>0, <1>36 DEF TeardownClose, AllLegs, LegPlaces, LegTypes, bridgeVars, dialogVars,
       engVars
<1>37. ASSUME NEW c \in Calls, TeardownRelease(c) PROVE AllLegs'
    BY <1>0, <1>37 DEF TeardownRelease, AllLegs, LegPlaces, LegTypes, callVars, bridgeVars,
       dialogVars, engVars
<1>38. ASSUME NEW c \in Calls, TeardownRemove(c) PROVE AllLegs'
    BY <1>0, <1>38 DEF TeardownRemove, AllLegs, LegPlaces, LegTypes, bridgeVars, dialogVars,
       engVars
<1>39. ASSUME NEW c \in Calls, TeardownByes(c) PROVE AllLegs'
    BY <1>0, <1>39 DEF TeardownByes, AllLegs, LegPlaces, LegTypes, callVars, bridgeVars
<1>40. ASSUME NEW c \in Calls, InboundHook(c) PROVE AllLegs'
    BY <1>0, <1>40, LegsTeardown DEF InboundHook, bridgeVars, engVars
<1>41. ASSUME NEW c \in Calls, NEW l \in Legs, LegEnds(c, l) PROVE AllLegs'
    BY <1>0, <1>41 DEF LegEnds, AllLegs, LegPlaces, LegTypes, callVars, bridgeVars, tdVars,
       engVars
<1>42. ASSUME NEW c \in Calls, NEW l \in Legs, LegHook(c, l) PROVE AllLegs'
    BY <1>0, <1>42, LegsTeardown DEF LegHook, bridgeVars, engVars
<1>43. ASSUME NEW c \in Calls, Reap(c) PROVE AllLegs'
    BY <1>0, <1>43, LegsTeardown DEF Reap, bridgeVars, dialogVars, engVars
<1>44. ASSUME NEW c \in Calls, ShutdownCall(c) PROVE AllLegs'
    BY <1>0, <1>44, LegsTeardown DEF ShutdownCall, bridgeVars, dialogVars
<1>45. ASSUME NEW c \in Calls,
             \/ CallerCancels(c) \/ CallerByes(c)
      PROVE  AllLegs'
    <2>1. UNCHANGED <<td, tdLegs, legs, leg, pc, at>>
        BY <1>45 DEF CallerCancels, CallerByes, callVars, bridgeVars, tdVars, engVars
    <2> QED
        BY <1>0, <2>1 DEF AllLegs, LegPlaces
<1>46. ASSUME RunCtxDone \/ Shutdown \/ Exit \/ UNCHANGED vars PROVE AllLegs'
    <2>1. UNCHANGED <<td, tdLegs, legs, leg, pc, at>>
        BY <1>46 DEF RunCtxDone, Shutdown, Exit, vars, callVars, bridgeVars, dialogVars, tdVars,
           engVars
    <2> QED
        BY <1>0, <2>1 DEF AllLegs, LegPlaces
<1>47. ASSUME NEW c \in Calls, RelayCloses(c) PROVE AllLegs'
    <2>1. UNCHANGED <<td, tdLegs, legs, leg, pc, at>>
        BY <1>47 DEF RelayCloses, callVars, bridgeVars, dialogVars, tdVars
    <2> QED
        BY <1>0, <2>1 DEF AllLegs, LegPlaces
<1> QED
    BY <1>1, <1>2, <1>3, <1>4, <1>5, <1>6, <1>7, <1>8, <1>9, <1>10, <1>11, <1>12, <1>13, <1>14,
       <1>15, <1>16, <1>17, <1>18, <1>19, <1>20, <1>21, <1>22, <1>23, <1>24, <1>25, <1>26,
       <1>27, <1>28, <1>29, <1>30, <1>31, <1>32, <1>33, <1>34, <1>35, <1>36, <1>37, <1>38,
       <1>39, <1>40, <1>41, <1>42, <1>43, <1>44, <1>45, <1>46, <1>47
       DEF Next, CallStep, Bridge, TeardownStep, Exited

\* The PBX leg of a call that is not being torn down is not BYE'd, and its end finds it
\* answered.
LEMMA PBXTeardown ==
    ASSUME LegTypes, AllPlaces, AllPBX, NEW c \in Calls, NEW why, Teardown(c, why),
           UNCHANGED legs,
           pc' = pc \/ (pc[c] = "abort" /\ pc' = [pc EXCEPT ![c] = "done"]),
           \/ leg' = leg
           \/ \E l \in Legs : leg[c][l] = "ended" /\ leg' = [leg EXCEPT ![c][l] = "gone"]
    PROVE  AllPBX'
<1> SUFFICES ASSUME NEW d \in Calls PROVE PBXPlaces(d)'
    BY DEF AllPBX
<1>1. PBXPlaces(d)
    BY DEF AllPBX
<1>2. leg'[d][PBX] = leg[d][PBX] \/ (leg[d][PBX] = "ended" /\ leg'[d][PBX] = "gone")
    <2>1. CASE leg' = leg
        BY <2>1
    <2>2. CASE \E l \in Legs : leg[c][l] = "ended" /\ leg' = [leg EXCEPT ![c][l] = "gone"]
        <3>1. PICK l \in Legs : leg[c][l] = "ended" /\ leg' = [leg EXCEPT ![c][l] = "gone"]
            BY <2>2
        <3> QED
            BY <3>1 DEF LegTypes
    <2> QED
        BY <2>1, <2>2
<1>3. pc'[d] = pc[d] \/ (pc[d] = "abort" /\ pc'[d] = "done")
    BY DEF LegTypes
<1>4. td'[d] # "done" => td[d] # "done"
    BY DEF Teardown, CanTransition, AllPlaces, PairPlaces, LegTypes
<1>5. state'[d] = "established" => state[d] = "established"
    BY DEF Teardown, LegTypes
<1> QED
    BY <1>1, <1>2, <1>3, <1>4, <1>5 DEF PBXPlaces, AnsweredLeg

\* Every step keeps the PBX leg recorded and answered.
LEMMA PBXStep ==
    TypeInv /\ AllPlaces /\ AllMedia /\ AllPBX /\ [Next]_vars => AllPBX'
<1> SUFFICES ASSUME TypeInv, AllPlaces, AllMedia, AllPBX, [Next]_vars
             PROVE  AllPBX'
    OBVIOUS
<1>0. LegTypes /\ AllPlaces /\ AllMedia /\ AllPBX
    BY LegTyping
<1>1. ASSUME NEW c \in Calls, NEW o \in Offers, NEW R \in SUBSET Apps, HandleInvite(c, o, R)
   PROVE AllPBX'
    BY <1>0, <1>1 DEF HandleInvite, Goto, AllPBX, PBXPlaces, LegTypes, AnsweredLeg, AllMedia,
       MediaPlaces, SettledSteps, AllPlaces, PairPlaces, tdVars, engVars
<1>2. ASSUME NEW c \in Calls, HookInbound(c) PROVE AllPBX'
    BY <1>0, <1>2 DEF HookInbound, Goto, AllPBX, PBXPlaces, LegTypes, AnsweredLeg, callVars,
       dialogVars, tdVars, engVars
<1>3. ASSUME NEW c \in Calls, BadAppURI(c) PROVE AllPBX'
    BY <1>0, <1>3 DEF BadAppURI, Fail, Reject, AtApp, Goto, AllPBX, PBXPlaces, LegTypes,
       AnsweredLeg, tdVars, engVars
<1>4. ASSUME NEW c \in Calls, AcquireTapCaller(c) PROVE AllPBX'
    BY <1>0, <1>4 DEF AcquireTapCaller, AcquirePair, AtApp, Goto, AllPBX, PBXPlaces, LegTypes,
       AnsweredLeg, callVars, dialogVars, tdVars, engVars
<1>5. ASSUME NEW c \in Calls, AcquireTapCallee(c) PROVE AllPBX'
    BY <1>0, <1>5 DEF AcquireTapCallee, AcquirePair, Goto, AllPBX, PBXPlaces, LegTypes,
       AnsweredLeg, callVars, dialogVars, tdVars, engVars
<1>6. ASSUME NEW c \in Calls, BindTap(c) PROVE AllPBX'
    BY <1>0, <1>6 DEF BindTap, BindPairs, Goto, AllPBX, PBXPlaces, LegTypes, AnsweredLeg,
       callVars, dialogVars, tdVars, engVars
<1>7. ASSUME NEW c \in Calls, TapSetupFails(c) PROVE AllPBX'
    BY <1>0, <1>7 DEF TapSetupFails, AppFailed, Fail, Reject, AtApp, Goto, AllPBX, PBXPlaces,
       LegTypes, AnsweredLeg, tdVars, engVars
<1>8. ASSUME NEW c \in Calls, OfferInactive(c) PROVE AllPBX'
    BY <1>0, <1>8 DEF OfferInactive, AtApp, Goto, AllPBX, PBXPlaces, LegTypes, AnsweredLeg,
       callVars, dialogVars, tdVars, engVars
<1>9. ASSUME NEW c \in Calls, BuildOfferFails(c) PROVE AllPBX'
    BY <1>0, <1>9 DEF BuildOfferFails, Fail, Reject, AtApp, Goto, AllPBX, PBXPlaces, LegTypes,
       AnsweredLeg, tdVars, engVars
<1>10. ASSUME NEW c \in Calls, DialApp(c) PROVE AllPBX'
    BY <1>0, <1>10 DEF DialApp, Goto, AllPBX, PBXPlaces, LegTypes, AnsweredLeg, AllMedia,
       MediaPlaces, SettledSteps, AllPlaces, PairPlaces, callVars, tdVars, engVars
<1>11. ASSUME NEW c \in Calls, WaitAnswerApp(c) PROVE AllPBX'
    BY <1>0, <1>11 DEF WaitAnswerApp, Goto, AllPBX, PBXPlaces, LegTypes, AnsweredLeg, AllMedia,
       MediaPlaces, SettledSteps, AllPlaces, PairPlaces, callVars, tdVars, engVars
<1>12. ASSUME NEW c \in Calls, AppLegFails(c) PROVE AllPBX'
    BY <1>0, <1>12 DEF AppLegFails, AppFailed, Fail, Reject, Goto, AllPBX, PBXPlaces, LegTypes,
       AnsweredLeg, AllMedia, MediaPlaces, SettledSteps, AllPlaces, PairPlaces, tdVars, engVars
<1>13. ASSUME NEW c \in Calls, AppendAppLeg(c) PROVE AllPBX'
    BY <1>0, <1>13 DEF AppendAppLeg, Goto, AllPBX, PBXPlaces, LegTypes, AnsweredLeg, dialogVars,
       tdVars, engVars
<1>14. ASSUME NEW c \in Calls, TapAnswerUnparsed(c) PROVE AllPBX'
    BY <1>0, <1>14 DEF TapAnswerUnparsed, Goto, AllPBX, PBXPlaces, LegTypes, AnsweredLeg,
       dialogVars, tdVars, engVars
<1>15. ASSUME NEW c \in Calls, HookAppLeg(c) PROVE AllPBX'
    BY <1>0, <1>15 DEF HookAppLeg, Goto, AllPBX, PBXPlaces, LegTypes, AnsweredLeg, AllMedia,
       MediaPlaces, SettledSteps, AllPlaces, PairPlaces, callVars, tdVars, engVars
<1>16. ASSUME NEW c \in Calls, ChainDone(c) PROVE AllPBX'
    BY <1>0, <1>16 DEF ChainDone, Goto, AllPBX, PBXPlaces, LegTypes, AnsweredLeg, callVars,
       dialogVars, tdVars, engVars
<1>17. ASSUME NEW c \in Calls, AnchorEndpoint(c) PROVE AllPBX'
    BY <1>0, <1>17 DEF AnchorEndpoint, AcquirePair, Goto, AllPBX, PBXPlaces, LegTypes,
       AnsweredLeg, callVars, dialogVars, tdVars, engVars
<1>18. ASSUME NEW c \in Calls, AnchorWebRTC(c) PROVE AllPBX'
    BY <1>0, <1>18 DEF AnchorWebRTC, Goto, AllPBX, PBXPlaces, LegTypes, AnsweredLeg, dialogVars,
       tdVars, engVars
<1>19. ASSUME NEW c \in Calls, AnchorPBX(c) PROVE AllPBX'
    BY <1>0, <1>19 DEF AnchorPBX, AcquirePair, Goto, AllPBX, PBXPlaces, LegTypes, AnsweredLeg,
       callVars, dialogVars, tdVars, engVars
<1>20. ASSUME NEW c \in Calls, BindAnchor(c) PROVE AllPBX'
    BY <1>0, <1>20 DEF BindAnchor, BindPairs, Goto, AllPBX, PBXPlaces, LegTypes, AnsweredLeg,
       callVars, dialogVars, tdVars, engVars
<1>21. ASSUME NEW c \in Calls, AnchorFails(c) PROVE AllPBX'
    BY <1>0, <1>21 DEF AnchorFails, Fail, Reject, Goto, AllPBX, PBXPlaces, LegTypes,
       AnsweredLeg, tdVars, engVars
<1>22. ASSUME NEW c \in Calls, RegisterMedia(c) PROVE AllPBX'
    BY <1>0, <1>22 DEF RegisterMedia, Goto, AllPBX, PBXPlaces, LegTypes, AnsweredLeg,
       dialogVars, tdVars, engVars
<1>23. ASSUME NEW c \in Calls, RegisterRefused(c) PROVE AllPBX'
    BY <1>0, <1>23 DEF RegisterRefused, Goto, AllPBX, PBXPlaces, LegTypes, AnsweredLeg,
       callVars, tdVars, engVars
<1>24. ASSUME NEW c \in Calls, DialPBX(c) PROVE AllPBX'
    BY <1>0, <1>24 DEF DialPBX, Goto, AllPBX, PBXPlaces, LegTypes, AnsweredLeg, AllMedia,
       MediaPlaces, SettledSteps, AllPlaces, PairPlaces, tdVars, engVars
<1>25. ASSUME NEW c \in Calls, WaitAnswerPBX(c) PROVE AllPBX'
    BY <1>0, <1>25 DEF WaitAnswerPBX, Goto, AllPBX, PBXPlaces, LegTypes, AnsweredLeg, AllMedia,
       MediaPlaces, SettledSteps, AllPlaces, PairPlaces, callVars, tdVars, engVars
<1>26. ASSUME NEW c \in Calls, PBXFails(c) PROVE AllPBX'
    BY <1>0, <1>26 DEF PBXFails, Fail, Reject, Goto, AllPBX, PBXPlaces, LegTypes, AnsweredLeg,
       AllMedia, MediaPlaces, SettledSteps, AllPlaces, PairPlaces, tdVars, engVars
<1>27. ASSUME NEW c \in Calls, HookPBX(c) PROVE AllPBX'
    BY <1>0, <1>27 DEF HookPBX, Goto, AllPBX, PBXPlaces, LegTypes, AnsweredLeg, AllMedia,
       MediaPlaces, SettledSteps, AllPlaces, PairPlaces, callVars, tdVars, engVars
<1>28. ASSUME NEW c \in Calls, PBXAnswerUnparsed(c) PROVE AllPBX'
    BY <1>0, <1>28 DEF PBXAnswerUnparsed, Fail, Reject, Goto, AllPBX, PBXPlaces, LegTypes,
       AnsweredLeg, tdVars, engVars
<1>29. ASSUME NEW c \in Calls, Establish(c) PROVE AllPBX'
    BY <1>0, <1>29 DEF Establish, CanTransition, Goto, AllPBX, PBXPlaces, LegTypes, AnsweredLeg,
       AllPlaces, PairPlaces, LegTypes, dialogVars, tdVars, engVars
<1>30. ASSUME NEW c \in Calls, AnswerInbound(c) PROVE AllPBX'
    BY <1>0, <1>30 DEF AnswerInbound, Goto, AllPBX, PBXPlaces, LegTypes, AnsweredLeg, callVars,
       tdVars, engVars
<1>31. ASSUME NEW c \in Calls, AnswerFails(c) PROVE AllPBX'
    BY <1>0, <1>31 DEF AnswerFails, Goto, AllPBX, PBXPlaces, LegTypes, AnsweredLeg, callVars,
       tdVars, engVars
<1>32. ASSUME NEW c \in Calls, AbortTeardown(c) PROVE AllPBX'
    BY <1>0, <1>32, PBXTeardown DEF AbortTeardown, Goto, dialogVars, engVars
<1>33. ASSUME NEW c \in Calls, BridgeReturns(c) PROVE AllPBX'
    BY <1>0, <1>33 DEF BridgeReturns, Goto, AllPBX, PBXPlaces, LegTypes, AnsweredLeg, callVars,
       dialogVars, tdVars, engVars
<1>34. ASSUME NEW c \in Calls, TeardownCancel(c) PROVE AllPBX'
    BY <1>0, <1>34 DEF TeardownCancel, AllPBX, PBXPlaces, LegTypes, AnsweredLeg, callVars,
       bridgeVars, dialogVars, engVars
<1>35. ASSUME NEW c \in Calls, TeardownClose(c) PROVE AllPBX'
    BY <1>0, <1>35 DEF TeardownClose, AllPBX, PBXPlaces, LegTypes, AnsweredLeg, bridgeVars,
       dialogVars, engVars
<1>36. ASSUME NEW c \in Calls, TeardownRelease(c) PROVE AllPBX'
    BY <1>0, <1>36 DEF TeardownRelease, AllPBX, PBXPlaces, LegTypes, AnsweredLeg, callVars,
       bridgeVars, dialogVars, engVars
<1>37. ASSUME NEW c \in Calls, TeardownRemove(c) PROVE AllPBX'
    BY <1>0, <1>37 DEF TeardownRemove, AllPBX, PBXPlaces, LegTypes, AnsweredLeg, bridgeVars,
       dialogVars, engVars
<1>38. ASSUME NEW c \in Calls, TeardownByes(c) PROVE AllPBX'
    BY <1>0, <1>38 DEF TeardownByes, AllPBX, PBXPlaces, LegTypes, AnsweredLeg, AllMedia,
       MediaPlaces, SettledSteps, AllPlaces, PairPlaces, callVars, bridgeVars
<1>39. ASSUME NEW c \in Calls, InboundHook(c) PROVE AllPBX'
    BY <1>0, <1>39, PBXTeardown DEF InboundHook, bridgeVars, engVars
<1>40. ASSUME NEW c \in Calls, NEW l \in Legs, LegEnds(c, l) PROVE AllPBX'
    BY <1>0, <1>40 DEF LegEnds, AllPBX, PBXPlaces, LegTypes, AnsweredLeg, callVars, bridgeVars,
       tdVars, engVars
<1>41. ASSUME NEW c \in Calls, NEW l \in Legs, LegHook(c, l) PROVE AllPBX'
    BY <1>0, <1>41, PBXTeardown DEF LegHook, bridgeVars, engVars
<1>42. ASSUME NEW c \in Calls, Reap(c) PROVE AllPBX'
    BY <1>0, <1>42, PBXTeardown DEF Reap, bridgeVars, dialogVars, engVars
<1>43. ASSUME NEW c \in Calls, ShutdownCall(c) PROVE AllPBX'
    BY <1>0, <1>43, PBXTeardown DEF ShutdownCall, bridgeVars, dialogVars
<1>44. ASSUME NEW c \in Calls,
             \/ SkipUnrouted(c) \/ CallerCancels(c) \/ CallerByes(c)
      PROVE  AllPBX'
    <2>1. UNCHANGED <<state, td, legs, leg, pc>>
        BY <1>44 DEF SkipUnrouted, CallerCancels, CallerByes, callVars, bridgeVars, dialogVars,
           tdVars, engVars
    <2> QED
        BY <1>0, <2>1 DEF AllPBX, PBXPlaces
<1>45. ASSUME RunCtxDone \/ Shutdown \/ Exit \/ UNCHANGED vars PROVE AllPBX'
    <2>1. UNCHANGED <<state, td, legs, leg, pc>>
        BY <1>45 DEF RunCtxDone, Shutdown, Exit, vars, callVars, bridgeVars, dialogVars, tdVars,
           engVars
    <2> QED
        BY <1>0, <2>1 DEF AllPBX, PBXPlaces
<1>46. ASSUME NEW c \in Calls, RelayCloses(c) PROVE AllPBX'
    <2>1. UNCHANGED <<state, td, legs, leg, pc>>
        BY <1>46 DEF RelayCloses, callVars, bridgeVars, dialogVars, tdVars
    <2> QED
        BY <1>0, <2>1 DEF AllPBX, PBXPlaces
<1> QED
    BY <1>1, <1>2, <1>3, <1>4, <1>5, <1>6, <1>7, <1>8, <1>9, <1>10, <1>11, <1>12, <1>13, <1>14,
       <1>15, <1>16, <1>17, <1>18, <1>19, <1>20, <1>21, <1>22, <1>23, <1>24, <1>25, <1>26,
       <1>27, <1>28, <1>29, <1>30, <1>31, <1>32, <1>33, <1>34, <1>35, <1>36, <1>37, <1>38,
       <1>39, <1>40, <1>41, <1>42, <1>43, <1>44, <1>45, <1>46
       DEF Next, CallStep, Bridge, TeardownStep, Exited

-----------------------------------------------------------------------------
(* The application chain *)

\* The chain may go on past the application: it was not routed to, it answered, or it
\* failed and may be skipped.
Decided(c, i) ==
    \/ outcome[c][i] \in {"unrouted", "invoked", "tapless"}
    \/ outcome[c][i] = "failed" /\ Sequence[i].onFailure = "skip"

\* The steps after the chain, as long as none has failed.
PastChain == MediaSteps \cup {"anchor", "anchorPBX", "bind", "register"}

\* The applications before at are decided, and the PBX is dialled from the end of the
\* chain only.
PolicyPlaces(c) ==
    /\ pc[c] = "idle" => at[c] = 1
    /\ pc[c] = "hook" => outcome[c][at[c]] \in {"invoked", "tapless"}
    /\ pc[c] \in PastChain => at[c] = PBX
    /\ PBX \in legs[c] => at[c] = PBX
    /\ \A i \in Apps : i < at[c] => Decided(c, i)

AllPolicy == \A c \in Calls : PolicyPlaces(c)

\* The types PolicyPlaces depends on.
PolicyTypes ==
    /\ pc \in [Calls -> BridgeSteps]
    /\ at \in [Calls -> Legs]
    /\ legs \in [Calls -> SUBSET Legs]
    /\ outcome \in [Calls -> [Apps -> Outcomes]]
    /\ AtApplication
    /\ PBX \notin Apps
    /\ Apps \subseteq Nat \ {0}

\* They follow from the type invariant.
LEMMA PolicyTyping == TypeInv => PolicyTypes
BY ConfigAssumption DEF TypeInv, TypeOK, PolicyTypes, Apps, Legs, PBX

\* A step that decides nothing, and leaves the chain only at its end.
LEMMA PolicyMove ==
    ASSUME PolicyTypes, AllPolicy, NEW c \in Calls, NEW l \in BridgeSteps \ {"idle", "hook"},
           pc' = [pc EXCEPT ![c] = l], l \in PastChain => at[c] = PBX,
           UNCHANGED <<at, outcome>>,
           legs' = legs \/ (at[c] = PBX /\ legs' = [legs EXCEPT ![c] = @ \cup {PBX}])
    PROVE  AllPolicy'
<1> SUFFICES ASSUME NEW d \in Calls PROVE PolicyPlaces(d)'
    BY DEF AllPolicy
<1>1. PolicyPlaces(d)
    BY DEF AllPolicy
<1>2. CASE d # c
    <2>1. pc'[d] = pc[d] /\ legs'[d] = legs[d]
        BY <1>2 DEF PolicyTypes
    <2> QED
        BY <1>1, <2>1 DEF PolicyPlaces, Decided
<1>3. CASE d = c
    <2>1. pc'[c] = l
        BY DEF PolicyTypes
    <2>2. legs'[c] = legs[c] \/ at[c] = PBX
        BY DEF PolicyTypes
    <2> QED
        BY <1>1, <1>3, <2>1, <2>2 DEF PolicyPlaces, Decided
<1> QED
    BY <1>2, <1>3

\* Moving past an application that is decided keeps the others decided.
LEMMA PolicyAdvance ==
    ASSUME PolicyTypes, AllPolicy, NEW c \in Calls, at[c] \in Apps,
           at' = [at EXCEPT ![c] = @ + 1],
           \/ outcome'[c][at[c]] \in {"unrouted", "invoked", "tapless"}
           \/ outcome'[c][at[c]] = "failed" /\ Sequence[at[c]].onFailure = "skip",
           pc' = [pc EXCEPT ![c] = "chain"],
           \/ outcome' = outcome
           \/ \E s \in Outcomes : outcome' = [outcome EXCEPT ![c][at[c]] = s],
           legs' = legs
    PROVE  AllPolicy'
<1> SUFFICES ASSUME NEW d \in Calls PROVE PolicyPlaces(d)'
    BY DEF AllPolicy
<1>1. PolicyPlaces(d)
    BY DEF AllPolicy
<1>2. CASE d # c
    <2>1. at'[d] = at[d] /\ pc'[d] = pc[d] /\ outcome'[d] = outcome[d]
        BY <1>2 DEF PolicyTypes
    <2> QED
        BY <1>1, <2>1 DEF PolicyPlaces, Decided
<1>3. CASE d = c
    <2>1. at'[c] = at[c] + 1 /\ pc'[c] = "chain"
        BY DEF PolicyTypes
    <2>2. \A i \in Apps : i # at[c] => outcome'[c][i] = outcome[c][i]
        BY DEF PolicyTypes
    <2>3. ASSUME NEW i \in Apps, i < at'[c] PROVE Decided(c, i)'
        <3>1. CASE i = at[c]
            BY <3>1 DEF Decided
        <3>2. CASE i # at[c]
            <4>1. i \in Nat /\ at[c] \in Nat
                BY DEF PolicyTypes
            <4>2. i < at[c]
                BY <2>1, <2>3, <3>2, <4>1
            <4> QED
                BY <1>1, <1>3, <2>2, <3>2, <4>2 DEF PolicyPlaces, Decided
        <3> QED
            BY <3>1, <3>2
    <2>4. PBX \notin legs[c]
        BY <1>1, <1>3 DEF PolicyPlaces, PolicyTypes
    <2> QED
        BY <1>3, <2>1, <2>3, <2>4 DEF PolicyPlaces, PastChain, MediaSteps
<1> QED
    BY <1>2, <1>3

\* The outcome of the application the goroutine is at may change without moving on.
LEMMA PolicyCount ==
    ASSUME PolicyTypes, AllPolicy, NEW c \in Calls, at[c] \in Apps, at' = at,
           NEW s \in Outcomes, outcome' = [outcome EXCEPT ![c][at[c]] = s],
           \/ pc' = [pc EXCEPT ![c] = "abort"]
           \/ pc' = [pc EXCEPT ![c] = "hook"] /\ s \in {"invoked", "tapless"},
           legs' = legs \/ legs' = [legs EXCEPT ![c] = @ \cup {at[c]}]
    PROVE  AllPolicy'
<1> SUFFICES ASSUME NEW d \in Calls PROVE PolicyPlaces(d)'
    BY DEF AllPolicy
<1>1. PolicyPlaces(d)
    BY DEF AllPolicy
<1>2. CASE d # c
    <2>1. pc'[d] = pc[d] /\ outcome'[d] = outcome[d] /\ legs'[d] = legs[d]
        BY <1>2 DEF PolicyTypes
    <2> QED
        BY <1>1, <2>1 DEF PolicyPlaces, Decided
<1>3. CASE d = c
    <2>1. outcome'[c][at[c]] = s
        BY DEF PolicyTypes
    <2>2. \A i \in Apps : i # at[c] => outcome'[c][i] = outcome[c][i]
        BY DEF PolicyTypes
    <2>3. ASSUME NEW i \in Apps, i < at[c] PROVE Decided(c, i)'
        <3>1. i # at[c]
            BY <2>3 DEF PolicyTypes
        <3> QED
            BY <1>1, <1>3, <2>2, <2>3, <3>1 DEF PolicyPlaces, Decided
    <2>4. PBX \notin legs'[c]
        BY <1>1, <1>3 DEF PolicyPlaces, PolicyTypes
    <2>5. pc'[c] = "abort" \/ (pc'[c] = "hook" /\ s \in {"invoked", "tapless"})
        BY DEF PolicyTypes
    <2> QED
        BY <1>3, <2>1, <2>3, <2>4, <2>5 DEF PolicyPlaces, PastChain, MediaSteps
<1> QED
    BY <1>2, <1>3

\* Every step keeps the applications that were passed decided.
LEMMA PolicyStep == TypeInv /\ AllPolicy /\ [Next]_vars => AllPolicy'
<1> SUFFICES ASSUME TypeInv, AllPolicy, [Next]_vars PROVE AllPolicy'
    OBVIOUS
<1>0. PolicyTypes /\ AllPolicy /\ \A c \in Calls : pc[c] \in PastChain => at[c] = PBX
    BY PolicyTyping DEF AllPolicy, PolicyPlaces
<1>1. ASSUME NEW c \in Calls, NEW o \in Offers, NEW R \in SUBSET Apps, HandleInvite(c, o, R)
   PROVE AllPolicy'
    <2>1. at[c] = 1 /\ at' = at /\ legs' = legs /\ pc' = [pc EXCEPT ![c] = "admitted"]
        BY <1>0, <1>1 DEF HandleInvite, Goto, AllPolicy, PolicyPlaces
    <2>2. \A i \in Apps : ~(i < at[c])
        BY <1>0, <2>1 DEF PolicyTypes
    <2>3. \A d \in Calls : d # c => outcome'[d] = outcome[d]
        BY <1>0, <1>1 DEF HandleInvite, PolicyTypes
    <2> QED
        BY <1>0, <2>1, <2>2, <2>3 DEF AllPolicy, PolicyPlaces, Decided, PolicyTypes, PastChain,
           MediaSteps
<1>2. ASSUME NEW c \in Calls, HookInbound(c) PROVE AllPolicy'
    BY <1>0, <1>2, PolicyMove DEF HookInbound, Goto, PastChain, MediaSteps, BridgeSteps,
       callVars, dialogVars, tdVars, engVars
<1>3. ASSUME NEW c \in Calls, SkipUnrouted(c) PROVE AllPolicy'
    <2>1. /\ at[c] \in Apps /\ at' = [at EXCEPT ![c] = @ + 1]
          /\ outcome[c][at[c]] = "unrouted" /\ outcome' = outcome /\ legs' = legs
        BY <1>3 DEF SkipUnrouted, callVars
    <2>2. pc' = [pc EXCEPT ![c] = "chain"]
        BY <1>0, <1>3 DEF SkipUnrouted, PolicyTypes
    <2> QED
        BY <1>0, <2>1, <2>2, PolicyAdvance
<1>4. ASSUME NEW c \in Calls, BadAppURI(c) PROVE AllPolicy'
    BY <1>0, <1>4, PolicyMove DEF BadAppURI, AtApp, Fail, Goto, PastChain, MediaSteps,
       BridgeSteps, tdVars, engVars
<1>5. ASSUME NEW c \in Calls, AcquireTapCaller(c) PROVE AllPolicy'
    BY <1>0, <1>5, PolicyMove DEF AcquireTapCaller, AtApp, AcquirePair, Goto, PastChain,
       MediaSteps, BridgeSteps, callVars, dialogVars, tdVars, engVars
<1>6. ASSUME NEW c \in Calls, AcquireTapCallee(c) PROVE AllPolicy'
    BY <1>0, <1>6, PolicyMove DEF AcquireTapCallee, AcquirePair, Goto, PastChain, MediaSteps,
       BridgeSteps, callVars, dialogVars, tdVars, engVars
<1>7. ASSUME NEW c \in Calls, BindTap(c) PROVE AllPolicy'
    BY <1>0, <1>7, PolicyMove DEF BindTap, BindPairs, Goto, PastChain, MediaSteps, BridgeSteps,
       callVars, dialogVars, tdVars, engVars
<1>8. ASSUME NEW c \in Calls, TapSetupFails(c) PROVE AllPolicy'
    <2>1. at[c] \in Apps /\ legs' = legs /\ outcome' = [outcome EXCEPT ![c][at[c]] = "failed"]
        BY <1>0, <1>8 DEF TapSetupFails, AtApp, AppFailed, PolicyTypes, AtApplication
    <2>2. CASE pc' = [pc EXCEPT ![c] = "abort"] /\ at' = at
        BY <1>0, <2>1, <2>2, PolicyCount DEF Outcomes
    <2>3. CASE /\ pc' = [pc EXCEPT ![c] = "chain"] /\ at' = [at EXCEPT ![c] = @ + 1]
               /\ FailureAction(c) = "skip"
        <3>1. outcome'[c][at[c]] = "failed" /\ Sequence[at[c]].onFailure = "skip"
            BY <1>0, <2>1, <2>3 DEF FailureAction, App, PolicyTypes
        <3> QED
            BY <1>0, <2>1, <2>3, <3>1, PolicyAdvance DEF Outcomes
    <2> QED
        BY <1>8, <2>2, <2>3 DEF TapSetupFails, AppFailed, Fail, Goto
<1>9. ASSUME NEW c \in Calls, OfferInactive(c) PROVE AllPolicy'
    BY <1>0, <1>9, PolicyMove DEF OfferInactive, AtApp, Goto, PastChain, MediaSteps,
       BridgeSteps, callVars, dialogVars, tdVars, engVars
<1>10. ASSUME NEW c \in Calls, BuildOfferFails(c) PROVE AllPolicy'
    BY <1>0, <1>10, PolicyMove DEF BuildOfferFails, AtApp, Fail, Goto, PastChain, MediaSteps,
       BridgeSteps, tdVars, engVars
<1>11. ASSUME NEW c \in Calls, DialApp(c) PROVE AllPolicy'
    BY <1>0, <1>11, PolicyMove DEF DialApp, Goto, PastChain, MediaSteps, BridgeSteps, callVars,
       tdVars, engVars
<1>12. ASSUME NEW c \in Calls, WaitAnswerApp(c) PROVE AllPolicy'
    BY <1>0, <1>12, PolicyMove DEF WaitAnswerApp, Goto, PastChain, MediaSteps, BridgeSteps,
       callVars, tdVars, engVars
<1>13. ASSUME NEW c \in Calls, AppLegFails(c) PROVE AllPolicy'
    <2>1. at[c] \in Apps /\ legs' = legs /\ outcome' = [outcome EXCEPT ![c][at[c]] = "failed"]
        BY <1>0, <1>13 DEF AppLegFails, AppFailed, PolicyTypes, AtApplication
    <2>2. CASE pc' = [pc EXCEPT ![c] = "abort"] /\ at' = at
        BY <1>0, <2>1, <2>2, PolicyCount DEF Outcomes
    <2>3. CASE /\ pc' = [pc EXCEPT ![c] = "chain"] /\ at' = [at EXCEPT ![c] = @ + 1]
               /\ FailureAction(c) = "skip"
        <3>1. outcome'[c][at[c]] = "failed" /\ Sequence[at[c]].onFailure = "skip"
            BY <1>0, <2>1, <2>3 DEF FailureAction, App, PolicyTypes
        <3> QED
            BY <1>0, <2>1, <2>3, <3>1, PolicyAdvance DEF Outcomes
    <2> QED
        BY <1>13, <2>2, <2>3 DEF AppLegFails, AppFailed, Fail, Goto
<1>14. ASSUME NEW c \in Calls, AppendAppLeg(c) PROVE AllPolicy'
    <2>1. at[c] \in Apps
        BY <1>0, <1>14 DEF AppendAppLeg, PolicyTypes, AtApplication
    <2> QED
        BY <1>0, <1>14, <2>1, PolicyCount DEF AppendAppLeg, Goto, Outcomes
<1>15. ASSUME NEW c \in Calls, TapAnswerUnparsed(c) PROVE AllPolicy'
    <2>1. at[c] \in Apps
        BY <1>0, <1>15 DEF TapAnswerUnparsed, PolicyTypes, AtApplication
    <2> QED
        BY <1>0, <1>15, <2>1, PolicyCount DEF TapAnswerUnparsed, Goto, Outcomes
<1>16. ASSUME NEW c \in Calls, HookAppLeg(c) PROVE AllPolicy'
    <2>1. /\ at[c] \in Apps /\ at' = [at EXCEPT ![c] = @ + 1]
          /\ outcome' = outcome /\ legs' = legs /\ pc' = [pc EXCEPT ![c] = "chain"]
        BY <1>0, <1>16 DEF HookAppLeg, Goto, PolicyTypes, AtApplication, callVars
    <2>2. outcome[c][at[c]] \in {"invoked", "tapless"}
        BY <1>0, <1>16 DEF HookAppLeg, AllPolicy, PolicyPlaces
    <2> QED
        BY <1>0, <2>1, <2>2, PolicyAdvance
<1>17. ASSUME NEW c \in Calls, ChainDone(c) PROVE AllPolicy'
    BY <1>0, <1>17, PolicyMove DEF ChainDone, Goto, PastChain, MediaSteps, BridgeSteps, callVars,
       dialogVars, tdVars, engVars
<1>18. ASSUME NEW c \in Calls, AnchorEndpoint(c) PROVE AllPolicy'
    BY <1>0, <1>18, PolicyMove DEF AnchorEndpoint, AcquirePair, Goto, PastChain, MediaSteps,
       BridgeSteps, callVars, dialogVars, tdVars, engVars
<1>19. ASSUME NEW c \in Calls, AnchorWebRTC(c) PROVE AllPolicy'
    BY <1>0, <1>19, PolicyMove DEF AnchorWebRTC, Goto, PastChain, MediaSteps, BridgeSteps,
       dialogVars, tdVars, engVars
<1>20. ASSUME NEW c \in Calls, AnchorPBX(c) PROVE AllPolicy'
    BY <1>0, <1>20, PolicyMove DEF AnchorPBX, AcquirePair, Goto, PastChain, MediaSteps,
       BridgeSteps, callVars, dialogVars, tdVars, engVars
<1>21. ASSUME NEW c \in Calls, BindAnchor(c) PROVE AllPolicy'
    BY <1>0, <1>21, PolicyMove DEF BindAnchor, BindPairs, Goto, PastChain, MediaSteps,
       BridgeSteps, callVars, dialogVars, tdVars, engVars
<1>22. ASSUME NEW c \in Calls, AnchorFails(c) PROVE AllPolicy'
    BY <1>0, <1>22, PolicyMove DEF AnchorFails, Fail, Goto, PastChain, MediaSteps, BridgeSteps,
       tdVars, engVars
<1>23. ASSUME NEW c \in Calls, RegisterMedia(c) PROVE AllPolicy'
    BY <1>0, <1>23, PolicyMove DEF RegisterMedia, Goto, PastChain, MediaSteps, BridgeSteps,
       dialogVars, tdVars, engVars
<1>24. ASSUME NEW c \in Calls, RegisterRefused(c) PROVE AllPolicy'
    BY <1>0, <1>24, PolicyMove DEF RegisterRefused, Goto, PastChain, MediaSteps, BridgeSteps,
       callVars, tdVars, engVars
<1>25. ASSUME NEW c \in Calls, DialPBX(c) PROVE AllPolicy'
    BY <1>0, <1>25, PolicyMove DEF DialPBX, Goto, PastChain, MediaSteps, BridgeSteps, tdVars,
       engVars
<1>26. ASSUME NEW c \in Calls, WaitAnswerPBX(c) PROVE AllPolicy'
    BY <1>0, <1>26, PolicyMove DEF WaitAnswerPBX, Goto, PastChain, MediaSteps, BridgeSteps,
       callVars, tdVars, engVars
<1>27. ASSUME NEW c \in Calls, PBXFails(c) PROVE AllPolicy'
    BY <1>0, <1>27, PolicyMove DEF PBXFails, Fail, Goto, PastChain, MediaSteps, BridgeSteps,
       tdVars, engVars
<1>28. ASSUME NEW c \in Calls, HookPBX(c) PROVE AllPolicy'
    BY <1>0, <1>28, PolicyMove DEF HookPBX, Goto, PastChain, MediaSteps, BridgeSteps, callVars,
       tdVars, engVars
<1>29. ASSUME NEW c \in Calls, PBXAnswerUnparsed(c) PROVE AllPolicy'
    BY <1>0, <1>29, PolicyMove DEF PBXAnswerUnparsed, Fail, Goto, PastChain, MediaSteps,
       BridgeSteps, tdVars, engVars
<1>30. ASSUME NEW c \in Calls, Establish(c) PROVE AllPolicy'
    BY <1>0, <1>30, PolicyMove DEF Establish, Goto, PastChain, MediaSteps, BridgeSteps,
       dialogVars, tdVars, engVars
<1>31. ASSUME NEW c \in Calls, AnswerInbound(c) PROVE AllPolicy'
    BY <1>0, <1>31, PolicyMove DEF AnswerInbound, Goto, PastChain, MediaSteps, BridgeSteps,
       callVars, tdVars, engVars
<1>32. ASSUME NEW c \in Calls, AnswerFails(c) PROVE AllPolicy'
    BY <1>0, <1>32, PolicyMove DEF AnswerFails, Goto, PastChain, MediaSteps, BridgeSteps,
       callVars, tdVars, engVars
<1>33. ASSUME NEW c \in Calls, AbortTeardown(c) PROVE AllPolicy'
    BY <1>0, <1>33, PolicyMove DEF AbortTeardown, Goto, PastChain, MediaSteps, BridgeSteps,
       dialogVars, engVars
<1>34. ASSUME NEW c \in Calls, BridgeReturns(c) PROVE AllPolicy'
    BY <1>0, <1>34, PolicyMove DEF BridgeReturns, Goto, PastChain, MediaSteps, BridgeSteps,
       callVars, dialogVars, tdVars, engVars
<1>35. ASSUME NEW c \in Calls,
             \/ TeardownCancel(c) \/ TeardownClose(c) \/ TeardownRelease(c)
             \/ TeardownRemove(c) \/ TeardownByes(c) \/ CallerCancels(c) \/ CallerByes(c)
             \/ InboundHook(c)
      PROVE  AllPolicy'
    <2>1. UNCHANGED <<pc, at, legs, outcome>>
        BY <1>35 DEF TeardownCancel, TeardownClose, TeardownRelease, TeardownRemove,
           TeardownByes, CallerCancels, CallerByes, InboundHook, callVars, bridgeVars,
           dialogVars, tdVars, engVars
    <2> QED
        BY <1>0, <2>1 DEF AllPolicy, PolicyPlaces, Decided
<1>36. ASSUME NEW c \in Calls,
             \/ Reap(c) \/ ShutdownCall(c)
      PROVE  AllPolicy'
    <2>1. UNCHANGED <<pc, at, legs, outcome>>
        BY <1>36 DEF Reap, ShutdownCall, bridgeVars, dialogVars, engVars
    <2> QED
        BY <1>0, <2>1 DEF AllPolicy, PolicyPlaces, Decided
<1>37. ASSUME NEW c \in Calls, NEW l \in Legs, LegEnds(c, l) PROVE AllPolicy'
    <2>1. UNCHANGED <<pc, at, legs, outcome>>
        BY <1>37 DEF LegEnds, callVars, bridgeVars, tdVars, engVars
    <2> QED
        BY <1>0, <2>1 DEF AllPolicy, PolicyPlaces, Decided
<1>38. ASSUME NEW c \in Calls, NEW l \in Legs, LegHook(c, l) PROVE AllPolicy'
    <2>1. UNCHANGED <<pc, at, legs, outcome>>
        BY <1>38 DEF LegHook, bridgeVars, engVars
    <2> QED
        BY <1>0, <2>1 DEF AllPolicy, PolicyPlaces, Decided
<1>39. ASSUME RunCtxDone \/ Shutdown \/ Exit \/ UNCHANGED vars PROVE AllPolicy'
    <2>1. UNCHANGED <<pc, at, legs, outcome>>
        BY <1>39 DEF RunCtxDone, Shutdown, Exit, vars, callVars, bridgeVars, dialogVars, tdVars,
           engVars
    <2> QED
        BY <1>0, <2>1 DEF AllPolicy, PolicyPlaces, Decided
<1>40. ASSUME NEW c \in Calls, RelayCloses(c) PROVE AllPolicy'
    <2>1. UNCHANGED <<pc, at, legs, outcome>>
        BY <1>40 DEF RelayCloses, callVars, bridgeVars, dialogVars, tdVars
    <2> QED
        BY <1>0, <2>1 DEF AllPolicy, PolicyPlaces, Decided
<1> QED
    BY <1>1, <1>2, <1>3, <1>4, <1>5, <1>6, <1>7, <1>8, <1>9, <1>10, <1>11, <1>12, <1>13, <1>14,
       <1>15, <1>16, <1>17, <1>18, <1>19, <1>20, <1>21, <1>22, <1>23, <1>24, <1>25, <1>26,
       <1>27, <1>28, <1>29, <1>30, <1>31, <1>32, <1>33, <1>34, <1>35, <1>36, <1>37, <1>38,
       <1>39, <1>40
       DEF Next, CallStep, Bridge, TeardownStep, Exited

-----------------------------------------------------------------------------
(* The invariant of a call, and what it shows *)

\* The parts depend on each other in this order: the settled calls need the session's
\* places, the legs need the settled calls and the PBX leg, and the registry needs none
\* but the places of the pairs.
CallInv ==
    /\ SocketInv /\ Registered
    /\ AllSettled /\ AllReplied
    /\ AllPBX /\ AllLegs /\ AllPolicy

\* CallInv is an inductive invariant of the call bridge.
LEMMA CallInvariant == Spec => []CallInv
<1>1. Init => CallInv
    <2>1. Init => Registered /\ AllSettled /\ AllReplied
        BY DEF Init, Registered, AllSettled, SettledCall, AllReplied, Replied
    <2>2. Init => AllPBX
        BY LegNumbers DEF Init, AllPBX, PBXPlaces
    <2>3. Init => AllLegs
        BY DEF Init, AllLegs, LegPlaces
    <2>4. Init => AllPolicy
        BY ConfigAssumption DEF Init, AllPolicy, PolicyPlaces, PastChain, MediaSteps, Apps,
           Decided
    <2> QED
        BY <2>1, <2>2, <2>3, <2>4, InitSockets DEF CallInv
<1>2. CallInv /\ [Next]_vars => CallInv'
    <2> SUFFICES ASSUME CallInv, [Next]_vars PROVE CallInv'
        OBVIOUS
    <2>1. /\ TypeInv /\ AllPlaces /\ PairOwnedOnce /\ HookTaken /\ AllMedia /\ Sockets
          /\ Registered /\ AllSettled /\ AllReplied /\ AllPBX /\ AllLegs /\ AllPolicy
        BY DEF CallInv, SocketInv, PairInv
    <2>2. SocketInv'
        BY <2>1, SocketInvStep DEF CallInv
    <2>3. Registered'
        BY <2>1, LifeStep DEF LifeInv
    <2>4. AllSettled' /\ AllReplied'
        BY <2>1, SettledStep, RepliedStep
    <2>5. AllPBX' /\ AllLegs' /\ AllPolicy'
        BY <2>1, PBXStep, LegsStep, PolicyStep
    <2> QED
        BY <2>2, <2>3, <2>4, <2>5 DEF CallInv
<1> QED
    BY <1>1, <1>2, PTL DEF Spec

\* reg.remove is the last thing a teardown does to the shared state: a call that left the
\* registry is tearing down, its relay is closed and the pairs of its two sides are back
\* in the pool, however its setup and the teardown interleaved.
THEOREM UnwoundBeforeRemoved == Spec => []DeregisteredIsUnwound
<1>1. CallInv => DeregisteredIsUnwound
    <2> SUFFICES ASSUME CallInv, NEW c \in Calls, state[c] # "none", c \notin calls
                 PROVE  /\ state[c] = "tearingDown" /\ sess[c] # "open"
                        /\ fixed[c] \subseteq returned[c]
        BY DEF DeregisteredIsUnwound
    <2>0. MediaTypes /\ Registered /\ HookTaken /\ AllMedia
        BY DEF CallInv, SocketInv, PairInv, TypeInv, TypeOK, MediaTypes, PlaceTypes
    <2>1. state[c] = "tearingDown"
        BY <2>0 DEF Registered, MediaTypes, CallStates
    <2>2. td[c] \in ReleasedSteps
        BY <2>0, <2>1 DEF Registered, HookTaken, MediaTypes, TeardownSteps, ReleasedSteps
    <2> QED
        BY <2>0, <2>1, <2>2 DEF AllMedia, MediaPlaces, ReleasedSteps, ClosedSteps
<1> QED
    BY <1>1, CallInvariant, PTL

\* A call that Establish let through, and that nobody has begun to tear down, has all of
\* its parts: a session with its sockets bound, or closed with them by the end of the run
\* and nothing else, the PBX leg recorded and answered, nothing pending or in hand, and
\* its entry in the registry.
THEOREM EstablishedWhole == Spec => []EstablishedIsWhole
<1>1. CallInv => EstablishedIsWhole
    <2> SUFFICES ASSUME CallInv, NEW c \in Calls, state[c] = "established"
                 PROVE  /\ fixed[c] # {}
                        /\ \/ sess[c] = "open" /\ fixed[c] \cup taps[c] \subseteq open
                           \/ /\ sess[c] = "closed" /\ eng # "run"
                              /\ (fixed[c] \cup taps[c]) \cap open = {}
                        /\ PBX \in legs[c]
                        /\ leg[c][PBX] \in {"hooked", "ended", "lost", "unmatched", "gone"}
                        /\ pend[c] = {} /\ cur[c] = {}
                        /\ c \in calls
        BY DEF EstablishedIsWhole
    <2>0. /\ MediaTypes /\ Registered /\ AllPlaces /\ AllMedia /\ AllRelays /\ Sockets /\ AllPBX
        BY DEF CallInv, SocketInv, PairInv, TypeInv, TypeOK, MediaTypes, PlaceTypes
    <2>1. pc[c] \in SettledSteps /\ fixed[c] # {} /\ pend[c] = {} /\ td[c] = "none"
        BY <2>0 DEF AllMedia, MediaPlaces, AllPlaces, PairPlaces
    <2>2. sess[c] \in {"open", "closed"}
        BY <2>0, <2>1 DEF AllMedia, MediaPlaces, MediaTypes
    <2>3. sess[c] = "open" => fixed[c] \cup taps[c] \subseteq open
        BY <2>0 DEF Sockets, Bound
    <2>4. sess[c] = "closed" => eng # "run" /\ (fixed[c] \cup taps[c]) \cap open = {}
        BY <2>0, <2>1 DEF AllRelays, RelayPlaces, ClosedSteps
    <2>5. cur[c] = {}
        BY <2>0, <2>1 DEF AllPlaces, PairPlaces, SettledSteps, HoldingSteps
    <2>6. c \in calls
        BY <2>0 DEF Registered
    <2>7. PBX \in legs[c] /\ leg[c][PBX] \in AnsweredLeg
        BY <2>0 DEF AllPBX, PBXPlaces
    <2> QED
        BY <2>1, <2>2, <2>3, <2>4, <2>5, <2>6, <2>7 DEF AnsweredLeg
<1> QED
    BY <1>1, CallInvariant, PTL

\* The PBX is dialled only after every application was decided in the way its on_failure
\* allows, whatever the chain and the outcome of its legs.
THEOREM PolicyIsHonoured == Spec => []PolicyHonoured
<1>1. CallInv => PolicyHonoured
    <2> SUFFICES ASSUME CallInv, NEW c \in Calls, PBX \in legs[c], NEW i \in Apps
                 PROVE  Decided(c, i)
        BY DEF PolicyHonoured, Decided
    <2>1. at[c] = PBX
        BY DEF CallInv, AllPolicy, PolicyPlaces
    <2>2. i < PBX
        BY ConfigAssumption DEF Apps, PBX
    <2> QED
        BY <2>1, <2>2 DEF CallInv, AllPolicy, PolicyPlaces
<1> QED
    BY <1>1, CallInvariant, PTL

\* A call whose teardown did not interrupt its setup owns no pair and relays nothing once
\* the teardown and the goroutine are done: pairs are lost only to a teardown that comes
\* while the chain is still being set up.
THEOREM NothingLeaks == Spec => []NoLeakUnlessInterrupted
<1>1. CallInv => NoLeakUnlessInterrupted
    <2> SUFFICES ASSUME CallInv, NEW c \in Calls, AtRest(c), td[c] = "done", ~SetupInterrupted(c)
                 PROVE  Owned(c) = {} /\ sess[c] # "open"
        BY DEF NoLeakUnlessInterrupted
    <2>0. AllPlaces /\ AllMedia /\ AllSettled
        BY DEF CallInv, SocketInv, PairInv
    <2>1. cur[c] = {}
        BY <2>0 DEF AllPlaces, PairPlaces, AtRest, HoldingSteps
    <2>2. pend[c] = {} /\ taps[c] \subseteq returned[c]
        BY <2>0 DEF AllSettled, SettledCall, ReleasedSteps
    <2>3. fixed[c] \subseteq returned[c] /\ sess[c] # "open"
        BY <2>0 DEF AllMedia, MediaPlaces, ReleasedSteps, ClosedSteps
    <2> QED
        BY <2>1, <2>2, <2>3 DEF Owned
<1> QED
    BY <1>1, CallInvariant, PTL

\* A goroutine that returns has sent the caller a final response, or the caller is gone,
\* unless a teardown interrupted the setup.
THEOREM FinalIsSent == Spec => []FinalUnlessInterrupted
<1>1. CallInv => FinalUnlessInterrupted
    BY DEF CallInv, FinalUnlessInterrupted, AllReplied, Replied
<1> QED
    BY <1>1, CallInvariant, PTL

\* Once the teardown of an established call is done, none of its legs is up or ringing:
\* no leg can be answered after the snapshot of the dialogs is taken.
THEOREM TeardownByesAll == Spec => []EstablishedTeardownByesAll
<1>1. CallInv => EstablishedTeardownByesAll
    <2> SUFFICES ASSUME CallInv, NEW c \in Calls, td[c] = "done", Inbound \in tdLegs[c],
                        NEW l \in Legs
                 PROVE  leg[c][l] \notin {"ringing", "late", "up", "hooked"}
        BY DEF EstablishedTeardownByesAll
    <2>1. pc[c] \in SettledSteps
        BY DEF CallInv, AllSettled, SettledCall, SetupInterrupted
    <2> QED
        BY <2>1 DEF CallInv, AllLegs, LegPlaces, SettledSteps
<1> QED
    BY <1>1, CallInvariant, PTL
=============================================================================
