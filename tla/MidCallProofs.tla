--------------------------- MODULE MidCallProofs ----------------------------
(***************************************************************************)
(* Theorems about MidCall, for any number of overlapping re-INVITEs and    *)
(* REFERs.                                                                 *)
(***************************************************************************)
EXTENDS MidCall, TLAPS

\* The BYE at the end of a transfer comes after the detachment, in the handler and
\* therefore on the dialog.  OwnByeKeepsTransfer is not inductive without it.
DetachedBeforeBye ==
    /\ \A r \in Refers : step[r] = "bye" => detached
    /\ inb = "dropped" => detached

TransferInv == TypeOK /\ DetachedBeforeBye /\ OwnByeKeepsTransfer /\ AnchorsAgree

LEMMA TransferInit == Init => TransferInv
BY RequestAssumption DEF Init, TransferInv, TypeOK, DetachedBeforeBye, OwnByeKeepsTransfer,
   AnchorsAgree, Requests, Ending

LEMMA TeardownKeeps ==
    ASSUME TypeOK, NEW why \in {"none", "pbx", "target", "engine"} \cup Ending, Teardown(why)
    PROVE  /\ state' \in {"established", "tearingDown"} /\ registered' \in BOOLEAN
           /\ td' \in {"none", "committed", "removed", "done"}
           /\ tdTarget' \in {"none"} \cup Refers
           /\ cause' \in {"none", "pbx", "target", "engine"} \cup Ending
           /\ cause' \in {cause, why}
BY DEF Teardown, TypeOK, tdVars

\* No step breaks the invariant.
LEMMA TransferStep == TransferInv /\ [Next]_vars => TransferInv'
<1> SUFFICES ASSUME TransferInv, [Next]_vars PROVE TransferInv'
    OBVIOUS
<1> USE RequestAssumption DEF TransferInv, DetachedBeforeBye, OwnByeKeepsTransfer, AnchorsAgree
<1>1. ASSUME NEW q \in ReInvites, ReInviteRejected(q) PROVE TransferInv'
    BY <1>1 DEF ReInviteRejected, Goto, Finish, TypeOK, Requests, mediaVars, transferVars,
       handlerVars, tdVars
<1>2. ASSUME NEW q \in ReInvites, ReInviteRefresh(q) PROVE TransferInv'
    BY <1>2 DEF ReInviteRefresh, Goto, Finish, TypeOK, Requests, mediaVars, transferVars,
       handlerVars, tdVars
<1>3. ASSUME NEW q \in ReInvites, ReInviteAsks(q) PROVE TransferInv'
    BY <1>3 DEF ReInviteAsks, Goto, Finish, TypeOK, Requests, mediaVars, transferVars,
       handlerVars, tdVars
<1>4. ASSUME NEW q \in ReInvites, ReInviteFails(q) PROVE TransferInv'
    BY <1>4 DEF ReInviteFails, Goto, Finish, TypeOK, Requests, mediaVars, transferVars,
       handlerVars, tdVars
<1>5. ASSUME NEW q \in ReInvites, ReInviteAccepted(q) PROVE TransferInv'
    BY <1>5 DEF ReInviteAccepted, Goto, Finish, TypeOK, Requests, mediaVars, transferVars,
       handlerVars, tdVars
<1>6. ASSUME NEW q \in ReInvites, Reanchor(q) PROVE TransferInv'
    BY <1>6 DEF Reanchor, Goto, Finish, TypeOK, Requests, mediaVars, transferVars, handlerVars,
       tdVars
<1>7. ASSUME NEW r \in Refers, ReferRejected(r) PROVE TransferInv'
    BY <1>7 DEF ReferRejected, Goto, Finish, Ending, TypeOK, Requests, mediaVars, transferVars,
       handlerVars, tdVars
<1>8. ASSUME NEW r \in Refers, ReferAccepted(r) PROVE TransferInv'
    BY <1>8 DEF ReferAccepted, Goto, Finish, Ending, TypeOK, Requests, mediaVars, transferVars,
       handlerVars, tdVars
<1>9. ASSUME NEW r \in Refers, ReferDial(r) PROVE TransferInv'
    BY <1>9 DEF ReferDial, Goto, Finish, Ending, TypeOK, Requests, mediaVars, transferVars,
       handlerVars, tdVars
<1>10. ASSUME NEW r \in Refers, ReferAnswered(r) PROVE TransferInv'
    BY <1>10 DEF ReferAnswered, Goto, Finish, Ending, TypeOK, Requests, mediaVars, transferVars,
       handlerVars, tdVars
<1>11. ASSUME NEW r \in Refers, ReferFails(r) PROVE TransferInv'
    BY <1>11 DEF ReferFails, Goto, Finish, Ending, TypeOK, Requests, mediaVars, transferVars,
       handlerVars, tdVars
<1>12. ASSUME NEW r \in Refers, ReferUnparsed(r) PROVE TransferInv'
    BY <1>12 DEF ReferUnparsed, Goto, Finish, Ending, TypeOK, Requests, mediaVars, transferVars,
       handlerVars, tdVars
<1>13. ASSUME NEW r \in Refers, ReferRepoints(r) PROVE TransferInv'
    BY <1>13 DEF ReferRepoints, Goto, Finish, Ending, TypeOK, Requests, mediaVars, transferVars,
       handlerVars, tdVars
<1>14. ASSUME NEW r \in Refers, ReferHooks(r) PROVE TransferInv'
    BY <1>14 DEF ReferHooks, Goto, Finish, Ending, TypeOK, Requests, mediaVars, transferVars,
       handlerVars, tdVars
<1>15. ASSUME NEW r \in Refers, ReferNotifies(r) PROVE TransferInv'
    BY <1>15 DEF ReferNotifies, Goto, Finish, Ending, TypeOK, Requests, mediaVars, transferVars,
       handlerVars, tdVars
<1>16. ASSUME NEW r \in Refers, ReferDetaches(r) PROVE TransferInv'
    BY <1>16 DEF ReferDetaches, Goto, Finish, Ending, TypeOK, Requests, mediaVars, transferVars,
       handlerVars, tdVars
<1>17. ASSUME NEW r \in Refers, ReferByes(r) PROVE TransferInv'
    BY <1>17 DEF ReferByes, Goto, Finish, Ending, TypeOK, Requests, mediaVars, transferVars,
       handlerVars, tdVars
<1>18. ASSUME NEW r \in Refers, TargetByes(r) PROVE TransferInv'
    BY <1>18 DEF TargetByes, Goto, Finish, Ending, TypeOK, Requests, mediaVars, transferVars,
       handlerVars, tdVars
<1>19. ASSUME NEW r \in Refers, TargetHook(r) PROVE TransferInv'
    BY <1>19, TeardownKeeps DEF TargetHook, Ending, TypeOK, mediaVars, transferVars,
       handlerVars, tdVars
<1>20. ASSUME CallerByes PROVE TransferInv'
    BY <1>20 DEF CallerByes, Ending, TypeOK, mediaVars, transferVars, handlerVars, tdVars
<1>21. ASSUME PBXByes PROVE TransferInv'
    BY <1>21 DEF PBXByes, Ending, TypeOK, mediaVars, transferVars, handlerVars, tdVars
<1>22. ASSUME TeardownByes PROVE TransferInv'
    BY <1>22 DEF TeardownByes, Ending, TypeOK, mediaVars, transferVars, handlerVars, tdVars
<1>23. ASSUME TeardownRemove PROVE TransferInv'
    <2>1. registered' \in BOOLEAN
        BY <1>23 DEF TeardownRemove
    <2>2. td' \in {"none", "committed", "removed", "done"}
        BY <1>23 DEF TeardownRemove
    <2> QED
        BY <1>23, <2>1, <2>2 DEF TeardownRemove, TypeOK, mediaVars, transferVars, handlerVars,
           tdVars
<1>24. ASSUME InboundHook PROVE TransferInv'
    <2>1. CASE detached /\ UNCHANGED tdVars
        BY <1>24, <2>1 DEF InboundHook, Ending, TypeOK, mediaVars, transferVars, handlerVars,
           tdVars
    <2>2. CASE ~detached /\ Teardown(inb)
        <3>1. inb # "dropped" /\ inb \in Ending
            BY <1>24, <2>2 DEF InboundHook
        <3> QED
            BY <1>24, <2>2, <3>1, TeardownKeeps DEF InboundHook, TypeOK, mediaVars,
               transferVars, handlerVars, tdVars
    <2> QED
        BY <1>24, <2>1, <2>2 DEF InboundHook
<1>25. ASSUME PBXHook PROVE TransferInv'
    BY <1>25, TeardownKeeps DEF PBXHook, Ending, TypeOK, mediaVars, transferVars, handlerVars,
       tdVars
<1>26. ASSUME EngineEnds PROVE TransferInv'
    BY <1>26, TeardownKeeps DEF EngineEnds, Ending, TypeOK, mediaVars, transferVars,
       handlerVars, tdVars
<1>27. ASSUME UNCHANGED vars PROVE TransferInv'
    BY <1>27 DEF vars, TypeOK, mediaVars, transferVars, handlerVars, tdVars
<1> QED
    BY <1>1, <1>2, <1>3, <1>4, <1>5, <1>6, <1>7, <1>8, <1>9, <1>10, <1>11, <1>12, <1>13, <1>14,
       <1>15, <1>16, <1>17, <1>18, <1>19, <1>20, <1>21, <1>22, <1>23, <1>24, <1>25, <1>26, <1>27
       DEF Next, ReInvite, Refer, Rest

\* The BYE that ends a transfer never takes the transferred call with it.
THEOREM TransferOutlivesOwnBye == Spec => []OwnByeKeepsTransfer
<1>1. TransferInv => OwnByeKeepsTransfer
    BY DEF TransferInv
<1> QED
    BY <1>1, TransferInit, TransferStep, PTL DEF Spec

\* However requests overlap, the two sides and the recorded answer stay in step.
THEOREM AnchorsAlwaysAgree == Spec => []AnchorsAgree
<1>1. TransferInv => AnchorsAgree
    BY DEF TransferInv
<1> QED
    BY <1>1, TransferInit, TransferStep, PTL DEF Spec

-----------------------------------------------------------------------------
(* Transfer targets *)

\* A target is recorded once it has answered, so that teardown's snapshot never names one
\* that may still come up.
Past == {"hook", "notify", "detach", "bye", "done"}
RecordedHasAnswered ==
    /\ \A r \in Refers : r \in {transferTarget, tdTarget} => step[r] \in Past
    /\ \A r \in Refers : target[r] = "ringing" => step[r] = "wait"
    /\ state = "established" => td = "none"

TargetInv == RecordedHasAnswered /\ RecordedTargetIsByed

LEMMA TargetInit == Init => TargetInv
BY RequestAssumption DEF Init, TargetInv, RecordedHasAnswered, RecordedTargetIsByed, Past

\* No step breaks it: what a handler does after the snapshot hooks its target only if that
\* is still up, and teardown's BYE leaves no recorded target up.
LEMMA TargetStep == TypeOK /\ TargetInv /\ [Next]_vars => TargetInv'
<1> SUFFICES ASSUME TypeOK, TargetInv, [Next]_vars PROVE TargetInv'
    OBVIOUS
<1> USE RequestAssumption DEF TargetInv, RecordedHasAnswered, RecordedTargetIsByed, Past, TypeOK,
        Requests, Goto, Finish, mediaVars, transferVars, handlerVars, tdVars
<1>1. ASSUME NEW q \in ReInvites, ReInviteRejected(q) PROVE TargetInv'
    BY <1>1 DEF ReInviteRejected
<1>2. ASSUME NEW q \in ReInvites, ReInviteRefresh(q) PROVE TargetInv'
    BY <1>2 DEF ReInviteRefresh
<1>3. ASSUME NEW q \in ReInvites, ReInviteAsks(q) PROVE TargetInv'
    BY <1>3 DEF ReInviteAsks
<1>4. ASSUME NEW q \in ReInvites, ReInviteFails(q) PROVE TargetInv'
    BY <1>4 DEF ReInviteFails
<1>5. ASSUME NEW q \in ReInvites, ReInviteAccepted(q) PROVE TargetInv'
    BY <1>5 DEF ReInviteAccepted
<1>6. ASSUME NEW q \in ReInvites, Reanchor(q) PROVE TargetInv'
    BY <1>6 DEF Reanchor
<1>7. ASSUME NEW r \in Refers, ReferRejected(r) PROVE TargetInv'
    BY <1>7 DEF ReferRejected
<1>8. ASSUME NEW r \in Refers, ReferAccepted(r) PROVE TargetInv'
    BY <1>8 DEF ReferAccepted
<1>9. ASSUME NEW r \in Refers, ReferDial(r) PROVE TargetInv'
    BY <1>9 DEF ReferDial
<1>10. ASSUME NEW r \in Refers, ReferAnswered(r) PROVE TargetInv'
    BY <1>10 DEF ReferAnswered
<1>11. ASSUME NEW r \in Refers, ReferFails(r) PROVE TargetInv'
    BY <1>11 DEF ReferFails
<1>12. ASSUME NEW r \in Refers, ReferUnparsed(r) PROVE TargetInv'
    BY <1>12 DEF ReferUnparsed
<1>13. ASSUME NEW r \in Refers, ReferRepoints(r) PROVE TargetInv'
    BY <1>13 DEF ReferRepoints
<1>14. ASSUME NEW r \in Refers, ReferHooks(r) PROVE TargetInv'
    BY <1>14 DEF ReferHooks
<1>15. ASSUME NEW r \in Refers, ReferNotifies(r) PROVE TargetInv'
    BY <1>15 DEF ReferNotifies
<1>16. ASSUME NEW r \in Refers, ReferDetaches(r) PROVE TargetInv'
    BY <1>16 DEF ReferDetaches
<1>17. ASSUME NEW r \in Refers, ReferByes(r) PROVE TargetInv'
    BY <1>17 DEF ReferByes
<1>18. ASSUME NEW r \in Refers, TargetByes(r) PROVE TargetInv'
    BY <1>18 DEF TargetByes
<1>19. ASSUME NEW r \in Refers, TargetHook(r) PROVE TargetInv'
    BY <1>19 DEF TargetHook, Teardown
<1>20. ASSUME CallerByes PROVE TargetInv'
    BY <1>20 DEF CallerByes
<1>21. ASSUME PBXByes PROVE TargetInv'
    BY <1>21 DEF PBXByes
<1>22. ASSUME InboundHook PROVE TargetInv'
    BY <1>22 DEF InboundHook, Teardown
<1>23. ASSUME PBXHook PROVE TargetInv'
    BY <1>23 DEF PBXHook, Teardown
<1>24. ASSUME EngineEnds PROVE TargetInv'
    BY <1>24 DEF EngineEnds, Teardown
<1>25. ASSUME TeardownRemove PROVE TargetInv'
    BY <1>25 DEF TeardownRemove
<1>26. ASSUME TeardownByes PROVE TargetInv'
    BY <1>26 DEF TeardownByes
<1>27. ASSUME UNCHANGED vars PROVE TargetInv'
    BY <1>27 DEF vars
<1> QED
    BY <1>1, <1>2, <1>3, <1>4, <1>5, <1>6, <1>7, <1>8, <1>9, <1>10, <1>11, <1>12, <1>13,
       <1>14, <1>15, <1>16, <1>17, <1>18, <1>19, <1>20, <1>21, <1>22, <1>23, <1>24, <1>25,
       <1>26, <1>27
       DEF Next, ReInvite, Refer, Rest

\* A transfer target that teardown has snapshotted is not left up, however many REFERs
\* race with it.
THEOREM RecordedTargetsAreByed == Spec => []RecordedTargetIsByed
<1>1. TransferInv => TypeOK
    BY DEF TransferInv
<1>2. TargetInv => RecordedTargetIsByed
    BY DEF TargetInv
<1> QED
    BY <1>1, <1>2, TransferInit, TransferStep, TargetInit, TargetStep, PTL DEF Spec
=============================================================================
