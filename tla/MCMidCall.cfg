SPECIFICATION FairSpec
CONSTANTS
    ReInvites = {q1, q2}
    Refers = {r1}
INVARIANTS
    AnchorsAgree
    OwnByeKeepsTransfer
    RecordedTargetIsByed
PROPERTIES
    HandlersFinish
    TargetEndUnwindsCall
