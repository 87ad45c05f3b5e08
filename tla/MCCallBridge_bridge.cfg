SPECIFICATION Spec
CONSTANTS
    Calls = {c1}
    Contenders = {}
    Pairs = {p1, p2, p3, p4}
    Sequence <- TapThenPlain
    NextHopTransport = "plain"
    Offers = {"plain", "nohost", "nocodecs", "nothing", "webrtc", "webrtcVideo"}
SYMMETRY PairSymmetry
INVARIANTS
    TypeOK
    EstablishedIsWhole
    PolicyHonoured
    NoLeakUnlessInterrupted
    FreeIsUnboundUnlessLateTap
    FinalUnlessInterrupted
    EstablishedTeardownByesAll
    DeregisteredIsUnwound
PROPERTY RefinesLifecycle
