SPECIFICATION FairSpec
CONSTANTS
    Calls = {c1}
    Contenders = {}
    Pairs = {p1, p2}
    Sequence <- PlainThenBad
    NextHopTransport = "plain"
    Offers = {"plain", "webrtc"}
PROPERTIES
    SetupEnds
    DialogEndUnwindsCall
    SnapshotIsEnded
