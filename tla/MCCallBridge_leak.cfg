SPECIFICATION Spec
CONSTANTS
    Calls = {c1}
    Contenders = {}
    Pairs = {p1, p2, p3, p4}
    Sequence <- TapThenPlain
    NextHopTransport = "plain"
    Offers = {"plain"}
SYMMETRY PairSymmetry
INVARIANT NoPortLeak
