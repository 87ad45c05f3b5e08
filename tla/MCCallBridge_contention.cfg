SPECIFICATION Spec
CONSTANTS
    Calls = {c1, c2}
    Contenders = {c2}
    Pairs = {p1, p2, p3, p4}
    Sequence <- OneTap
    NextHopTransport = "plain"
    Offers = {"plain"}
SYMMETRY PairSymmetry
CONSTRAINT Contention
INVARIANTS
    PairOwnedOnce
