SPECIFICATION FairSpec
CONSTANTS
    Calls = {c1}
    Contenders = {}
    Pairs = {p1, p2}
    Sequence <- NoApps
    NextHopTransport = "tls"
    Offers = {"plain"}
PROPERTY LegByeUnwindsCall
