SPECIFICATION FairSpec
CONSTANTS
    N = 2
    PhoneAddrs = {a4, a6}
    V6Addrs = {a6}
    ZonedAddrs = {}
    NextHop = pbx
    NextHopURIs = {"ok", "bad"}
    MaxForwardsModulus = 128
    MaxForwards = {0, 1}
    MaxProvisional = 1
    MaxForwarding = 1
INVARIANTS
    HopsRunDry
PROPERTIES
    RefinesServerTransaction
    AnswerReachesOriginator
    FlowsDeliver
    RequestAnswered
