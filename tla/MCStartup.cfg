SPECIFICATION Spec
CONSTANTS
    Nil = Nil
    CertFiles <- MCCertFiles
    KeyFiles <- MCKeyFiles
    CAFiles <- MCCAFiles
    SystemRoots = {"sys"}
    Suites = {"s1", "s2"}
    Now = 2
    Documents <- MCDocuments
    Peers <- MCPeers
INVARIANT ServesWholeDocument
PROPERTIES
    ContextsKeepPromises
    StopEndsProcess
