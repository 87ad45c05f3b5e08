SPECIFICATION FairSpec
CONSTANTS
    Dirs = {"rtpOut", "rtcpOut", "rtcpIn"}
    IdleTimeout = 4
    ReaperMaxInterval = 2
    MaxLag = 1
INVARIANTS
    FailureIsIsolated
    ReapedWasSilent
    ReapedInTime
PROPERTY RelayUnwinds
