SPECIFICATION FairSpec
CONSTANTS
    Invites = {i1, i2}
    NumStreams = 2
INVARIANTS
    SocketsAccounted
PROPERTIES
    ByeEndsRecording
    ShutdownEndsRecordings
