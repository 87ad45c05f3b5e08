SPECIFICATION Spec
CONSTANTS
    Nil = Nil
    Text <- MCText
    IPLiterals = {"a", "b", "r", "anchor"}
    Host = "anchor"
    EpPort = 100
    PbxPort = 102
    TapPorts <- MCTapPorts
    Recorder <- MCRecorder
    LibCodecs = {"opus", "PCMU", "PCMA", "G722"}
    TrackCodec = "opus"
    Offers <- MCOffers
    Answers <- MCAnswers
    CommonOffers <- MCCommonOffers
    CommonAnswers <- MCCommonAnswers
    AppAnswers <- MCAppAnswers
    MaxLines = 4
INVARIANTS
    PeersSendToAnchor
    AnchorSendsToPeers
    TapStreamsInOrder
    SilentCallIsReported
