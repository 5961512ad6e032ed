CONSTANTS
    Chunks = 2
    Buffer = 1
SPECIFICATION FairRelaySpec
CHECK_DEADLOCK FALSE
INVARIANT
    ReceivedIsPrefix
PROPERTIES
    PeerEndsProxy
    DownloadArrives
