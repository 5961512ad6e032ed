CONSTANTS
    Sessions <- MCConns
    Subjects = {"alice"}
    Serials = {"n1", "n2"}
    SubOf <- MCSubOf
    SerialOf <- MCOneSerial
    MaxPerSubject = 2
    TTLs = {1}
    ProxyReasons = {"dial_failure", "peer_end", "ttl_expired", "admin_kill"}
    MaxTime = 2
    Revocable = {"n1"}
    StopBefore = 1
SPECIFICATION FairGatewaySpec
INVARIANTS
    MapMatchesHandlers
    RevocationEndsSessions
    DrainBeforeKill
PROPERTIES
    ImplementsManager
    NoRelayAfterCancel
    CutEndsDial
    ShutdownEnds
