CONSTANTS
    Sessions <- MCConns
    Subjects = {"alice"}
    Serials = {"n1", "n2"}
    SubOf <- MCSubOf
    SerialOf <- MCOneSerial
    MaxPerSubject = 2
    TTLs = {0}
    ProxyReasons = {"dial_failure", "peer_end", "ttl_expired", "admin_kill"}
    MaxTime = 0
    Revocable = {"n1"}
    StopBefore = 0
SPECIFICATION GatewaySpec
INVARIANT
    NoSessionOnRevokedCert
