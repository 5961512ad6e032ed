CONSTANTS
    Sessions <- MCSessions
    Subjects = {"alice", "bob"}
    Serials = {"n1", "n2"}
    SubOf <- MCSubOf
    SerialOf <- MCSerialOf
    MaxPerSubject = 1
    TTLs = {0, 1}
    ProxyReasons = {"normal", "ttl_expired"}
    MaxTime = 2
SPECIFICATION FairManagerSpec
INVARIANTS
    SubjectLimit
    ReapOnlyPastTTL
PROPERTIES
    EndIsFinal
    ImplementsFairRegistry
