CONSTANTS
    Admins <- MCAdmins
    Readers <- MCReaders
    NRules = 2
    SeedFile = TRUE
    MaxVersions = 2
    MaxCrashes = 1
    NMigrations = 2
    NResources = 2
    Templates <- MCTemplates
    Requests <- MCRequests
    Second = 4
    Width = 5
    DefaultTTL = 4
    MinTTL = 4
    MaxTTL = 8
SPECIFICATION FairCPSpec
INVARIANTS
    OneActive
    SnapshotComplete
    ServesWithPolicy
    KeyOutlivesCerts
    CertWithinRights
PROPERTIES
    ServesAgain
    StopsInTime
    ImplementsCatalog
