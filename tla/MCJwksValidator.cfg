SPECIFICATION JwksSpec
CONSTANTS
    r1 = r1
    r2 = r2
    k1 = k1
    k2 = k2
    Requests <- MCRequests
    Kids <- MCKids
    First <- MCFirst
    TTL = 1
    Timeout = 1
    MaxTime = 4
PROPERTIES
    StaleKeyBounded
    KnownKeyIsFound
SYMMETRY MCSymmetry
