CONSTANTS
    h1 = h1
    h2 = h2
    k1 = k1
    k2 = k2
    Handlers <- MCHandlers
    Keys <- MCKeys
    Names = {"app"}
    Routes <- MCRoutes
    ResourceTTL = 2
    MaxEntries = 1
    CacheTTL = 1
    DecisionTTL = 2
    MaxVersion = 2
    MaxTime = 2
    MaxTurns = 1
    MaxChanges = 1
SPECIFICATION PepSpec
INVARIANTS
    AuthorizedIsDialled
    PublishedWithinTTL
    StaleWithinTTL
SYMMETRY MCSymmetry
CHECK_DEADLOCK FALSE
