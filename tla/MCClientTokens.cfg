CONSTANTS
    Procs <- MCProcs
    LoginProcs = {"p1"}
    RefreshIds = {"r1", "r2", "r3"}
    Lifetime = 2
    Margin = 1
    Timeout = 1
    Intervals = {1}
    SlowDown = 1
    CodeTTL = 1
SPECIFICATION FairTokenSpec
CHECK_DEADLOCK FALSE
INVARIANT
    StaysLoggedIn
PROPERTIES
    HandedOutIsValid
    LoginEnds
