CONSTANTS
    Keys <- MCKeys
    Rate = 1
    Burst = 2
    Idle = 2
    MaxTime = 6
SPECIFICATION LimiterSpec
PROPERTY
    ImplementsBucket
