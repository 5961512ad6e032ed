CONSTANTS
    Runs <- MCRuns
    Revocable = {1}
    MaxCrashes = 1
SPECIFICATION FairDeviceSpec
CHECK_DEADLOCK FALSE
INVARIANTS
    OneCA
    HeldIsRecorded
    LoneSaveMatches
PROPERTIES
    ListedStaysListed
    RevocationReaches
