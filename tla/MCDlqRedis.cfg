SPECIFICATION FairSpec
CONSTANTS
    d1 = d1
    d2 = d2
    Decisions <- MCOneDecision
    RedisEnabled = TRUE
    MaxRetries = 2
    BaseDelay = 1
    MaxDelay = 2
    SameMillisecond = TRUE
    MaxFaults = 3
    MaxAdmin = 1
INVARIANTS
    OpenCircuitHasNoClient
PROPERTIES
    PersistBranchEnds
