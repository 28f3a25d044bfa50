SPECIFICATION FairSpec
CONSTANTS
    d1 = d1
    d2 = d2
    Decisions <- MCTwoDecisions
    RedisEnabled = FALSE
    MaxRetries = 2
    BaseDelay = 1
    MaxDelay = 2
    SameMillisecond = FALSE
    MaxFaults = 2
    MaxAdmin = 2
INVARIANTS
    TypeOK
    NothingForgotten
    RetriesDoNotMultiply
PROPERTIES
    EverythingSettles
