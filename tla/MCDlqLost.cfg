SPECIFICATION Spec
CONSTANTS
    d1 = d1
    d2 = d2
    Decisions <- MCTwoDecisions
    RedisEnabled = TRUE
    MaxRetries = 2
    BaseDelay = 1
    MaxDelay = 2
    SameMillisecond = FALSE
    MaxFaults = 0
    MaxAdmin = 0
INVARIANT
    NothingForgotten
