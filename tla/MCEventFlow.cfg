SPECIFICATION Spec
CONSTANTS
    Events = {"e1", "e2"}
    Queued = {"q1", "q2"}
    QueueOrder <- MCQueueOrder
    Decisions <- MCDecisions
    Forms <- MCForms
    Trades <- MCTrades
    Changes <- MCChanges
    QuietHours = {2}
    Modes <- MCModes
    PlansEnabled = TRUE
    Notifiers = {"slack"}
    MaxTime = 2
    MaxChanges = 1
    MaxFaults = 1
    Allowlist = TRUE
    Metrics <- MCMetrics
    MinSample = 2
    MinExpectancy <- MCMinExpectancy
    MinWinRate = 45
    Adaptation = TRUE
    WindowTrades = 10
INVARIANTS TypeOK RefusalsAreBooked StandingRefusalRefuses AcceptedIsKept 
PROPERTY EveryTaskEnds
