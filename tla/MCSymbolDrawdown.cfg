SPECIFICATION ServicesSpec
CONSTANTS
    AdvisoryIds = {"a", "b"}
    Snapshots <- MCSnapshots
    MaxTime = 2
    MaxCalls = 4
    Callers = {c1, c2, c3}
    CooldownMs = 2
    MaxEvents = 2
    ActiveHours = {0, 1, 2, 3, 5}
    MaxTrackedEvents = 10
    MaxIds = 11
    MaxMs = 5
    MaxStamp = 2
    MaxRounds = 2
    PlanRuns = {r1, r2, r3}
    StepPlans <- MCStepPlans
    StartStep = "start"
    MaxConcurrency = 2
    Lookups = {l1, l2}
    Ttl = 2
    ConfigHas = TRUE
    MaxVersion = 1
    MaxClock = 3
    Recorders = {t1, t2}
    CorrelationIds = {d1, d2}
    MaxRecorded = 4
    MaxInstant = 2
    PaperTrades <- MCPaperTrades
    Slippages = {0, 4}
    MinWinRate = 45
    MinTrades = 3
    MaxStreak = 1
    MinAvgPnl = 0
    MaxDrawdown <- MCMaxDrawdown
    MinDrawdownTrades = 3
    MaxOutcomes = 3
    MaxEvaluations = 1
    MaxRuleChanges = 0
    TradeContexts <- MCTradeContexts
    TradePnl <- MCTradePnl
    MaxTradesPerDay = 2
    MaxDailyLoss = 2
    MaxTradesPerSymbol = 1
    MaxTradesPerTimeframe = 1
    CooldownAfterLoss = 4
    MinTradeSpacing = 3
    KillzoneHours <- MCKillzoneHours
    HoursPerDay = 5
    MaxTaken = 3
    LastHour = 6
    ReviewedIds = {d1, d2}
    AnnotationTypes = {"concern", "other"}
    PnlImpacts <- MCPnlImpacts
    MaxReviews = 4
    MaxReviewTime = 1
    RawDecisions <- MCRawDecisions
    DecisionTimes = {0, 1999, 2000, 4000}
    DedupWindow = 2
    Channels = {"slack", "discord", "telegram", "email"}
    RoutingRules <- MCRoutingRules
    Overrides <- MCOverrides
    QuietHours <- MCQuietHours
    HoursOfDay = {0, 3, 12, 23}
    Notifiers = {"slack", "discord", "telegram"}
    AdvisorySignals <- MCAdvisorySignals
    BlockedTypes = {"noise"}
    MinConfidence = 4
    MaxProcessed = 2
    PrefixOf <- MCPrefixOf
    StepNamesInQuestion = {"s1", "s2", "s9"}
    ContextKeys = {"k"}
    PlansInQuestion <- MCPlansInQuestion
    ContextsInQuestion <- MCContextsInQuestion
    SimulatedIds = {s1, s2}
    SimulatedEvents <- MCSimulatedEvents
    MaxSimulated = 4
    Reports <- MCReports
    MaxArchived = 4
INVARIANT SymbolDrawdownStops
CHECK_DEADLOCK FALSE
