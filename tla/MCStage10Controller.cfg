SPECIFICATION Spec10
CONSTANTS
    Symbols <- MCSymbols
    Snapshots <- MCSnapshots
    FillPrices <- MCFillPrices
    Protections = {}
    SwitchStates <- MCSwitchStates
    HardTimeout = 0
    MaxExecutions = 0
    Intents <- MCIntents
    DailyMaxTrades = 2
    PerSymbolMaxTrades = 1
    DailyMaxLoss = 550
    MaxSubmissions = 3
    MaxInterventions = 0
INVARIANTS
    TypeOK10
    CountersMatchAudit
    CapsHold
    LossOvershootBounded
    AuditIsComplete
