SPECIFICATION FairSpec10
CONSTANTS
    Symbols <- MCSymbols
    Snapshots <- MCOddSnapshots
    FillPrices <- MCFillPrices
    Protections = {TRUE, FALSE}
    SwitchStates <- MCSwitchStates
    HardTimeout = 0
    MaxExecutions = 0
    Intents <- MCOddIntents
    DailyMaxTrades = 2
    PerSymbolMaxTrades = 1
    DailyMaxLoss = 550
    MaxSubmissions = 1
    MaxInterventions = 3
PROPERTIES
    GlobalHaltStopsTrading
    SubmissionReturns
