SPECIFICATION Spec
CONSTANTS
    Symbols <- MCSymbols
    Snapshots <- MCSnapshots
    FillPrices <- MCFillPrices
    Protections = {TRUE, FALSE}
    SwitchStates <- MCSwitchStates
    HardTimeout = 1
    MaxExecutions = 2
INVARIANT LateFillIsNotATimeout
