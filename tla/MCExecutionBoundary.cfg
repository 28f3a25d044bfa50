CONSTANTS
    IntentForms <- MCIntents
    ApprovalForms <- MCApprovals
    Callers = {c1, c2}
    LogFile = TRUE
    Jobs <- MCJobs
    MaxTime = 1
    MaxSwitches = 1
    MaxAttempts = 2
    MaxLostWrites = 1
SPECIFICATION Spec
INVARIANTS TypeOK  AuditAccountsForOrders
 
CHECK_DEADLOCK FALSE
SYMMETRY MCSymmetry
