SPECIFICATION FairSpec
CONSTANTS
    Tasks = {t1}
    Workers = {w1}
    Requests <- MCOneRequest
    NoTarget = "none"
    MaxPending = 1
    MaxPersisted = 1
    MaxAttempt = 1
    Faults = {}
PROPERTIES
    CancelSettles
CHECK_DEADLOCK FALSE
