SPECIFICATION ServiceSpec
CONSTANTS
    Tasks = {t1}
    Workers = {w1}
    Requests <- ServiceRequests
    NoTarget = "none"
    Host = "host"
    MaxPending = 1
    MaxPersisted = 1
    MaxAttempt = 2
    Faults = {}
    Recovery = TRUE
    Explored = {"resume", "stop"}
INVARIANTS
    ResumedIsShown
CHECK_DEADLOCK FALSE
