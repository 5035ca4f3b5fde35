SPECIFICATION Spec
CONSTANTS
    Tasks = {t1, t2}
    Workers = {w1, w2}
    Requests <- MCOneRequest
    NoTarget = "none"
    MaxPending = 1
    MaxPersisted = 2
    MaxAttempt = 2
    Faults = {"store", "dispatch"}
INVARIANTS
    PendingBound
    DurableBeforeEffects
    NoReplay
CHECK_DEADLOCK FALSE
SYMMETRY Symmetry
