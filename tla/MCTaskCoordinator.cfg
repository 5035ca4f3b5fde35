SPECIFICATION Spec
CONSTANTS
    Tasks = {t1, t2}
    Workers = {w1, w2}
    Requests <- MCRequests
    NoTarget = "none"
    MaxPending = 2
    MaxPersisted = 2
    MaxAttempt = 2
    Faults = {"dispatch"}
INVARIANTS
    TypeOK
    NoOverlap
    StoppedMeansStopped
    LedgerWriters
PROPERTIES
    FinishedIsFinal
    KeepsLifecycle
CHECK_DEADLOCK FALSE
SYMMETRY Symmetry
