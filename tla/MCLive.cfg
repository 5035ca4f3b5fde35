SPECIFICATION LiveSpec
CONSTANTS
    Tasks = {t1, t2}
    Workers = {w1}
    Requests <- MCQuery
    NoTarget = "none"
    MaxPending = 2
    MaxPersisted = 1
    MaxAttempt = 1
    Faults = {}
    Records <- MCPlugins
    DependsOn <- MCDependsOn
    Threads = {ta, tb}
    MaxCalls = 2
INVARIANTS
    LiveTypeOK
    ClosedAfterUse
PROPERTIES
    QueuedWorkServed
    RunningCancelSettles
    StoppedIsClosed
CHECK_DEADLOCK FALSE
