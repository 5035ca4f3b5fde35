SPECIFICATION Spec
CONSTANTS
    Consumers = {c1}
    MaxRevision = 1
    MaxAttempts = 2
    MaxEntries = 1
    Faults = FALSE
INVARIANTS
    RecoveryInspectsPublication
CHECK_DEADLOCK FALSE
