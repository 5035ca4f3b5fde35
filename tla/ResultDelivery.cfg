SPECIFICATION Spec
CONSTANTS
    Consumers = {c1, c2}
    MaxRevision = 2
    MaxAttempts = 3
    MaxEntries = 1
    Faults = TRUE
INVARIANTS
    TypeOK
    AtMostOneSend
    OneGeneration
    AccountIsTrue
PROPERTIES
    NothingIsTakenBack
    KeepsPromise
SYMMETRY Symmetry
CHECK_DEADLOCK FALSE
