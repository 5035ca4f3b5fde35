SPECIFICATION ComponentsSpec
CONSTANTS
    Parts = {"service", "talk", "files", "repairs", "batch", "gateway",
             "asks", "follows", "approvals", "twice", "budget", "loop", "calls", "rights", "kept",
             "handoff", "bench", "mcp", "questions", "summaries", "reply", "bubbles", "peers", "memories",
             "reviews", "boss", "query"}
    h1 = h1
    h2 = h2
    Tasks = {t1}
    Workers = {w1}
    Requests <- ServiceRequests
    NoTarget = "none"
    Host = "host"
    MaxPending = 1
    MaxPersisted = 1
    MaxAttempt = 3
    Faults = {"dispatch"}
    Recovery = TRUE
    Explored = {"cancel", "resume", "supplement", "raise", "stop"}
INVARIANTS
    ComponentsTypeOK
    EndIsQuiet
    LedgerLeads
    ResultBelongs
    UnknownIsNotRepeated
    EffectsAreSingle
    BudgetsHold
PROPERTIES
    CommittedIsFinal
    ReceiptsStand
CHECK_DEADLOCK FALSE
SYMMETRY Symmetry
