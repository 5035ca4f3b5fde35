SPECIFICATION MemoriesSpec
CONSTANTS
    Parts = {"kernel", "memory", "projection", "learning", "digest"}
    a = a
    b = b
    x = x
    y = y
    z = z
    Events = {x, y, z}
    Scopes = {"room", "other"}
    ScopeOf <- MCScopeOf
    Attention = {q1}
    Understandings = {v1}
    Callers = {a, b}
    Window = 1
    Capacity = 1
    MaxAttempt = 3
    MaxVersion = 2
    Messages = {"event"}
    Day = "day"
    Queries = {a, b}
    Readers = {a, b}
    Calls = {x, y}
    DailyCalls = 1
    MaxSource = 2
    Candidates = {x, y}
    Proposers = {"proposer"}
    Evaluators = {a, b}
    Recallers = {"recaller"}
    ActiveLimit = 1
    MaxAssessed = 1
    MaxSwitched = 1
    UserTurns = {"u1"}
    Digest = "digest"
    Quiet = 1
    PermitAge = 1
    Unresolved = 2
    Lease = 3
    Retention = 3
    MaxTurns = 2
    MaxClock = 6
    MaxRevision = 4
    MaxLost = 0
INVARIANTS
    MemoriesTypeOK
    OncePerEvent
    DerivedFollowsSource
    DigestIsConsiderate
PROPERTIES
    DecisionsStand
    ForgottenIsGone
    ExperienceIsEarned
SYMMETRY Symmetry
CHECK_DEADLOCK FALSE
