SPECIFICATION Spec
CONSTANTS
    Messages = {m1, m2, m3}
    Conversations = {"g1", "g2"}
    Profiles <- MCProfiles
    Pool = 1
    TurnCap = 2
    TotalCap = 2
    ReviewCap = 1
    HistoryCap = 2
    None = None
INVARIANTS
    TurnsTypeOK
    CountsAreExact
    NothingIsLost
PROPERTIES
    PublishIsCurrent
SYMMETRY Symmetry
CHECK_DEADLOCK FALSE
