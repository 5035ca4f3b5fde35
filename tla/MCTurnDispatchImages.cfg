SPECIFICATION Spec
CONSTANTS
    Messages = {m1, m2}
    Conversations = {"g1"}
    Profiles <- MCPictures
    Pool = 1
    TurnCap = 2
    TotalCap = 24
    ReviewCap = 16
    HistoryCap = 32
    None = None
INVARIANTS
    ImagesStayWithTheirMessages
CHECK_DEADLOCK FALSE
