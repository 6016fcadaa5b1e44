SPECIFICATION Spec
CONSTANTS
    Users = {u1}
    GameAccounts = {g1}
    Items = {i1}
    Kits = {k1}
    None = None
    Prices = {1}
    Stocks = {}
    Amounts = {2}
    MaxBalance = 100
    MaxLines = 1
    Sessions = {s1, s2}
    Outcomes <- Reliable
    Spawned = {g1}
    Capacity = 1
    DBMayFail = FALSE
    MayCrash = TRUE
    EarnBound = 1
PROPERTIES
    Answered
    AbortIsRefunded
CHECK_DEADLOCK FALSE
