SPECIFICATION Spec
CONSTANTS
    Users = {u1}
    GameAccounts = {g1}
    Items = {}
    Kits = {k1}
    None = None
    Prices = {1}
    Stocks = {1}
    Amounts = {2}
    MaxBalance = 100
    MaxLines = 2
    Sessions = {s1, s2}
    Outcomes <- Reliable
    Spawned = {g1}
    Capacity = 2
    DBMayFail = FALSE
    MayCrash = FALSE
    EarnBound = 1
INVARIANTS
    KitAllOrNothing
CHECK_DEADLOCK FALSE
