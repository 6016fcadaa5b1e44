SPECIFICATION Spec
CONSTANTS
    Users = {u1, u2}
    GameAccounts = {g1}
    Items = {i1}
    Kits = {}
    None = None
    Prices = {1, 2}
    Stocks <- AnyStock
    Amounts = {2}
    MaxBalance = 100
    MaxLines = 1
    Sessions = {s1, s2}
    Outcomes <- Reliable
    Spawned = {g1}
    Capacity = 1
    DBMayFail = TRUE
    MayCrash = TRUE
    EarnBound = 1
INVARIANTS
    TypeOK
    RefundSound
    SettledExactly
    StockAccounted
SYMMETRY SessionSymmetry
CHECK_DEADLOCK FALSE
