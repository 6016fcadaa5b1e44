SPECIFICATION Spec
CONSTANTS
    Users = {u1}
    GameAccounts = {g1}
    Items = {}
    Kits = {k1}
    None = None
    Prices = {1}
    Stocks = {1}
    Amounts = {2}
    MaxBalance = 3
    MaxLines = 2
    Sessions = {s1, s2}
    Outcomes <- AnyOutcome
    Spawned = {g1}
    Capacity = 2
    DBMayFail = TRUE
    MayCrash = TRUE
    EarnBound = 1
SYMMETRY SessionSymmetry
INVARIANTS
    MoneyConserved
    DoneMeansDelivered
    PendingHasOwner
    NoSpaceIsClean
PROPERTIES
    ImplementsEscrow
    SettlementIsFinal
CHECK_DEADLOCK FALSE
