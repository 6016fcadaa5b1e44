SPECIFICATION Spec
CONSTANTS
    Users = {u1, u2}
    GameAccounts = {g1, g2}
    Items = {}
    Kits = {}
    None = None
    Prices = {}
    Stocks = {}
    Amounts = {2}
    MaxBalance = 4
    MaxLines = 0
    Payments = {p1}
    MaxWork = 2
    Reward = 1
    MaxListed = 2
    MaxCrashes = 1
    worker = worker
INVARIANTS
    CreditedIsPaid
    TwiceOnlyUnsure
    OncePerTick
    CleanTickPaysAll
PROPERTIES
    WorkEnds
CHECK_DEADLOCK FALSE
