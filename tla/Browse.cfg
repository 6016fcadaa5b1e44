SPECIFICATION Spec
CONSTANTS
    Users = {u1}
    GameAccounts = {g1}
    Items = {i1}
    Kits = {k1, k2}
    None = None
    Prices = {1, 2}
    Stocks = {}
    Amounts = {2}
    MaxBalance = 2
    MaxLines = 1
    Looks = {l1}
    Room = 1
    MaxRows = 2
INVARIANTS
    BoughtAsShown
CHECK_DEADLOCK FALSE
