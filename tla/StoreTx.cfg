SPECIFICATION Spec
CONSTANTS
    Users = {u1, u2}
    GameAccounts = {g1}
    Items = {}
    Kits = {k1}
    None = None
    Prices = {1}
    Stocks = {1}
    Amounts = {2}
    MaxBalance = 3
    MaxLines = 2
    MaxRows = 3
    Txs = {t1, t2}
    MaxConns = 2
INVARIANTS
    TypeOK
    StoreTypeOK
    LedgerReconciles
    StockAccounted
    AccountsSound
    ReadIsCurrent
    OnlyLinksDeadlock
PROPERTIES
    Serialisable
    EveryCallEnds
CHECK_DEADLOCK FALSE
