-------------------------------- MODULE Store --------------------------------
(***************************************************************************)
(* The dune_shop schema of PostgreSQL and the operations of internal/store *)
(* that write it.  Each operation is one database transaction, so it is    *)
(* one step here.  Reads are operators over the same state.                *)
(*                                                                         *)
(* A linked_accounts row is identified by its discord user: the column is  *)
(* UNIQUE and no operation deletes a row, so the serial id and the user    *)
(* are in bijection.  A transactions row is identified by its position in  *)
(* the ledger.  Catalogue items and kits differ only in how many item      *)
(* lines they deliver and in who may edit them, so both live on one shelf. *)
(***************************************************************************)
EXTENDS Integers, Sequences, FiniteSets

CONSTANTS
    Users,          \* discord user ids
    GameAccounts,   \* in-game (funcom) account ids
    Items,          \* ids of catalog_items rows
    Kits,           \* ids of kits rows
    None,           \* SQL NULL / no row
    Prices,         \* prices an admin may set
    Stocks,         \* limited stock values an admin may set
    Amounts,        \* amounts earned, topped up or granted
    MaxBalance,     \* the largest value of the bigint balance column
    MaxLines        \* bound: item lines an admin puts in one kit

Products == Items \cup Kits

ASSUME StoreAssumption ==
    /\ None \notin Users \cup GameAccounts \cup Products
    /\ Items \cap Kits = {}
    /\ Prices \subseteq Nat
    /\ Stocks \subseteq Int
    /\ Amounts \subseteq Nat
    /\ MaxBalance \in Nat
    /\ MaxLines \in Nat

VARIABLES
    link,       \* linked_accounts: the game account of each linked user
    wallets,    \* the users that have a wallets row
    balance,    \* wallets.balance
    shelf,      \* catalog_items and kits (with the number of their kit_items)
    txns,       \* transactions, the ledger
    written     \* history: stock and sales of a product when its stock was last written

storeVars == <<link, wallets, balance, shelf, txns, written>>

TxnKinds == {"earn", "spend", "adjust"}
DeliveryStatuses == {"none", "pending", "done", "failed"}

(* An offer: the columns of a catalog_items or kits row the operations read.
   A NULL stock (a nil *int in Go) is limited = FALSE. *)
Offers == [listed : BOOLEAN, enabled : BOOLEAN, price : Nat,
           limited : BOOLEAN, stock : Int, lines : Nat]

Unlisted == [listed |-> FALSE, enabled |-> FALSE, price |-> 0,
             limited |-> FALSE, stock |-> 0, lines |-> 0]

Rows == [acct : Users, kind : TxnKinds, amount : Int,
         product : Products \cup {None}, delivery : DeliveryStatuses]

-----------------------------------------------------------------------------
(* Reads *)

Rowids == 1..Len(txns)

Spends(p) == {n \in Rowids : txns[n].product = p}

Sold(p) == Cardinality(Spends(p))

Delta(u, row) == IF row.acct = u THEN row.amount ELSE 0

(* The balance the ledger implies for u after each of its rows. *)
RunningBalance(u) ==
    LET run[n \in 0..Len(txns)] ==
            IF n = 0 THEN 0 ELSE run[n - 1] + Delta(u, txns[n])
    IN  run

Has(u, amount) == u \in wallets /\ balance[u] >= amount

(* The bigint column rejects a sum that leaves its range. *)
Fits(u, amount) == balance[u] + amount <= MaxBalance

(* Mutant: the debit does not ask for balance >= price. *)
PurchaseResultUnfunded(u, p) ==
    LET o == shelf[p] IN
    IF ~o.listed \/ ~o.enabled \/ o.lines = 0 \/ u \notin wallets THEN "unavailable"
    ELSE IF o.limited /\ o.stock <= 0 THEN "outOfStock" ELSE "ok"

(* What Purchase or PurchaseKit answers: the checks in the order of the code.
   Only a kit can have no item line (an item is its own line). *)
PurchaseResult(u, p) ==
    LET o == shelf[p] IN
    IF      ~o.listed                   THEN "notFound"
    ELSE IF ~o.enabled                  THEN "unavailable"
    ELSE IF o.limited /\ o.stock <= 0   THEN "outOfStock"
    ELSE IF o.lines = 0                 THEN "unavailable"
    ELSE IF u \notin wallets            THEN "notFound"
    ELSE IF ~Has(u, o.price)            THEN "insufficientFunds"
    ELSE "ok"

-----------------------------------------------------------------------------
(* Writes *)

(* INSERT ... ON CONFLICT (discord_user_id) DO UPDATE, then the wallet.  The
   UNIQUE game_account_id makes the insert fail when another user holds g. *)
LinkAccount(u, g) ==
    /\ \A v \in Users \ {u} : link[v] # g
    /\ link' = [link EXCEPT ![u] = g]
    /\ wallets' = wallets \cup {u}
    /\ UNCHANGED <<balance, shelf, txns, written>>

Credit(u, amount, kind) ==
    /\ u \in wallets
    /\ Fits(u, amount)
    /\ balance' = [balance EXCEPT ![u] = @ + amount]
    /\ txns' = Append(txns, [acct |-> u, kind |-> kind, amount |-> amount,
                             product |-> None, delivery |-> "none"])
    /\ UNCHANGED <<link, wallets, shelf, written>>

Refund(u, amount) == Credit(u, amount, "adjust")

SpendRow(u, p) == [acct |-> u, kind |-> "spend", amount |-> -shelf[p].price,
                   product |-> p, delivery |-> "pending"]

TakeOne(o) == IF o.limited THEN [o EXCEPT !.stock = @ - 1] ELSE o

Purchase(u, p) ==
    /\ PurchaseResult(u, p) = "ok"
    /\ balance' = [balance EXCEPT ![u] = @ - shelf[p].price]
    /\ shelf' = [shelf EXCEPT ![p] = TakeOne(@)]
    /\ txns' = Append(txns, SpendRow(u, p))
    /\ UNCHANGED <<link, wallets, written>>

SetDeliveryStatus(n, status) ==
    /\ n \in Rowids
    /\ txns' = [txns EXCEPT ![n] = [@ EXCEPT !.delivery = status]]
    /\ UNCHANGED <<link, wallets, balance, shelf, written>>

PutOnShelf(p, o) ==
    /\ shelf' = [shelf EXCEPT ![p] = o]
    /\ written' = [written EXCEPT ![p] = [stock |-> o.stock, sold |-> Sold(p)]]
    /\ UNCHANGED <<link, wallets, balance, txns>>

(* An insert when i is not on the shelf yet, else an update of every column,
   the stock included. *)
UpsertItem(i, o) == i \in Items /\ o.lines = 1 /\ PutOnShelf(i, o)

CreateKit(k, o) == k \in Kits /\ ~shelf[k].listed /\ PutOnShelf(k, o)

AddKitItem(k) ==
    /\ k \in Kits
    /\ shelf[k].listed
    /\ shelf' = [shelf EXCEPT ![k] = [@ EXCEPT !.lines = shelf[k].lines + 1]]
    /\ UNCHANGED <<link, wallets, balance, txns, written>>

(* SetItemEnabled and SetKitEnabled are the same statement on two tables. *)
SetEnabled(p, on) ==
    /\ shelf[p].listed
    /\ shelf' = [shelf EXCEPT ![p] = [@ EXCEPT !.enabled = on]]
    /\ UNCHANGED <<link, wallets, balance, txns, written>>

-----------------------------------------------------------------------------
(* The offers an admin may submit: no stock number when the stock is NULL. *)
NewOffers(lines) ==
    {o \in [listed : {TRUE}, enabled : BOOLEAN, price : Prices,
            limited : BOOLEAN, stock : Stocks \cup {0}, lines : lines] :
        IF o.limited THEN o.stock \in Stocks ELSE o.stock = 0}

StoreInit ==
    /\ link = [u \in Users |-> None]
    /\ wallets = {}
    /\ balance = [u \in Users |-> 0]
    /\ shelf = [p \in Products |-> Unlisted]
    /\ txns = <<>>
    /\ written = [p \in Products |-> [stock |-> 0, sold |-> 0]]

Link == \E u \in Users, g \in GameAccounts : LinkAccount(u, g)

(* Playtime, a vote or a payment. *)
Earn == \E u \in Users, amount \in Amounts : Credit(u, amount, "earn")

Grant == \E u \in Users, amount \in Amounts : Credit(u, amount, "adjust")

GiveBack == \E u \in Users, amount \in Prices : Refund(u, amount)

Buy == \E u \in Users, p \in Products : Purchase(u, p)

Settle == \E n \in Rowids, status \in {"done", "failed"} : SetDeliveryStatus(n, status)

EditItem == \E i \in Items, o \in NewOffers({1}) : UpsertItem(i, o)

AddKit == \E k \in Kits, o \in NewOffers(0..MaxLines) : CreateKit(k, o)

GrowKit == \E k \in Kits : shelf[k].lines < MaxLines /\ AddKitItem(k)

EditKit == AddKit \/ GrowKit

Toggle == \E p \in Products, on \in BOOLEAN : SetEnabled(p, on)

(* Any caller, any order of calls: what the rest of the program may do with
   the database, before anything is said of how it uses it. *)
StoreNext ==
    \/ Link \/ Earn \/ Grant \/ GiveBack \/ Buy \/ Settle
    \/ EditItem \/ EditKit \/ Toggle

StoreSpec == StoreInit /\ [][StoreNext]_storeVars

-----------------------------------------------------------------------------
(* Every column keeps its type, and a balance never leaves 0..MaxBalance: the
   CHECK (balance >= 0) of 0001_init.sql is never what stops a purchase. *)
StoreTypeOK ==
    /\ link \in [Users -> GameAccounts \cup {None}]
    /\ wallets \in SUBSET Users
    /\ balance \in [Users -> 0..MaxBalance]
    /\ shelf \in [Products -> Offers]
    /\ txns \in Seq(Rows)
    /\ written \in [Products -> [stock : Int, sold : Nat]]

(* The ledger is the whole truth about money: a wallet holds exactly the sum
   of the rows of its account (wallet.go, purchase.go and kits.go each write
   the balance and the row in one transaction). *)
LedgerReconciles ==
    \A u \in Users : balance[u] = RunningBalance(u)[Len(txns)]

(* Since an admin last wrote the stock of a product, sales came off it one for
   one and never took it below zero (purchase.go:42,67; kits.go:171,205).
   Refunded sales count: a refund puts nothing back on the shelf. *)
StockAccounted ==
    \A p \in Products : shelf[p].limited =>
        /\ shelf[p].stock = written[p].stock - (Sold(p) - written[p].sold)
        /\ Sold(p) > written[p].sold => shelf[p].stock >= 0

(* No game account is held by two users, whoever links or relinks when, and
   every ledger row and every link belongs to an account that has a wallet
   (accounts.go:21-37). *)
AccountsSound ==
    /\ \A u, v \in Users : u # v /\ link[u] # None => link[u] # link[v]
    /\ \A u \in Users : link[u] # None => u \in wallets
    /\ \A n \in Rowids : txns[n].acct \in wallets
=============================================================================
