-------------------------------- MODULE StoreTx --------------------------------
(***************************************************************************)
(* The store's operations statement by statement, as goroutines run them   *)
(* at once on the connections of one pool.  A transaction holds one        *)
(* connection from Begin to its end, and the row locks its statements took.*)
(* Its writes become visible when it commits (READ COMMITTED); until then  *)
(* they are in its own pending record.  The variables of Store are the     *)
(* committed tables.                                                       *)
(***************************************************************************)
EXTENDS Store

CONSTANTS
    Txs,        \* goroutines, each makes one store call after the other
    MaxConns,   \* connections of the pool
    MaxRows     \* bound: no new call once the ledger is this long

(* A kit may be created with one line and has room for another. *)
ASSUME TxAssumption ==
    /\ None \notin Txs
    /\ MaxConns \in Nat \ {0}
    /\ MaxRows \in Nat
    /\ MaxLines > 1

VARIABLES
    conns,      \* connections not in use
    pc,         \* the statement each goroutine runs next
    call,       \* the store call it makes
    pending,    \* what it read under its locks and what it will write
    locks,      \* the transaction that has a row locked, or None
    shares      \* the transactions that hold a linked_accounts row KEY SHARE

txVars == <<conns, pc, call, pending, locks, shares>>
vars == <<storeVars, txVars>>

(* The rows two transactions may contend for. *)
AccountRow(u) == <<"account", u>>
WalletRow(u) == <<"wallet", u>>
ProductRow(p) == <<"product", p>>
LockRows == {AccountRow(u) : u \in Users} \cup {WalletRow(u) : u \in Users}
                \cup {ProductRow(p) : p \in Products}

(* The statements that hold a connection. *)
Statements == {"lock", "kitItems", "wallet", "record", "upsert", "unique",
               "ensureWallet", "single", "commit"}
Labels == Statements \cup {"idle", "begin"}

Calls == [op : {"purchase"}, user : Users, product : Products]
         \cup [op : {"credit"}, user : Users, amount : Amounts]
         \cup [op : {"link"}, user : Users, game : GameAccounts]
         \cup [op : {"grow", "edit", "toggle"}, product : Products]
         \cup [op : {"settle"}]

NoCall == [op |-> "none"]

Nothing == [offer |-> Unlisted, balance |-> 0]

TxInit ==
    /\ StoreInit
    /\ conns = MaxConns
    /\ pc = [t \in Txs |-> "idle"]
    /\ call = [t \in Txs |-> NoCall]
    /\ pending = [t \in Txs |-> Nothing]
    /\ locks = [r \in LockRows |-> None]
    /\ shares = [u \in Users |-> {}]

-----------------------------------------------------------------------------
(* Locks and waiting *)

Holder(r) == IF locks[r] = None THEN {} ELSE {locks[r]}

(* The running /link transactions that have taken game account g, or are giving
   it up: an insert into its UNIQUE index waits for them. *)
Claimants(g) ==
    {t \in Txs : /\ call[t].op = "link"
                 /\ \/ pc[t] \in {"ensureWallet", "commit"} /\ call[t].game = g
                    \/ pc[t] \in {"unique", "ensureWallet", "commit"} /\ link[call[t].user] = g}

(* Mutant: the debit does not ask for balance >= price. *)
CanPayUnfunded(t) == call[t].user \in wallets

CanPay(t) == Has(call[t].user, pending[t].offer.price)

(* Mutant: kit_items has no foreign key, so a kit grows under its lock. *)
WaitsForUnlessGrowing(t) ==
    LET c == call[t] IN
    CASE pc[t] = "lock"         -> Holder(ProductRow(c.product))
      [] pc[t] = "wallet"       -> IF c.op = "purchase" /\ ~CanPay(t) THEN {}
                                   ELSE Holder(WalletRow(c.user))
      [] pc[t] = "record"       -> Holder(AccountRow(c.user))
      [] pc[t] = "upsert"       -> Holder(AccountRow(c.user)) \cup shares[c.user]
      [] pc[t] = "unique"       -> Claimants(c.game) \ {t}
      [] pc[t] = "ensureWallet" -> Holder(WalletRow(c.user))
      [] pc[t] = "single"       -> IF c.op \in {"settle", "grow"} THEN {}
                                   ELSE Holder(ProductRow(c.product))
      [] OTHER                  -> {}

(* The transactions the next statement of t has to wait for.  An UPDATE waits
   for the row it is to change, and only if the committed version matches its
   WHERE; the insert of a ledger row takes a KEY SHARE lock on the account and
   the insert of a kit item on the kit; the insert of a wallet waits for whoever
   is changing the wallet that is there. *)
WaitsFor(t) ==
    LET c == call[t] IN
    CASE pc[t] = "lock"         -> Holder(ProductRow(c.product))
      [] pc[t] = "wallet"       -> IF c.op = "purchase" /\ ~CanPay(t) THEN {}
                                   ELSE Holder(WalletRow(c.user))
      [] pc[t] = "record"       -> Holder(AccountRow(c.user))
      [] pc[t] = "upsert"       -> Holder(AccountRow(c.user)) \cup shares[c.user]
      [] pc[t] = "unique"       -> Claimants(c.game) \ {t}
      [] pc[t] = "ensureWallet" -> Holder(WalletRow(c.user))
      [] pc[t] = "single"       -> IF c.op = "settle" THEN {}
                                   ELSE Holder(ProductRow(c.product))
      [] OTHER                  -> {}

(* Everyone in S waits for another of S. *)
Circle(S) == \A x \in S : WaitsFor(x) \cap S # {}

(* The database sees t wait in a circle. *)
InCircle(t) == \E S \in SUBSET Txs : t \in S /\ Circle(S)

At(t, label) == pc[t] = label /\ WaitsFor(t) = {}

Goto(t, label) == pc' = [pc EXCEPT ![t] = label]

Lock(t, r) == locks' = [locks EXCEPT ![r] = t]

(* Mutant: a rolled back transaction keeps its connection. *)
FinishLeaking(t) ==
    /\ Goto(t, "idle")
    /\ call' = [call EXCEPT ![t] = NoCall]
    /\ pending' = [pending EXCEPT ![t] = Nothing]
    /\ locks' = [r \in LockRows |-> IF locks[r] = t THEN None ELSE locks[r]]
    /\ shares' = [u \in Users |-> shares[u] \ {t}]
    /\ UNCHANGED conns

(* Mutant: an early return leaves the transaction open. *)
FinishHolding(t) ==
    /\ Goto(t, "idle")
    /\ call' = [call EXCEPT ![t] = NoCall]
    /\ pending' = [pending EXCEPT ![t] = Nothing]
    /\ conns' = conns + 1
    /\ UNCHANGED <<locks, shares>>

(* The end of a call: its locks and its connection are given back. *)
Finish(t) ==
    /\ Goto(t, "idle")
    /\ call' = [call EXCEPT ![t] = NoCall]
    /\ pending' = [pending EXCEPT ![t] = Nothing]
    /\ locks' = [r \in LockRows |-> IF locks[r] = t THEN None ELSE locks[r]]
    /\ shares' = [u \in Users |-> shares[u] \ {t}]
    /\ conns' = conns + 1

Rollback(t) == Finish(t) /\ UNCHANGED storeVars

-----------------------------------------------------------------------------
(* The calls *)

(* A statement names what its caller knows of: a kit gets a new id when it is
   created, a row is settled by who wrote it.  The bounds are on the calls. *)
Sensible(c) ==
    /\ Len(txns) < MaxRows
    /\ c.op = "settle" => Len(txns) > 0
    /\ c.op = "grow" => c.product \in Kits
    /\ c.op = "edit" /\ c.product \in Kits => ~shelf[c.product].listed
    /\ c.op \in {"grow", "edit"} =>
        /\ shelf[c.product].lines < MaxLines \/ c.op = "edit"
        /\ \A t \in Txs : call[t] # c

Call(t, c) ==
    /\ pc[t] = "idle" /\ Sensible(c)
    /\ Goto(t, "begin")
    /\ call' = [call EXCEPT ![t] = c]
    /\ UNCHANGED <<storeVars, conns, pending, locks, shares>>

FirstStatement(c) ==
    CASE c.op = "purchase" -> "lock"
      [] c.op = "credit"   -> "wallet"
      [] c.op = "link"     -> "upsert"
      [] OTHER             -> "single"

(* pool.Begin, or the acquire inside pool.Exec: waits for a connection. *)
Begin(t) ==
    /\ pc[t] = "begin" /\ conns > 0
    /\ conns' = conns - 1
    /\ Goto(t, FirstStatement(call[t]))
    /\ UNCHANGED <<storeVars, call, pending, locks, shares>>

(* Mutant: the row is read without FOR UPDATE. *)
ReadProduct(t) ==
    /\ At(t, "lock")
    /\ LET p == call[t].product  o == shelf[p] IN
       \/ (~o.listed \/ ~o.enabled \/ (o.limited /\ o.stock <= 0)) /\ Rollback(t)
       \/ /\ o.listed /\ o.enabled /\ (o.limited => o.stock > 0)
          /\ pending' = [pending EXCEPT ![t].offer = o]
          /\ Goto(t, IF p \in Kits THEN "kitItems" ELSE "wallet")
          /\ UNCHANGED <<storeVars, conns, call, locks, shares>>

(* SELECT ... FOR UPDATE and the checks on what it returned. *)
LockProduct(t) ==
    /\ At(t, "lock")
    /\ LET p == call[t].product  o == shelf[p] IN
       \/ (~o.listed \/ ~o.enabled \/ (o.limited /\ o.stock <= 0)) /\ Rollback(t)
       \/ /\ o.listed /\ o.enabled /\ (o.limited => o.stock > 0)
          /\ Lock(t, ProductRow(p))
          /\ pending' = [pending EXCEPT ![t].offer = o]
          /\ Goto(t, IF p \in Kits THEN "kitItems" ELSE "wallet")
          /\ UNCHANGED <<storeVars, conns, call, shares>>

(* kitItems runs on the pool and not on the transaction: it needs a second
   connection, for as long as its query takes. *)
KitItems(t) ==
    /\ At(t, "kitItems") /\ conns > 0
    /\ LET n == shelf[call[t].product].lines IN
       \/ n = 0 /\ Rollback(t)
       \/ /\ n > 0
          /\ pending' = [pending EXCEPT ![t].offer.lines = n]
          /\ Goto(t, "wallet")
          /\ UNCHANGED <<storeVars, conns, call, locks, shares>>

(* Mutant: the balance is read first and written afterwards, without a lock. *)
WriteBalanceUnlocked(t, amount) ==
    /\ pending' = [pending EXCEPT ![t].balance = amount]
    /\ Goto(t, "record")
    /\ UNCHANGED <<storeVars, conns, call, locks, shares>>

WriteBalance(t, amount) ==
    /\ Lock(t, WalletRow(call[t].user))
    /\ pending' = [pending EXCEPT ![t].balance = amount]
    /\ Goto(t, "record")
    /\ UNCHANGED <<storeVars, conns, call, shares>>

(* UPDATE wallets ... WHERE balance >= price; no row is either no wallet or
   not enough in it. *)
Debit(t) ==
    /\ At(t, "wallet") /\ call[t].op = "purchase"
    /\ \/ ~CanPay(t) /\ Rollback(t)
       \/ CanPay(t) /\ WriteBalance(t, balance[call[t].user] - pending[t].offer.price)

AddCredit(t) ==
    /\ At(t, "wallet") /\ call[t].op = "credit"
    /\ LET u == call[t].user  amount == call[t].amount IN
       \/ ~(u \in wallets /\ Fits(u, amount)) /\ Rollback(t)
       \/ u \in wallets /\ Fits(u, amount) /\ WriteBalance(t, balance[u] + amount)

(* The stock is decremented in the row that is locked, and the ledger row
   inserted, whose foreign key locks the account. *)
Record(t) ==
    /\ At(t, "record")
    /\ shares' = [shares EXCEPT ![call[t].user] = @ \cup {t}]
    /\ Goto(t, "commit")
    /\ UNCHANGED <<storeVars, conns, call, pending, locks>>

(* INSERT ... ON CONFLICT (discord_user_id) DO UPDATE: the row of the user ... *)
UpsertLink(t) ==
    /\ At(t, "upsert")
    /\ Lock(t, AccountRow(call[t].user))
    /\ Goto(t, "unique")
    /\ UNCHANGED <<storeVars, conns, call, pending, shares>>

(* Mutant: the index does not wait for whoever is about to take the account. *)
CheckUniqueEarly(t) ==
    /\ pc[t] = "unique"
    /\ LET taken == \E v \in Users \ {call[t].user} : link[v] = call[t].game IN
       \/ taken /\ Rollback(t)
       \/ ~taken /\ Goto(t, "ensureWallet")
          /\ UNCHANGED <<storeVars, conns, call, pending, locks, shares>>

(* ... and the UNIQUE game account. *)
CheckUnique(t) ==
    /\ At(t, "unique")
    /\ LET taken == \E v \in Users \ {call[t].user} : link[v] = call[t].game IN
       \/ taken /\ Rollback(t)
       \/ ~taken /\ Goto(t, "ensureWallet")
          /\ UNCHANGED <<storeVars, conns, call, pending, locks, shares>>

EnsureWallet(t) ==
    /\ At(t, "ensureWallet")
    /\ Goto(t, "commit")
    /\ UNCHANGED <<storeVars, conns, call, pending, locks, shares>>

(* What a transaction wrote becomes the committed state. *)
CommitPurchase(t) ==
    /\ call[t].op = "purchase"
    /\ LET u == call[t].user  p == call[t].product  o == pending[t].offer IN
       /\ balance' = [balance EXCEPT ![u] = pending[t].balance]
       /\ shelf' = [shelf EXCEPT ![p] = IF o.limited THEN [@ EXCEPT !.stock = shelf[p].stock - 1]
                                                      ELSE shelf[p]]
       /\ txns' = Append(txns, [acct |-> u, kind |-> "spend", amount |-> -o.price,
                                product |-> p, delivery |-> "pending"])
       /\ UNCHANGED <<link, wallets, written>>

CommitCredit(t) ==
    /\ call[t].op = "credit"
    /\ balance' = [balance EXCEPT ![call[t].user] = pending[t].balance]
    /\ txns' = Append(txns, [acct |-> call[t].user, kind |-> "earn",
                             amount |-> call[t].amount, product |-> None,
                             delivery |-> "none"])
    /\ UNCHANGED <<link, wallets, shelf, written>>

CommitLink(t) ==
    /\ call[t].op = "link"
    /\ link' = [link EXCEPT ![call[t].user] = call[t].game]
    /\ wallets' = wallets \cup {call[t].user}
    /\ UNCHANGED <<balance, shelf, txns, written>>

Commit(t) ==
    /\ At(t, "commit")
    /\ CommitPurchase(t) \/ CommitCredit(t) \/ CommitLink(t)
    /\ Finish(t)

NewOffersOf(p) == NewOffers(IF p \in Kits THEN {0, 1} ELSE {1})

(* The calls of one statement, each its own transaction. *)
Single(t) ==
    /\ At(t, "single")
    /\ LET c == call[t] IN
       \/ c.op = "grow" /\ AddKitItem(c.product)
       \/ /\ c.op = "edit"
          /\ \E o \in NewOffersOf(c.product) : UpsertItem(c.product, o) \/ CreateKit(c.product, o)
       \/ c.op = "toggle" /\ \E on \in BOOLEAN : SetEnabled(c.product, on)
       \/ c.op = "settle" /\ Settle
       \/ /\ c.op \in {"grow", "toggle"} /\ ~shelf[c.product].listed
          /\ UNCHANGED storeVars
    /\ Finish(t)

(* The connection breaks or the caller's context is cancelled (the webhooks
   and the dashboard pass the request's). *)
Abort(t) == pc[t] \in Statements /\ Rollback(t)

(* After deadlock_timeout the database ends one of a circle. *)
Victim(t) == InCircle(t) /\ Rollback(t)

Step(t) ==
    \/ Begin(t) \/ LockProduct(t) \/ KitItems(t) \/ Debit(t) \/ AddCredit(t)
    \/ Record(t) \/ UpsertLink(t) \/ CheckUnique(t) \/ EnsureWallet(t)
    \/ Commit(t) \/ Single(t) \/ Victim(t)

Next ==
    \E t \in Txs : Step(t) \/ Abort(t) \/ \E c \in Calls : Call(t, c)

(* The database grants a lock in the order of the requests, the pool its
   connections likewise: a statement that can run again and again is run. *)
Spec == TxInit /\ [][Next]_vars /\ \A t \in Txs : SF_vars(Step(t))

-----------------------------------------------------------------------------
(* Properties *)

(* Every variable keeps its type, and every connection is in the pool or held
   by exactly one running call. *)
TypeOK ==
    /\ pc \in [Txs -> Labels]
    /\ call \in [Txs -> Calls \cup {NoCall}]
    /\ pending \in [Txs -> [offer : Offers, balance : Nat]]
    /\ locks \in [LockRows -> Txs \cup {None}]
    /\ shares \in [Users -> SUBSET Txs]
    /\ conns = MaxConns - Cardinality({t \in Txs : pc[t] \in Statements})

(* The transactions of the store are atomic: whatever the interleaving of
   their statements, the committed tables change as if each operation had run
   alone at its commit (purchase.go, kits.go, wallet.go, accounts.go). *)
Serialisable == StoreSpec

(* What a purchase read of its product is still what is committed when it
   acts on it, the kit items it read outside its transaction included
   (kits.go:157,175; purchase.go:27). *)
ReadIsCurrent ==
    \A t \in Txs : call[t].op = "purchase" /\ pc[t] \in {"wallet", "record", "commit"} =>
        pending[t].offer = shelf[call[t].product]

(* Every circle of waits goes through a /link: all others lock the product
   before the wallet and the wallet before the account, while LinkAccount writes
   the account before the wallet (purchase.go:27,48,83; kits.go:157,186,220;
   wallet.go:39,48 against accounts.go:21,33). *)
OnlyLinksDeadlock ==
    \A S \in SUBSET Txs : S # {} /\ Circle(S) => \E x \in S : call[x].op = "link"

(* A waiting call waits for a connection or for a lock. *)
Blocked(t) ==
    \/ pc[t] \in {"begin", "kitItems"} /\ conns = 0
    \/ WaitsFor(t) # {}

(* Nobody can go on, and a kit purchase waits for its second connection. *)
Exhausted ==
    /\ \A t \in Txs : pc[t] # "idle" => Blocked(t)
    /\ \E t \in Txs : pc[t] = "kitItems"

(* Every call ends, however the calls wait for each other, unless kit purchases
   have used up the pool: circles between /link and a credit or a purchase of
   the same user are broken (accounts.go:21,33 against wallet.go:39,48). *)
EveryCallEnds == \A t \in Txs : pc[t] # "idle" ~> pc[t] = "idle" \/ Exhausted
=============================================================================
