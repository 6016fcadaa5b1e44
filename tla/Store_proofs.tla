----------------------------- MODULE Store_proofs -----------------------------
(* Proofs about Store: whoever calls its operations, in whatever order. *)
EXTENDS Store, FiniteSetTheorems, TLAPS

USE StoreAssumption

-----------------------------------------------------------------------------
(* Lemmas about the operators *)

(* The sales of a product are counted by a natural number. *)
LEMMA SoldType ==
    ASSUME txns \in Seq(Rows), NEW p
    PROVE  /\ IsFiniteSet(Spends(p))
           /\ Sold(p) \in Nat
<1>1. Len(txns) \in Nat
  OBVIOUS
<1>2. IsFiniteSet(Rowids)
  BY <1>1, FS_Interval DEF Rowids
<1>3. IsFiniteSet(Spends(p))
  BY <1>2, FS_Subset DEF Spends
<1> QED
  BY <1>3, FS_CardinalityType DEF Sold

(* An admin's offer is an offer. *)
LEMMA NewOfferType ==
    ASSUME NEW S \in SUBSET Nat, NEW o \in NewOffers(S)
    PROVE  o \in Offers /\ o.listed /\ o.price \in Prices
<1>1. Prices \subseteq Nat /\ Stocks \subseteq Int
  BY StoreAssumption DEF StoreAssumption
<1>2. o \in [listed : {TRUE}, enabled : BOOLEAN, price : Prices,
           limited : BOOLEAN, stock : Stocks \cup {0}, lines : S]
  BY DEF NewOffers
<1>3. o.listed = TRUE /\ o.price \in Prices
  BY <1>2
<1>4. Stocks \cup {0} \subseteq Int /\ {TRUE} \subseteq BOOLEAN
  BY <1>1
<1>5. o \in Offers
  BY <1>1, <1>2, <1>4, Zenon DEF Offers
<1> QED
  BY <1>3, <1>5

(* What a product being "ok" to buy says. *)
LEMMA OkMeans ==
    ASSUME NEW u \in Users, NEW p \in Products, PurchaseResult(u, p) = "ok"
    PROVE  /\ u \in wallets /\ balance[u] >= shelf[p].price
           /\ shelf[p].listed /\ shelf[p].enabled
           /\ shelf[p].limited => ~(shelf[p].stock <= 0)
  BY DEF PurchaseResult, Has

-----------------------------------------------------------------------------
(* Each operation keeps the types.  These lemmas are also what the proofs about
   the callers of the store rest on. *)

LEMMA LinkAccountType ==
    ASSUME StoreTypeOK, NEW u \in Users, NEW g \in GameAccounts, LinkAccount(u, g)
    PROVE  StoreTypeOK'
  BY DEF StoreTypeOK, LinkAccount

LEMMA CreditType ==
    ASSUME StoreTypeOK, NEW u \in Users, NEW amount \in Nat,
           NEW kind \in TxnKinds, Credit(u, amount, kind)
    PROVE  StoreTypeOK'
<1> DEFINE row == [acct |-> u, kind |-> kind, amount |-> amount,
                   product |-> None, delivery |-> "none"]
<1>1. row \in Rows
  BY DEF Rows, DeliveryStatuses
<1>2. txns' \in Seq(Rows)
  BY <1>1 DEF Credit, StoreTypeOK
<1>3. balance' \in [Users -> 0..MaxBalance]
  BY DEF Credit, Fits, StoreTypeOK
<1> QED
  BY <1>2, <1>3 DEF Credit, StoreTypeOK

LEMMA PurchaseType ==
    ASSUME StoreTypeOK, NEW u \in Users, NEW p \in Products, Purchase(u, p)
    PROVE  StoreTypeOK'
<1>1. shelf[p] \in Offers /\ balance[u] \in 0..MaxBalance
  BY DEF StoreTypeOK
<1>2. SpendRow(u, p) \in Rows
  BY <1>1 DEF SpendRow, Rows, Offers, TxnKinds, DeliveryStatuses
<1>3. txns' \in Seq(Rows)
  BY <1>2 DEF Purchase, StoreTypeOK
<1>4. balance[u] >= shelf[p].price
  BY OkMeans DEF Purchase
<1>5. balance' \in [Users -> 0..MaxBalance]
  <2>1. balance[u] - shelf[p].price \in 0..MaxBalance
    BY <1>1, <1>4 DEF Offers
  <2> QED
    BY <2>1 DEF Purchase, StoreTypeOK
<1>6. TakeOne(shelf[p]) \in Offers
  BY <1>1 DEF TakeOne, Offers
<1>7. shelf' \in [Products -> Offers]
  BY <1>6 DEF Purchase, StoreTypeOK
<1> QED
  BY <1>3, <1>5, <1>7 DEF Purchase, StoreTypeOK

LEMMA SetDeliveryStatusType ==
    ASSUME StoreTypeOK, NEW n \in Nat, NEW status \in DeliveryStatuses,
           SetDeliveryStatus(n, status)
    PROVE  StoreTypeOK'
<1>1. txns \in Seq(Rows) /\ n \in 1..Len(txns)
  BY DEF StoreTypeOK, SetDeliveryStatus, Rowids
<1>2. txns[n] \in Rows
  BY <1>1
<1>3. [txns[n] EXCEPT !.delivery = status] \in Rows
  BY <1>2 DEF Rows
<1>4. txns' \in Seq(Rows)
  BY <1>1, <1>3 DEF SetDeliveryStatus
<1> QED
  BY <1>4 DEF SetDeliveryStatus, StoreTypeOK

LEMMA PutOnShelfType ==
    ASSUME StoreTypeOK, NEW p \in Products, NEW o \in Offers, PutOnShelf(p, o)
    PROVE  StoreTypeOK'
<1>1. Sold(p) \in Nat
  BY SoldType DEF StoreTypeOK
<1>2. [stock |-> o.stock, sold |-> Sold(p)] \in [stock : Int, sold : Nat]
  BY <1>1 DEF Offers
<1>3. written' \in [Products -> [stock : Int, sold : Nat]]
  BY <1>2 DEF PutOnShelf, StoreTypeOK
<1>4. shelf' \in [Products -> Offers]
  BY DEF PutOnShelf, StoreTypeOK
<1> QED
  BY <1>3, <1>4 DEF PutOnShelf, StoreTypeOK

LEMMA AddKitItemType ==
    ASSUME StoreTypeOK, NEW k \in Kits, AddKitItem(k)
    PROVE  StoreTypeOK'
<1>1. k \in Products /\ shelf[k] \in Offers
  BY DEF StoreTypeOK, Products
<1>2. [shelf[k] EXCEPT !.lines = shelf[k].lines + 1] \in Offers
  BY <1>1 DEF Offers
<1>3. shelf' \in [Products -> Offers]
  BY <1>1, <1>2 DEF AddKitItem, StoreTypeOK
<1> QED
  BY <1>3 DEF AddKitItem, StoreTypeOK

LEMMA SetEnabledType ==
    ASSUME StoreTypeOK, NEW p \in Products, NEW on \in BOOLEAN, SetEnabled(p, on)
    PROVE  StoreTypeOK'
<1>1. shelf[p] \in Offers
  BY DEF StoreTypeOK
<1>2. [shelf[p] EXCEPT !.enabled = on] \in Offers
  BY <1>1 DEF Offers
<1>3. shelf' \in [Products -> Offers]
  BY <1>2 DEF SetEnabled, StoreTypeOK
<1> QED
  BY <1>3 DEF SetEnabled, StoreTypeOK

LEMMA StoreTypeStep ==
    ASSUME StoreTypeOK, [StoreNext]_storeVars
    PROVE  StoreTypeOK'
<1>1. CASE Link
  BY <1>1, LinkAccountType DEF Link
<1>2. CASE Earn \/ Grant
  BY <1>2, CreditType DEF Earn, Grant, TxnKinds
<1>3. CASE GiveBack
  BY <1>3, CreditType DEF GiveBack, Refund, TxnKinds
<1>4. CASE Buy
  BY <1>4, PurchaseType DEF Buy
<1>5. CASE Settle
  <2>1. PICK n \in Rowids, status \in {"done", "failed"} : SetDeliveryStatus(n, status)
    BY <1>5 DEF Settle
  <2>2. n \in Nat
    BY <2>1 DEF Rowids
  <2> QED
    BY <2>1, <2>2, SetDeliveryStatusType DEF DeliveryStatuses
<1>6. CASE EditItem
  <2>1. PICK i \in Items, o \in NewOffers({1}) : UpsertItem(i, o)
    BY <1>6 DEF EditItem
  <2>2. i \in Products /\ o \in Offers /\ PutOnShelf(i, o)
    BY <2>1, NewOfferType DEF UpsertItem, Products
  <2> QED
    BY <2>2, PutOnShelfType
<1>7. CASE EditKit
  <2>1. CASE \E k \in Kits, o \in NewOffers(0..MaxLines) : CreateKit(k, o)
    <3>1. PICK k \in Kits, o \in NewOffers(0..MaxLines) : CreateKit(k, o)
      BY <2>1
    <3>2. 0..MaxLines \in SUBSET Nat
      OBVIOUS
    <3>3. k \in Products /\ o \in Offers /\ PutOnShelf(k, o)
      BY <3>1, <3>2, NewOfferType DEF CreateKit, Products
    <3> QED
      BY <3>3, PutOnShelfType
  <2>2. CASE \E k \in Kits : shelf[k].lines < MaxLines /\ AddKitItem(k)
    BY <2>2, AddKitItemType
  <2> QED
    BY <1>7, <2>1, <2>2 DEF EditKit, AddKit, GrowKit
<1>8. CASE Toggle
  BY <1>8, SetEnabledType DEF Toggle
<1>9. CASE UNCHANGED storeVars
  BY <1>9 DEF storeVars, StoreTypeOK
<1> QED
  BY <1>1, <1>2, <1>3, <1>4, <1>5, <1>6, <1>7, <1>8, <1>9 DEF StoreNext

LEMMA StoreTypeInit == StoreInit => StoreTypeOK
  BY DEF StoreInit, StoreTypeOK, Unlisted, Offers

(* The columns keep their types and no balance leaves 0..MaxBalance, whatever
   sequence of store operations is called. *)
THEOREM StoreTypeCorrect == StoreSpec => []StoreTypeOK
<1>1. StoreTypeOK /\ [StoreNext]_storeVars => StoreTypeOK'
  BY StoreTypeStep
<1> QED
  BY StoreTypeInit, <1>1, PTL DEF StoreSpec

-----------------------------------------------------------------------------
(* The ledger.  RunningBalance is recursive, so the invariant is put without
   it: some function runs over the rows of u in the ledger, and every one that
   does ends at the balance of u.  That is inductive, and RunningBalance is
   one of those functions. *)

RunsOver(u, rows, run) ==
    run = [n \in 0..Len(rows) |->
            IF n = 0 THEN 0 ELSE run[n - 1] + Delta(u, rows[n])]

Totals(u, rows, total) ==
    /\ \E run : RunsOver(u, rows, run)
    /\ \A run : RunsOver(u, rows, run) => run[Len(rows)] = total

LedgerInv == \A u \in Users : Totals(u, txns, balance[u])

(* A new row adds its amount to the total of its account. *)
LEMMA TotalsAppend ==
    ASSUME NEW rows \in Seq(Rows), NEW row \in Rows, NEW u \in Users,
           NEW total \in Int, Totals(u, rows, total)
    PROVE  Totals(u, Append(rows, row), total + Delta(u, row))
<1> DEFINE len == Len(rows)
           more == Append(rows, row)
<1>1. len \in Nat /\ Len(more) = len + 1 /\ more[len + 1] = row
  OBVIOUS
<1>2. \A n \in 1..len : more[n] = rows[n]
  OBVIOUS
<1>3. \E run : RunsOver(u, more, run)
  <2>1. PICK old : RunsOver(u, rows, old)
    BY DEF Totals
  <2>2. old[len] = total
    BY <2>1 DEF Totals
  <2> DEFINE new == [n \in 0..len + 1 |->
                        IF n = len + 1 THEN total + Delta(u, row) ELSE old[n]]
  <2>3. \A n \in 0..len : old[n] = IF n = 0 THEN 0 ELSE old[n - 1] + Delta(u, rows[n])
    BY <2>1, <1>1 DEF RunsOver
  <2>4. ASSUME NEW n \in 0..len + 1
        PROVE  new[n] = IF n = 0 THEN 0 ELSE new[n - 1] + Delta(u, more[n])
    <3>1. CASE n = len + 1
      BY <3>1, <2>2, <1>1
    <3>2. CASE n \in 1..len
      BY <3>2, <2>3, <1>1, <1>2
    <3>3. CASE n = 0
      BY <3>3, <2>3, <1>1
    <3> QED
      BY <3>1, <3>2, <3>3, <1>1
  <2>5. new = [n \in 0..len + 1 |->
                IF n = 0 THEN 0 ELSE new[n - 1] + Delta(u, more[n])]
    BY <2>4
  <2> QED
    BY <2>5, <1>1 DEF RunsOver
<1>4. ASSUME NEW run, RunsOver(u, more, run)
      PROVE  run[len + 1] = total + Delta(u, row)
  <2> DEFINE old == [n \in 0..len |-> run[n]]
  <2>1. \A n \in 0..len + 1 : run[n] = IF n = 0 THEN 0 ELSE run[n - 1] + Delta(u, more[n])
    BY <1>4, <1>1 DEF RunsOver
  <2>2. ASSUME NEW n \in 0..len
        PROVE  old[n] = IF n = 0 THEN 0 ELSE old[n - 1] + Delta(u, rows[n])
    BY <2>1, <1>1, <1>2
  <2>3. RunsOver(u, rows, old)
    BY <2>2 DEF RunsOver
  <2>4. run[len] = total
    BY <2>3, <1>1 DEF Totals
  <2> QED
    BY <2>1, <2>4, <1>1
<1> QED
  BY <1>1, <1>3, <1>4 DEF Totals

(* Rows that carry the same amounts for the same accounts have the same
   totals: settling a delivery moves no money. *)
LEMMA TotalsSettle ==
    ASSUME NEW rows \in Seq(Rows), NEW u \in Users, NEW total, Totals(u, rows, total),
           NEW n \in 1..Len(rows), NEW status
    PROVE  Totals(u, [rows EXCEPT ![n] = [@ EXCEPT !.delivery = status]], total)
<1> DEFINE new == [rows EXCEPT ![n] = [@ EXCEPT !.delivery = status]]
<1>1. Len(new) = Len(rows) /\ Len(rows) \in Nat
  OBVIOUS
<1>2. \A m \in 1..Len(rows) : Delta(u, new[m]) = Delta(u, rows[m])
  <2>1. \A m \in 1..Len(rows) : rows[m] \in Rows
    OBVIOUS
  <2>2. \A m \in 1..Len(rows) :
            new[m] = IF m = n THEN [rows[n] EXCEPT !.delivery = status] ELSE rows[m]
    OBVIOUS
  <2> QED
    BY <2>1, <2>2 DEF Delta, Rows
<1>3. ASSUME NEW run
      PROVE  RunsOver(u, new, run) <=> RunsOver(u, rows, run)
  <2>1. [m \in 0..Len(new) |-> IF m = 0 THEN 0 ELSE run[m - 1] + Delta(u, new[m])]
            = [m \in 0..Len(rows) |-> IF m = 0 THEN 0 ELSE run[m - 1] + Delta(u, rows[m])]
    <3> HIDE DEF new
    <3> QED
      BY <1>1, <1>2
  <2> QED
    BY <2>1 DEF RunsOver
<1> QED
  BY <1>1, <1>3 DEF Totals

(* A credit of any amount, from whoever calls it. *)
LEMMA LedgerCredit ==
    ASSUME StoreTypeOK, LedgerInv, NEW v \in Users, NEW amount \in Nat,
           NEW kind \in TxnKinds, Credit(v, amount, kind)
    PROVE  LedgerInv'
<1> DEFINE row == [acct |-> v, kind |-> kind, amount |-> amount,
                   product |-> None, delivery |-> "none"]
<1>1. row \in Rows
  BY DEF Rows, DeliveryStatuses
<1>2. ASSUME NEW u \in Users PROVE Totals(u, txns', balance'[u])
  <2>1. balance[u] \in Int /\ txns \in Seq(Rows) /\ Totals(u, txns, balance[u])
    BY DEF StoreTypeOK, LedgerInv
  <2>2. txns' = Append(txns, row)
    BY DEF Credit
  <2>3. balance'[u] = balance[u] + Delta(u, row)
    BY <2>1 DEF Credit, Delta, StoreTypeOK
  <2> QED
    BY <1>1, <2>1, <2>2, <2>3, TotalsAppend
<1> QED
  BY <1>2 DEF LedgerInv

LEMMA LedgerStep ==
    ASSUME StoreTypeOK, LedgerInv, [StoreNext]_storeVars
    PROVE  LedgerInv'
<1>1. ASSUME NEW v \in Users, NEW amount \in Nat, NEW kind \in TxnKinds,
             Credit(v, amount, kind)
      PROVE  LedgerInv'
  BY <1>1, LedgerCredit
<1>2. ASSUME NEW v \in Users, NEW p \in Products, Purchase(v, p)
      PROVE  LedgerInv'
  <2>1. shelf[p] \in Offers
    BY DEF StoreTypeOK
  <2>2. SpendRow(v, p) \in Rows
    BY <2>1 DEF SpendRow, Rows, Offers, TxnKinds, DeliveryStatuses
  <2>3. ASSUME NEW u \in Users PROVE Totals(u, txns', balance'[u])
    <3>1. balance[u] \in Int /\ txns \in Seq(Rows) /\ Totals(u, txns, balance[u])
      BY DEF StoreTypeOK, LedgerInv
    <3>2. txns' = Append(txns, SpendRow(v, p))
      BY <1>2 DEF Purchase
    <3>3. balance'[u] = balance[u] + Delta(u, SpendRow(v, p))
      BY <1>2, <2>1, <3>1 DEF Purchase, Delta, SpendRow, StoreTypeOK, Offers
    <3> QED
      BY <2>2, <3>1, <3>2, <3>3, TotalsAppend
  <2> QED
    BY <2>3 DEF LedgerInv
<1>3. ASSUME NEW n \in Rowids, NEW status, SetDeliveryStatus(n, status)
      PROVE  LedgerInv'
  <2>1. ASSUME NEW u \in Users PROVE Totals(u, txns', balance'[u])
    <3>1. txns \in Seq(Rows) /\ Totals(u, txns, balance[u]) /\ n \in 1..Len(txns)
      BY DEF StoreTypeOK, LedgerInv, Rowids
    <3>2. /\ txns' = [txns EXCEPT ![n] = [@ EXCEPT !.delivery = status]]
          /\ balance' = balance
      BY <1>3 DEF SetDeliveryStatus
    <3> QED
      BY <3>1, <3>2, TotalsSettle
  <2> QED
    BY <2>1 DEF LedgerInv
<1>4. ASSUME UNCHANGED <<txns, balance>>
      PROVE  LedgerInv'
  BY <1>4 DEF LedgerInv
<1>5. CASE Link
  BY <1>5, <1>4 DEF Link, LinkAccount
<1>6. CASE Earn \/ Grant
  BY <1>6, <1>1 DEF Earn, Grant, TxnKinds
<1>7. CASE GiveBack
  BY <1>7, <1>1 DEF GiveBack, Refund, TxnKinds
<1>8. CASE Buy
  BY <1>8, <1>2 DEF Buy
<1>9. CASE Settle
  BY <1>9, <1>3 DEF Settle
<1>10. CASE EditItem \/ EditKit \/ Toggle
  BY <1>10, <1>4 DEF EditItem, EditKit, AddKit, GrowKit, Toggle, UpsertItem, CreateKit, PutOnShelf,
                     AddKitItem, SetEnabled
<1>11. CASE UNCHANGED storeVars
  BY <1>11, <1>4 DEF storeVars
<1> QED
  BY <1>5, <1>6, <1>7, <1>8, <1>9, <1>10, <1>11 DEF StoreNext

(* RunningBalance(u) is one of the functions LedgerInv speaks of. *)
LEMMA LedgerInvImplies == LedgerInv => LedgerReconciles
<1> SUFFICES ASSUME LedgerInv, NEW u \in Users
             PROVE  balance[u] = RunningBalance(u)[Len(txns)]
  BY DEF LedgerReconciles
<1>1. PICK run : RunsOver(u, txns, run)
  BY DEF LedgerInv, Totals
<1>2. RunsOver(u, txns, RunningBalance(u))
  BY <1>1 DEF RunsOver, RunningBalance
<1> QED
  BY <1>2 DEF LedgerInv, Totals

LEMMA LedgerInit == StoreInit => LedgerInv
<1> SUFFICES ASSUME StoreInit, NEW u \in Users
             PROVE  Totals(u, txns, balance[u])
  BY DEF LedgerInv
<1>1. txns = <<>> /\ balance[u] = 0 /\ Len(txns) = 0
  BY DEF StoreInit
<1> DEFINE run == [n \in 0..0 |-> 0]
<1>2. RunsOver(u, txns, run)
  BY <1>1 DEF RunsOver
<1>3. ASSUME NEW f, RunsOver(u, txns, f)
      PROVE  f[0] = 0
  BY <1>1, <1>3 DEF RunsOver
<1> QED
  BY <1>1, <1>2, <1>3 DEF Totals

(* A wallet always holds the sum of its ledger rows, for any number of users,
   products and rows and any order of calls. *)
THEOREM LedgerCorrect == StoreSpec => []LedgerReconciles
<1>1. StoreTypeOK /\ LedgerInv /\ [StoreNext]_storeVars => (StoreTypeOK /\ LedgerInv)'
  BY StoreTypeStep, LedgerStep
<1> QED
  BY StoreTypeInit, LedgerInit, LedgerInvImplies, <1>1, PTL DEF StoreSpec

-----------------------------------------------------------------------------
(* Stock.  A new row counts as a sale of its product; nothing else does. *)

LEMMA SoldAppend ==
    ASSUME StoreTypeOK, NEW row \in Rows, txns' = Append(txns, row), NEW p \in Products
    PROVE  Sold(p)' = IF row.product = p THEN Sold(p) + 1 ELSE Sold(p)
<1> DEFINE len == Len(txns)
<1>1. /\ txns \in Seq(Rows) /\ len \in Nat /\ Len(txns') = len + 1
      /\ txns'[len + 1] = row
      /\ \A n \in 1..len : txns'[n] = txns[n]
  BY DEF StoreTypeOK
<1>2. IsFiniteSet(Spends(p)) /\ len + 1 \notin Spends(p)
  <2>1. IsFiniteSet(Spends(p))
    BY <1>1, SoldType
  <2>2. len + 1 \notin Spends(p)
    BY <1>1 DEF Spends, Rowids
  <2> QED
    BY <2>1, <2>2
<1>3. CASE row.product = p
  <2>1. Spends(p)' = Spends(p) \cup {len + 1}
    BY <1>1, <1>3 DEF Spends, Rowids
  <2> QED
    BY <1>2, <1>3, <2>1, FS_AddElement DEF Sold
<1>4. CASE row.product # p
  <2>1. Spends(p)' = Spends(p)
    BY <1>1, <1>4 DEF Spends, Rowids
  <2> QED
    BY <1>4, <2>1 DEF Sold
<1> QED
  BY <1>3, <1>4

LEMMA StockStep ==
    ASSUME StoreTypeOK, StockAccounted, [StoreNext]_storeVars
    PROVE  StockAccounted'
<1>1. \A p \in Products :
        /\ shelf[p] \in Offers /\ written[p] \in [stock : Int, sold : Nat]
        /\ Sold(p) \in Nat
  BY SoldType DEF StoreTypeOK
<1>2. ASSUME NEW v \in Users, NEW amount \in Nat, NEW kind \in TxnKinds,
             Credit(v, amount, kind)
      PROVE  StockAccounted'
  <2> DEFINE row == [acct |-> v, kind |-> kind, amount |-> amount,
                     product |-> None, delivery |-> "none"]
  <2>1. row \in Rows /\ \A p \in Products : row.product # p
    BY StoreAssumption DEF Rows, DeliveryStatuses
  <2>2. txns' = Append(txns, row) /\ shelf' = shelf /\ written' = written
    BY <1>2 DEF Credit
  <2>3. \A p \in Products : Sold(p)' = Sold(p)
    BY <2>1, <2>2, SoldAppend
  <2> QED
    BY <2>2, <2>3 DEF StockAccounted
<1>3. ASSUME NEW v \in Users, NEW q \in Products, Purchase(v, q)
      PROVE  StockAccounted'
  <2>1. SpendRow(v, q) \in Rows /\ SpendRow(v, q).product = q
    BY <1>1 DEF SpendRow, Rows, Offers, TxnKinds, DeliveryStatuses
  <2>2. /\ txns' = Append(txns, SpendRow(v, q)) /\ written' = written
        /\ shelf' = [shelf EXCEPT ![q] = TakeOne(@)]
    BY <1>3 DEF Purchase
  <2>3. SUFFICES ASSUME NEW p \in Products, shelf'[p].limited
                 PROVE  /\ shelf'[p].stock = written[p].stock - (Sold(p)' - written[p].sold)
                        /\ Sold(p)' > written[p].sold => shelf'[p].stock >= 0
    BY <2>2 DEF StockAccounted
  <2>4. Sold(p)' = IF q = p THEN Sold(p) + 1 ELSE Sold(p)
    BY <2>1, <2>2, SoldAppend
  <2>5. CASE p = q
    <3>1. shelf'[p] = TakeOne(shelf[p])
      BY <2>2, <2>5 DEF StoreTypeOK
    <3>2. shelf[p].limited
      BY <1>1, <2>3, <3>1 DEF TakeOne, Offers
    <3>3. shelf'[p].stock = shelf[p].stock - 1
      BY <1>1, <3>1, <3>2 DEF TakeOne, Offers
    <3>4. ~(shelf[p].stock <= 0)
      BY <1>3, <2>5, <3>2, OkMeans DEF Purchase
    <3>5. shelf[p].stock \in Int /\ written[p].stock \in Int /\ written[p].sold \in Int
      BY <1>1 DEF Offers
    <3>6. shelf[p].stock = written[p].stock - (Sold(p) - written[p].sold)
      BY <3>2 DEF StockAccounted
    <3> QED
      BY <1>1, <2>4, <2>5, <3>3, <3>4, <3>5, <3>6
  <2>6. CASE p # q
    <3>1. shelf'[p] = shelf[p]
      BY <2>2, <2>6 DEF StoreTypeOK
    <3> QED
      BY <2>3, <2>4, <2>6, <3>1 DEF StockAccounted
  <2> QED
    BY <2>5, <2>6
<1>4. ASSUME NEW n \in Rowids, NEW status, SetDeliveryStatus(n, status)
      PROVE  StockAccounted'
  <2>1. /\ txns \in Seq(Rows) /\ n \in 1..Len(txns)
        /\ txns' = [txns EXCEPT ![n] = [@ EXCEPT !.delivery = status]]
        /\ shelf' = shelf /\ written' = written
    BY <1>4 DEF StoreTypeOK, SetDeliveryStatus, Rowids
  <2>2. txns[n] \in Rows /\ Len(txns') = Len(txns)
    BY <2>1
  <2>3. \A m \in 1..Len(txns) : txns'[m].product = txns[m].product
    <3>1. [txns[n] EXCEPT !.delivery = status].product = txns[n].product
      BY <2>2 DEF Rows
    <3> QED
      BY <2>1, <3>1
  <2>4. \A p : Spends(p)' = Spends(p)
    BY <2>2, <2>3 DEF Spends, Rowids
  <2> QED
    BY <2>1, <2>4 DEF StockAccounted, Sold
<1>5. ASSUME NEW q \in Products, NEW o \in Offers, PutOnShelf(q, o)
      PROVE  StockAccounted'
  <2>1. /\ txns' = txns
        /\ shelf' = [shelf EXCEPT ![q] = o]
        /\ written' = [written EXCEPT ![q] = [stock |-> o.stock, sold |-> Sold(q)]]
    BY <1>5 DEF PutOnShelf
  <2>2. \A p : Sold(p)' = Sold(p)
    BY <2>1 DEF Sold, Spends, Rowids
  <2>3. SUFFICES ASSUME NEW p \in Products, shelf'[p].limited
                 PROVE  /\ shelf'[p].stock = written'[p].stock - (Sold(p) - written'[p].sold)
                        /\ Sold(p) > written'[p].sold => shelf'[p].stock >= 0
    BY <2>2 DEF StockAccounted
  <2>4. CASE p = q
    <3>1. shelf'[p] = o /\ written'[p] = [stock |-> o.stock, sold |-> Sold(p)]
      BY <2>1, <2>4 DEF StoreTypeOK
    <3>2. o.stock \in Int
      BY DEF Offers
    <3> QED
      BY <1>1, <3>1, <3>2
  <2>5. CASE p # q
    <3>1. shelf'[p] = shelf[p] /\ written'[p] = written[p]
      BY <2>1, <2>5 DEF StoreTypeOK
    <3> QED
      BY <2>3, <3>1 DEF StockAccounted
  <2> QED
    BY <2>4, <2>5
<1>6. ASSUME UNCHANGED <<txns, written>>,
             \A p \in Products : /\ shelf'[p].limited = shelf[p].limited
                                 /\ shelf'[p].stock = shelf[p].stock
      PROVE  StockAccounted'
  BY <1>6 DEF StockAccounted, Sold, Spends, Rowids
<1>7. ASSUME NEW k \in Kits, AddKitItem(k)
      PROVE  StockAccounted'
  <2>1. /\ UNCHANGED <<txns, written>> /\ k \in Products
        /\ shelf' = [shelf EXCEPT ![k] = [@ EXCEPT !.lines = shelf[k].lines + 1]]
    BY <1>7 DEF AddKitItem, Products
  <2>2. \A p \in Products : /\ shelf'[p].limited = shelf[p].limited
                            /\ shelf'[p].stock = shelf[p].stock
    BY <1>1, <2>1 DEF Offers, StoreTypeOK
  <2> QED
    BY <1>6, <2>1, <2>2
<1>8. ASSUME NEW q \in Products, NEW on \in BOOLEAN, SetEnabled(q, on)
      PROVE  StockAccounted'
  <2>1. /\ UNCHANGED <<txns, written>>
        /\ shelf' = [shelf EXCEPT ![q] = [@ EXCEPT !.enabled = on]]
    BY <1>8 DEF SetEnabled
  <2>2. \A p \in Products : /\ shelf'[p].limited = shelf[p].limited
                            /\ shelf'[p].stock = shelf[p].stock
    BY <1>1, <2>1 DEF Offers, StoreTypeOK
  <2> QED
    BY <1>6, <2>1, <2>2
<1>9. CASE Link
  BY <1>9, <1>6 DEF Link, LinkAccount
<1>10. CASE Earn \/ Grant
  BY <1>10, <1>2 DEF Earn, Grant, TxnKinds
<1>11. CASE GiveBack
  BY <1>11, <1>2 DEF GiveBack, Refund, TxnKinds
<1>12. CASE Buy
  BY <1>12, <1>3 DEF Buy
<1>13. CASE Settle
  BY <1>13, <1>4 DEF Settle
<1>14. CASE EditItem
  <2>1. PICK i \in Items, o \in NewOffers({1}) : UpsertItem(i, o)
    BY <1>14 DEF EditItem
  <2> QED
    BY <1>5, <2>1, NewOfferType DEF UpsertItem, Products
<1>15. CASE EditKit
  <2>1. CASE \E k \in Kits, o \in NewOffers(0..MaxLines) : CreateKit(k, o)
    <3>1. PICK k \in Kits, o \in NewOffers(0..MaxLines) : CreateKit(k, o)
      BY <2>1
    <3>2. 0..MaxLines \in SUBSET Nat
      OBVIOUS
    <3> QED
      BY <1>5, <3>1, <3>2, NewOfferType DEF CreateKit, Products
  <2>2. CASE \E k \in Kits : shelf[k].lines < MaxLines /\ AddKitItem(k)
    BY <1>7, <2>2
  <2> QED
    BY <1>15, <2>1, <2>2 DEF EditKit, AddKit, GrowKit
<1>16. CASE Toggle
  BY <1>16, <1>8 DEF Toggle
<1>17. CASE UNCHANGED storeVars
  BY <1>17, <1>6 DEF storeVars
<1> QED
  BY <1>9, <1>10, <1>11, <1>12, <1>13, <1>14, <1>15, <1>16, <1>17 DEF StoreNext

(* Limited stock is never oversold, however many buyers there are: since it was
   last written it went down by one per sale and never below zero. *)
THEOREM StockCorrect == StoreSpec => []StockAccounted
<1>1. StoreInit => StockAccounted
  BY DEF StoreInit, StockAccounted, Unlisted
<1>2. StoreTypeOK /\ StockAccounted /\ [StoreNext]_storeVars
            => (StoreTypeOK /\ StockAccounted)'
  BY StoreTypeStep, StockStep
<1> QED
  BY StoreTypeInit, <1>1, <1>2, PTL DEF StoreSpec

-----------------------------------------------------------------------------
(* Accounts *)

LEMMA AccountsLink ==
    ASSUME StoreTypeOK, AccountsSound, NEW v \in Users, NEW g \in GameAccounts,
           LinkAccount(v, g)
    PROVE  AccountsSound'
<1>1. /\ \A w \in Users \ {v} : link[w] # g
      /\ link' = [link EXCEPT ![v] = g]
      /\ wallets' = wallets \cup {v} /\ txns' = txns
  BY DEF LinkAccount
<1>2. \A w \in Users : link'[w] = IF w = v THEN g ELSE link[w]
  BY <1>1 DEF StoreTypeOK
<1> QED
  BY <1>1, <1>2 DEF AccountsSound, Rowids

LEMMA AccountsRow ==
    ASSUME StoreTypeOK, AccountsSound, NEW row \in Rows, row.acct \in wallets,
           txns' = Append(txns, row), UNCHANGED <<link, wallets>>
    PROVE  AccountsSound'
<1>1. txns \in Seq(Rows)
  BY DEF StoreTypeOK
<1>2. \A n \in 1..Len(txns') : txns'[n].acct \in wallets
  BY <1>1 DEF AccountsSound, Rowids
<1> QED
  BY <1>2 DEF AccountsSound, Rowids

LEMMA AccountsCredit ==
    ASSUME StoreTypeOK, AccountsSound, NEW v \in Users, NEW amount \in Nat,
           NEW kind \in TxnKinds, Credit(v, amount, kind)
    PROVE  AccountsSound'
<1> DEFINE row == [acct |-> v, kind |-> kind, amount |-> amount,
                   product |-> None, delivery |-> "none"]
<1>1. row \in Rows
  BY DEF Rows, DeliveryStatuses
<1> QED
  BY <1>1, AccountsRow DEF Credit

LEMMA AccountsStep ==
    ASSUME StoreTypeOK, AccountsSound, [StoreNext]_storeVars
    PROVE  AccountsSound'
<1>1. ASSUME NEW v \in Users, NEW g \in GameAccounts, LinkAccount(v, g)
      PROVE  AccountsSound'
  BY <1>1, AccountsLink
<1>2. ASSUME NEW v \in Users, NEW amount \in Nat, NEW kind \in TxnKinds,
             Credit(v, amount, kind)
      PROVE  AccountsSound'
  BY <1>2, AccountsCredit
<1>3. ASSUME NEW v \in Users, NEW p \in Products, Purchase(v, p)
      PROVE  AccountsSound'
  <2>1. shelf[p] \in Offers
    BY DEF StoreTypeOK
  <2>2. SpendRow(v, p) \in Rows /\ SpendRow(v, p).acct = v
    BY <2>1 DEF SpendRow, Rows, Offers, TxnKinds, DeliveryStatuses
  <2>3. v \in wallets
    BY <1>3, OkMeans DEF Purchase
  <2> QED
    BY <1>3, <2>2, <2>3, AccountsRow DEF Purchase
<1>4. ASSUME NEW n \in Rowids, NEW status, SetDeliveryStatus(n, status)
      PROVE  AccountsSound'
  <2>1. /\ txns \in Seq(Rows) /\ n \in 1..Len(txns)
        /\ txns' = [txns EXCEPT ![n] = [@ EXCEPT !.delivery = status]]
        /\ UNCHANGED <<link, wallets>>
    BY <1>4 DEF StoreTypeOK, SetDeliveryStatus, Rowids
  <2>2. txns[n] \in Rows /\ Len(txns') = Len(txns)
    BY <2>1
  <2>3. [txns[n] EXCEPT !.delivery = status].acct = txns[n].acct
    BY <2>2 DEF Rows
  <2>4. \A m \in 1..Len(txns) : txns'[m].acct = txns[m].acct
    BY <2>1, <2>3
  <2> QED
    BY <2>1, <2>2, <2>4 DEF AccountsSound, Rowids
<1>5. ASSUME UNCHANGED <<link, wallets, txns>>
      PROVE  AccountsSound'
  BY <1>5 DEF AccountsSound, Rowids
<1>6. CASE Link
  BY <1>6, <1>1 DEF Link
<1>7. CASE Earn \/ Grant
  BY <1>7, <1>2 DEF Earn, Grant, TxnKinds
<1>8. CASE GiveBack
  BY <1>8, <1>2 DEF GiveBack, Refund, TxnKinds
<1>9. CASE Buy
  BY <1>9, <1>3 DEF Buy
<1>10. CASE Settle
  BY <1>10, <1>4 DEF Settle
<1>11. CASE EditItem \/ EditKit \/ Toggle
  BY <1>11, <1>5 DEF EditItem, EditKit, AddKit, GrowKit, Toggle, UpsertItem, CreateKit, PutOnShelf,
                     AddKitItem, SetEnabled
<1>12. CASE UNCHANGED storeVars
  BY <1>12, <1>5 DEF storeVars
<1> QED
  BY <1>6, <1>7, <1>8, <1>9, <1>10, <1>11, <1>12 DEF StoreNext

(* A game account never has two owners, and every link and every ledger row
   belongs to an account with a wallet, for any number of users. *)
THEOREM AccountsCorrect == StoreSpec => []AccountsSound
<1>1. StoreInit => AccountsSound
  BY DEF StoreInit, AccountsSound, Rowids
<1>2. StoreTypeOK /\ AccountsSound /\ [StoreNext]_storeVars
            => (StoreTypeOK /\ AccountsSound)'
  BY StoreTypeStep, AccountsStep
<1> QED
  BY StoreTypeInit, <1>1, <1>2, PTL DEF StoreSpec
=============================================================================
