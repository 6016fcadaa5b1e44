------------------------------ MODULE Shop_proofs ------------------------------
(* Proofs about Shop, the purchase flow with its failing calls and crashes, for
   any number of sessions, in this order: it makes only the steps the store
   allows; a charge is delivered, or refunded once and in full, or left pending
   by a failure; it implements the escrow; and money is conserved. *)
EXTENDS Shop, Store_proofs, WellFoundedInduction

USE ShopAssumption

(* The inductive invariant.  A session that runs knows its user and product;
   past the lookup it knows a game account; once charged, a price that an
   admin had set, so that its refund is a legal credit. *)

PricesListed == \A p \in Products : shelf[p].listed => shelf[p].price \in Prices

Committed(label, j) ==
    \/ label \in {"deliver", "markFailed", "refund", "markDone"}
    \/ label = "space" /\ j.product \notin Items

JobFine(label, j) ==
    /\ label \in Running => j.user \in Users /\ j.product \in Products
    /\ label \in Running \ {"link"} => j.game \in GameAccounts
    /\ Committed(label, j) => j.price \in Prices

JobsFine == \A s \in Sessions : JobFine(pc[s], job[s])

TxnsKnown == \A s \in Sessions : job[s].txn \in 0..Len(txns)

LocalsOK ==
    /\ mode \in {"running", "stalled", "down"}
    /\ pc \in [Sessions -> Labels]
    /\ job \in [Sessions -> Jobs]
    /\ free \in [GameAccounts -> Nat]
    /\ trace \in [Sessions -> Traces]
    /\ paidIn \in [Users -> Nat]

ShopInv == StoreTypeOK /\ LocalsOK /\ TxnsKnown /\ PricesListed /\ JobsFine

-----------------------------------------------------------------------------
(* The store part of a step *)

LEMMA PricesStep ==
    ASSUME StoreTypeOK, PricesListed, [StoreNext]_storeVars
    PROVE  PricesListed'
<1>1. ASSUME shelf' = shelf PROVE PricesListed'
  BY <1>1 DEF PricesListed
<1>2. ASSUME NEW q \in Products, NEW o, o.price \in Prices, PutOnShelf(q, o)
      PROVE  PricesListed'
  BY <1>2 DEF PricesListed, PutOnShelf, StoreTypeOK
<1>3. ASSUME NEW u \in Users, NEW q \in Products, Purchase(u, q)
      PROVE  PricesListed'
  <2>1. shelf' = [shelf EXCEPT ![q] = TakeOne(@)] /\ shelf[q] \in Offers
    BY <1>3 DEF Purchase, StoreTypeOK
  <2>2. TakeOne(shelf[q]).listed = shelf[q].listed /\ TakeOne(shelf[q]).price = shelf[q].price
    BY <2>1 DEF TakeOne, Offers
  <2> QED
    BY <2>1, <2>2 DEF PricesListed, StoreTypeOK
<1>4. ASSUME NEW k \in Kits, AddKitItem(k) PROVE PricesListed'
  <2>1. /\ shelf' = [shelf EXCEPT ![k] = [@ EXCEPT !.lines = shelf[k].lines + 1]]
        /\ k \in Products /\ shelf[k] \in Offers
    BY <1>4 DEF AddKitItem, StoreTypeOK, Products
  <2> QED
    BY <2>1 DEF PricesListed, StoreTypeOK, Offers
<1>5. ASSUME NEW q \in Products, NEW on \in BOOLEAN, SetEnabled(q, on) PROVE PricesListed'
  <2>1. shelf' = [shelf EXCEPT ![q] = [@ EXCEPT !.enabled = on]] /\ shelf[q] \in Offers
    BY <1>5 DEF SetEnabled, StoreTypeOK
  <2> QED
    BY <2>1 DEF PricesListed, StoreTypeOK, Offers
<1>6. CASE Link \/ Earn \/ Grant \/ GiveBack \/ Settle \/ UNCHANGED storeVars
  BY <1>6, <1>1 DEF Link, LinkAccount, Earn, Grant, GiveBack, Refund, Credit, Settle,
                    SetDeliveryStatus, storeVars
<1>7. CASE Buy
  BY <1>7, <1>3 DEF Buy
<1>8. CASE EditItem
  <2>1. PICK i \in Items, o \in NewOffers({1}) : UpsertItem(i, o)
    BY <1>8 DEF EditItem
  <2> QED
    BY <1>2, <2>1, NewOfferType DEF UpsertItem, Products
<1>9. CASE EditKit
  <2>1. CASE \E k \in Kits, o \in NewOffers(0..MaxLines) : CreateKit(k, o)
    <3>1. PICK k \in Kits, o \in NewOffers(0..MaxLines) : CreateKit(k, o)
      BY <2>1
    <3>2. 0..MaxLines \in SUBSET Nat
      OBVIOUS
    <3> QED
      BY <1>2, <3>1, <3>2, NewOfferType DEF CreateKit, Products
  <2>2. CASE \E k \in Kits : shelf[k].lines < MaxLines /\ AddKitItem(k)
    BY <1>4, <2>2
  <2> QED
    BY <1>9, <2>1, <2>2 DEF EditKit, AddKit, GrowKit
<1>10. CASE Toggle
  BY <1>10, <1>5 DEF Toggle
<1> QED
  BY <1>6, <1>7, <1>8, <1>9, <1>10 DEF StoreNext

(* Whatever the flow does to the database is a store operation. *)
LEMMA StoreStepOfNext ==
    ASSUME ShopInv, [Next]_vars
    PROVE  [StoreNext]_storeVars
<1>1. ASSUME NEW s \in Sessions, At(s, "purchase"), Charge(s) PROVE StoreNext
  <2>1. job[s].user \in Users /\ job[s].product \in Products
    BY <1>1 DEF ShopInv, JobsFine, JobFine, Committed, At, Running
  <2> QED
    BY <1>1, <2>1 DEF Charge, StoreNext, Buy
<1>2. ASSUME NEW s \in Sessions, At(s, "refund"), Refund(job[s].user, job[s].price)
      PROVE  StoreNext
  <2>1. job[s].user \in Users /\ job[s].price \in Prices
    BY <1>2 DEF ShopInv, JobsFine, JobFine, Committed, At, Running
  <2> QED
    BY <1>2, <2>1 DEF StoreNext, GiveBack
<1>3. ASSUME NEW n, NEW status \in {"done", "failed"}, SetDeliveryStatus(n, status)
      PROVE  StoreNext
  <2>1. n \in Rowids
    BY <1>3 DEF SetDeliveryStatus
  <2> QED
    BY <1>3, <2>1 DEF StoreNext, Settle
<1>4. ASSUME NEW s \in Sessions, SessionStep(s) \/ Deliver(s)
      PROVE  StoreNext \/ UNCHANGED storeVars
  <2>1. CASE LinkByDiscord(s) \/ EnsureSpace(s) \/ ReadBalance(s) \/ Deliver(s)
    BY <2>1 DEF LinkByDiscord, EnsureSpace, ReadBalance, Deliver
  <2>2. CASE PurchaseCall(s)
    BY <2>2, <1>1 DEF PurchaseCall, Charged, ChargedUnknown, NotCharged
  <2>3. CASE MarkFailed(s)
    BY <2>3, <1>3 DEF MarkFailed
  <2>4. CASE GiveRefund(s)
    BY <2>4, <1>2 DEF GiveRefund
  <2>5. CASE MarkDone(s)
    BY <2>5, <1>3 DEF MarkDone
  <2> QED
    BY <1>4, <2>1, <2>2, <2>3, <2>4, <2>5 DEF SessionStep
<1>5. CASE \E s \in Sessions, u \in Users, p \in Products : Request(s, u, p)
  BY <1>5 DEF Request, storeVars
<1>6. CASE \E s \in Sessions : SessionStep(s) \/ Deliver(s)
  BY <1>6, <1>4
<1>7. CASE \E g \in GameAccounts : PlayerMoves(g)
  BY <1>7 DEF PlayerMoves
<1>8. CASE \E u \in Users, amount \in Amounts, kind \in {"earn", "adjust"} : TopUp(u, amount, kind)
  BY <1>8 DEF TopUp, StoreNext, Earn, Grant
<1>9. CASE Crash \/ Restart \/ Exhaust \/ Relieve
  BY <1>9 DEF Crash, Restart, Exhaust, Relieve
<1>10. CASE Background
  BY <1>10 DEF Background, StoreNext
<1>11. CASE UNCHANGED vars
  BY <1>11 DEF vars
<1> QED
  BY <1>5, <1>6, <1>7, <1>8, <1>9, <1>10, <1>11 DEF Next

-----------------------------------------------------------------------------
(* The shop part of a step *)

(* The ledger only grows. *)
LEMMA TxnsGrow ==
    ASSUME StoreTypeOK, [StoreNext]_storeVars
    PROVE  Len(txns) \in Nat /\ Len(txns') \in Nat /\ Len(txns) <= Len(txns')
<1>1. txns \in Seq(Rows)
  BY DEF StoreTypeOK
<1>2. ASSUME NEW row, txns' = Append(txns, row)
      PROVE  Len(txns') = Len(txns) + 1
  BY <1>1, <1>2
<1>3. ASSUME NEW n, NEW row, txns' = [txns EXCEPT ![n] = row]
      PROVE  Len(txns') = Len(txns)
  BY <1>1, <1>3
<1>4. CASE Earn \/ Grant \/ GiveBack
  <2>1. PICK u, amount, kind : Credit(u, amount, kind)
    BY <1>4, Zenon DEF Earn, Grant, GiveBack, Refund
  <2> QED
    BY <2>1, <1>1, <1>2 DEF Credit
<1>5. CASE Buy
  BY <1>5, <1>1, <1>2 DEF Buy, Purchase
<1>6. CASE Settle
  BY <1>6, <1>1, <1>3 DEF Settle, SetDeliveryStatus
<1>7. CASE Link \/ EditItem \/ EditKit \/ Toggle \/ UNCHANGED storeVars
  BY <1>7, <1>1 DEF Link, LinkAccount, EditItem, EditKit, AddKit, GrowKit, Toggle, UpsertItem, CreateKit,
                    PutOnShelf, AddKitItem, SetEnabled, storeVars
<1> QED
  BY <1>1, <1>4, <1>5, <1>6, <1>7 DEF StoreNext

(* A session that moves to a label with locals that fit it leaves the locals
   of every session as they should be. *)
LEMMA StepKeeps ==
    ASSUME ShopInv, [StoreNext]_storeVars,
           NEW s \in Sessions, NEW label \in Labels, NEW j \in Jobs, Step(s, label, j),
           JobFine(label, j), j.txn \in 0..Len(txns')
    PROVE  /\ pc' \in [Sessions -> Labels] /\ job' \in [Sessions -> Jobs]
           /\ TxnsKnown' /\ JobsFine'
<1>1. /\ pc \in [Sessions -> Labels] /\ job \in [Sessions -> Jobs]
      /\ pc' = [pc EXCEPT ![s] = label] /\ job' = [job EXCEPT ![s] = j]
  BY DEF ShopInv, LocalsOK, Step
<1>2. \A t \in Sessions : /\ pc'[t] = IF t = s THEN label ELSE pc[t]
                          /\ job'[t] = IF t = s THEN j ELSE job[t]
  BY <1>1
<1>3. Len(txns) \in Nat /\ Len(txns') \in Nat /\ Len(txns) <= Len(txns')
  BY TxnsGrow DEF ShopInv
<1>4. TxnsKnown'
  <2>1. SUFFICES ASSUME NEW t \in Sessions PROVE job'[t].txn \in 0..Len(txns')
    BY DEF TxnsKnown
  <2>2. CASE t = s
    BY <2>2, <1>2
  <2>3. CASE t # s
    BY <2>3, <1>2, <1>3 DEF ShopInv, TxnsKnown
  <2> QED
    BY <2>2, <2>3
<1>5. JobsFine'
  <2>1. SUFFICES ASSUME NEW t \in Sessions PROVE JobFine(pc'[t], job'[t])
    BY DEF JobsFine, JobFine
  <2>2. CASE t = s
    BY <2>2, <1>2
  <2>3. CASE t # s
    BY <2>3, <1>2 DEF ShopInv, JobsFine
  <2> QED
    BY <2>2, <2>3
<1> QED
  BY <1>1, <1>4, <1>5

(* When no session moves, the same holds. *)
LEMMA StandKeeps ==
    ASSUME ShopInv, [StoreNext]_storeVars, job' = job,
           pc' \in [Sessions -> Labels],
           \A s \in Sessions : pc'[s] = pc[s] \/ pc'[s] = "lost"
    PROVE  TxnsKnown' /\ JobsFine'
<1>1. Len(txns) \in Nat /\ Len(txns') \in Nat /\ Len(txns) <= Len(txns')
  BY TxnsGrow DEF ShopInv
<1>2. TxnsKnown'
  BY <1>1 DEF ShopInv, TxnsKnown
<1>3. ASSUME NEW s \in Sessions PROVE JobFine(pc'[s], job'[s])
  <2>1. CASE pc'[s] = pc[s]
    BY <2>1 DEF ShopInv, JobsFine
  <2>2. CASE pc'[s] = "lost"
    BY <2>2 DEF JobFine, Committed, Running
  <2> QED
    BY <2>1, <2>2
<1> QED
  BY <1>2, <1>3 DEF JobsFine

LEMMA NoteKeeps ==
    ASSUME LocalsOK, NEW s \in Sessions, NEW t \in Traces, Note(s, t)
    PROVE  trace' \in [Sessions -> Traces]
  BY DEF LocalsOK, Note

(* A failing call only marks its session. *)
LEMMA FailedKeeps ==
    ASSUME LocalsOK, NEW s \in Sessions, Failed(s)
    PROVE  trace' \in [Sessions -> Traces]
<1>1. trace[s] \in Traces
  BY DEF LocalsOK
<1>2. [trace[s] EXCEPT !.hit = TRUE] \in Traces
  BY <1>1 DEF Traces
<1> QED
  BY <1>2, NoteKeeps DEF Failed

(* Returning needs nothing of the locals. *)
LEMMA ReturnFine ==
    ASSUME ShopInv, [StoreNext]_storeVars,
           NEW s \in Sessions, NEW result \in Results, Return(s, result)
    PROVE  /\ pc' \in [Sessions -> Labels] /\ job' \in [Sessions -> Jobs]
           /\ TxnsKnown' /\ JobsFine'
<1> DEFINE j == [job[s] EXCEPT !.result = result]
<1>1. job[s] \in Jobs /\ job[s].txn \in 0..Len(txns)
  BY DEF ShopInv, LocalsOK, TxnsKnown
<1>2. j \in Jobs /\ j.txn = job[s].txn
  BY <1>1 DEF Jobs
<1>3. "end" \in Labels /\ JobFine("end", j)
  BY DEF Labels, JobFine, Committed, Running
<1>4. j.txn \in 0..Len(txns')
  BY <1>1, <1>2, TxnsGrow DEF ShopInv
<1> QED
  BY <1>2, <1>3, <1>4, StepKeeps DEF Return

(* Going on with the same locals. *)
LEMMA GotoFine ==
    ASSUME ShopInv, [StoreNext]_storeVars,
           NEW s \in Sessions, NEW label \in Labels, Goto(s, label), JobFine(label, job[s])
    PROVE  /\ pc' \in [Sessions -> Labels] /\ job' \in [Sessions -> Jobs]
           /\ TxnsKnown' /\ JobsFine'
<1>1. job[s] \in Jobs /\ job[s].txn \in 0..Len(txns)
  BY DEF ShopInv, LocalsOK, TxnsKnown
<1>2. job[s].txn \in 0..Len(txns')
  BY <1>1, TxnsGrow DEF ShopInv
<1> QED
  BY <1>1, <1>2, StepKeeps DEF Goto

(* Giving up a purchase that was charged. *)
LEMMA AbortFine ==
    ASSUME ShopInv, [StoreNext]_storeVars, NEW s \in Sessions, NEW result \in Results,
           Abort(s, result), JobFine("markFailed", job[s])
    PROVE  /\ pc' \in [Sessions -> Labels] /\ job' \in [Sessions -> Jobs]
           /\ TxnsKnown' /\ JobsFine'
<1> DEFINE j == [job[s] EXCEPT !.result = result]
<1>1. job[s] \in Jobs /\ job[s].txn \in 0..Len(txns)
  BY DEF ShopInv, LocalsOK, TxnsKnown
<1>2. /\ j \in Jobs /\ j.txn = job[s].txn /\ j.user = job[s].user /\ j.game = job[s].game
      /\ j.product = job[s].product /\ j.price = job[s].price
  BY <1>1 DEF Jobs
<1>3. "markFailed" \in Labels /\ JobFine("markFailed", j)
  BY <1>2 DEF Labels, Running, JobFine, Committed
<1>4. j.txn \in 0..Len(txns')
  BY <1>1, <1>2, TxnsGrow DEF ShopInv
<1> QED
  BY <1>2, <1>3, <1>4, StepKeeps DEF Abort

-----------------------------------------------------------------------------
(* The actions *)

(* One conjunct list for "the variables of Shop are as they should be". *)
ShopRest == LocalsOK /\ TxnsKnown /\ JobsFine

(* What the invariant says of a session's own record and history. *)
LEMMA Own ==
    ASSUME ShopInv, NEW s \in Sessions
    PROVE  /\ pc[s] \in Labels /\ job[s] \in Jobs /\ trace[s] \in Traces
           /\ JobFine(pc[s], job[s])
           /\ LocalsOK
  BY DEF ShopInv, LocalsOK, JobsFine

LEMMA LinkByDiscordKeeps ==
    ASSUME ShopInv, [StoreNext]_storeVars, NEW s \in Sessions, LinkByDiscord(s)
    PROVE  ShopRest'
<1> DEFINE game == link[job[s].user]
           moved == [job[s] EXCEPT !.game = game]
           next == IF IsItem(s) THEN "space" ELSE "purchase"
<1>1. pc[s] = "link" /\ UNCHANGED <<mode, free, paidIn>>
  BY DEF LinkByDiscord, At
<1>2. trace' \in [Sessions -> Traces]
  BY Own, FailedKeeps DEF LinkByDiscord, LocalsOK
<1>3. CASE \E result \in Results : Return(s, result)
  BY <1>1, <1>2, <1>3, ReturnFine, Own DEF ShopRest, LocalsOK
<1>4. CASE game # None /\ Step(s, next, moved)
  <2>1. job[s] \in Jobs /\ job[s].user \in Users /\ job[s].product \in Products
        /\ job[s].txn \in 0..Len(txns)
    BY <1>1, Own DEF ShopInv, TxnsKnown, JobFine, Running
  <2>2. game \in GameAccounts
    BY <1>4, <2>1 DEF ShopInv, StoreTypeOK
  <2>3. /\ moved \in Jobs /\ moved.game = game /\ moved.user = job[s].user
        /\ moved.product = job[s].product /\ moved.txn = job[s].txn
    BY <2>1, <2>2 DEF Jobs
  <2>4. next \in Labels /\ JobFine(next, moved)
    BY <2>1, <2>2, <2>3 DEF IsItem, Labels, Running, JobFine, Committed
  <2>5. moved.txn \in 0..Len(txns')
    BY <2>1, <2>3, TxnsGrow DEF ShopInv
  <2> QED
    BY <1>1, <1>2, <1>4, <2>3, <2>4, <2>5, StepKeeps, Own DEF ShopRest, LocalsOK
<1> QED
  BY <1>3, <1>4 DEF LinkByDiscord, Results

LEMMA EnsureSpaceKeeps ==
    ASSUME ShopInv, [StoreNext]_storeVars, NEW s \in Sessions, EnsureSpace(s)
    PROVE  ShopRest'
<1> DEFINE next == IF IsItem(s) THEN "purchase" ELSE "deliver"
<1>1. pc[s] = "space" /\ UNCHANGED <<mode, free, paidIn>>
  BY DEF EnsureSpace, At
<1>2. trace' \in [Sessions -> Traces]
  BY Own DEF EnsureSpace, LocalsOK
<1>3. JobFine("space", job[s])
  BY <1>1, Own
<1>4. CASE Return(s, "noSpace")
  BY <1>1, <1>2, <1>4, ReturnFine, Own DEF ShopRest, LocalsOK, Results
<1>5. CASE Goto(s, next)
  <2>1. next \in Labels /\ JobFine(next, job[s])
    BY <1>3 DEF IsItem, Labels, Running, JobFine, Committed
  <2> QED
    BY <1>1, <1>2, <1>5, <2>1, GotoFine, Own DEF ShopRest, LocalsOK
<1>6. CASE ~IsItem(s) /\ Abort(s, "noSpace")
  <2>1. JobFine("markFailed", job[s])
    BY <1>3, <1>6 DEF IsItem, Running, JobFine, Committed
  <2> QED
    BY <1>1, <1>2, <1>6, <2>1, AbortFine, Own DEF ShopRest, LocalsOK, Results
<1> QED
  BY <1>4, <1>5, <1>6 DEF EnsureSpace

LEMMA PurchaseCallKeeps ==
    ASSUME ShopInv, [StoreNext]_storeVars, NEW s \in Sessions, PurchaseCall(s)
    PROVE  ShopRest'
<1> DEFINE p == job[s].product
           next == IF IsItem(s) THEN "deliver" ELSE "space"
           paid == [job[s] EXCEPT !.price = shelf[p].price, !.lines = shelf[p].lines,
                                  !.txn = Len(txns')]
<1>1. pc[s] = "purchase" /\ UNCHANGED <<mode, free, paidIn>>
  BY DEF PurchaseCall, At
<1>2. job[s] \in Jobs /\ trace[s] \in Traces /\ Len(txns') \in Nat
  BY Own, TxnsGrow DEF ShopInv
<1>3. /\ job[s].user \in Users /\ p \in Products /\ job[s].game \in GameAccounts
      /\ shelf[p] \in Offers
  BY <1>1, Own DEF JobFine, Running, ShopInv, StoreTypeOK
<1>4. CASE Charged(s)
  <2>1. shelf[p].listed
    BY <1>3, <1>4, OkMeans DEF Charged, Charge, Purchase
  <2>2. shelf[p].price \in Prices /\ shelf[p].price \in Nat /\ shelf[p].lines \in Nat
    BY <1>3, <2>1 DEF ShopInv, PricesListed, Offers
  <2>3. /\ paid \in Jobs /\ paid.user = job[s].user /\ paid.product = p
        /\ paid.game = job[s].game /\ paid.price = shelf[p].price /\ paid.txn = Len(txns')
    BY <1>2, <2>2 DEF Jobs
  <2>4. next \in Labels /\ JobFine(next, paid)
    BY <1>3, <2>2, <2>3 DEF IsItem, Labels, Running, JobFine, Committed
  <2>5. paid.txn \in 0..Len(txns')
    BY <1>2, <2>3
  <2>6. Step(s, next, paid)
    BY <1>4 DEF Charged
  <2>7. [trace[s] EXCEPT !.spend = Len(txns')] \in Traces
    BY <1>2 DEF Traces
  <2>8. trace' \in [Sessions -> Traces]
    BY <1>4, <2>7, NoteKeeps, Own DEF Charged
  <2> QED
    BY <1>1, <2>3, <2>4, <2>5, <2>6, <2>8, StepKeeps, Own DEF ShopRest, LocalsOK
<1>5. CASE ChargedUnknown(s)
  <2>1. [trace[s] EXCEPT !.spend = Len(txns'), !.hit = TRUE] \in Traces
    BY <1>2 DEF Traces
  <2>2. trace' \in [Sessions -> Traces]
    BY <1>5, <2>1, NoteKeeps, Own DEF ChargedUnknown
  <2> QED
    BY <1>1, <1>5, <2>2, ReturnFine, Own DEF ChargedUnknown, ShopRest, LocalsOK, Results
<1>6. CASE NotCharged(s)
  <2>1. trace' \in [Sessions -> Traces]
    BY <1>6, Own, FailedKeeps DEF NotCharged, LocalsOK
  <2>2. \E result \in Results : Return(s, result)
    BY <1>6 DEF NotCharged, PurchaseResult, Results
  <2> QED
    BY <1>1, <2>1, <2>2, ReturnFine, Own DEF ShopRest, LocalsOK
<1> QED
  BY <1>4, <1>5, <1>6 DEF PurchaseCall

LEMMA DeliverKeeps ==
    ASSUME ShopInv, [StoreNext]_storeVars, NEW s \in Sessions, Deliver(s)
    PROVE  ShopRest'
<1> DEFINE next == IF job[s].line + 1 < job[s].lines THEN "deliver" ELSE "markDone"
           moved == [job[s] EXCEPT !.line = @ + 1]
<1>1. pc[s] = "deliver" /\ UNCHANGED <<mode, paidIn>>
  BY DEF Deliver, At
<1>2. /\ job[s] \in Jobs /\ trace[s] \in Traces /\ JobFine("deliver", job[s])
      /\ job[s].txn \in 0..Len(txns) /\ job[s].game \in GameAccounts
      /\ free \in [GameAccounts -> Nat] /\ mode \in {"running", "stalled", "down"} /\ paidIn \in [Users -> Nat]
  BY <1>1, Own DEF ShopInv, TxnsKnown, JobFine, Running, LocalsOK
<1>3. PICK o \in Outcomes :
        /\ Note(s, [trace[s] EXCEPT !.acked = IF o.ok THEN @ + 1 ELSE @,
                                    !.granted = @ + o.grants])
        /\ free' = [free EXCEPT ![job[s].game] = IF @ > o.grants THEN @ - o.grants ELSE 0]
        /\ \/ o.ok /\ Step(s, next, moved)
           \/ ~o.ok /\ Abort(s, "deliveryFailed")
  BY DEF Deliver
<1>4. o.ok \in BOOLEAN /\ o.grants \in Nat
  BY <1>3
<1>5. trace' \in [Sessions -> Traces]
  <2> DEFINE acked == IF o.ok THEN trace[s].acked + 1 ELSE trace[s].acked
             granted == trace[s].granted + o.grants
  <2>1. acked \in Nat /\ granted \in Nat
    BY <1>2, <1>4 DEF Traces
  <2>2. [trace[s] EXCEPT !.acked = acked, !.granted = granted] \in Traces
    <3> HIDE DEF acked, granted
    <3> QED
      BY <1>2, <2>1 DEF Traces
  <2> QED
    BY <1>3, <2>2, NoteKeeps, Own
<1>6. free' \in [GameAccounts -> Nat]
  BY <1>2, <1>3, <1>4
<1>7. CASE Step(s, next, moved)
  <2>1. /\ moved \in Jobs /\ moved.user = job[s].user /\ moved.product = job[s].product
        /\ moved.game = job[s].game /\ moved.price = job[s].price /\ moved.txn = job[s].txn
    <3> DEFINE line == job[s].line + 1
    <3>1. line \in Nat
      BY <1>2 DEF Jobs
    <3>2. moved = [job[s] EXCEPT !.line = line]
      BY <1>2
    <3> HIDE DEF line, moved
    <3> QED
      BY <1>2, <3>1, <3>2 DEF Jobs
  <2>2. next \in Labels /\ JobFine(next, moved)
    BY <1>2, <2>1 DEF Labels, Running, JobFine, Committed
  <2>3. moved.txn \in 0..Len(txns')
    BY <1>2, <2>1, TxnsGrow DEF ShopInv
  <2> QED
    BY <1>1, <1>2, <1>5, <1>6, <1>7, <2>1, <2>2, <2>3, StepKeeps DEF ShopRest, LocalsOK
<1>8. CASE Abort(s, "deliveryFailed")
  <2>1. JobFine("markFailed", job[s])
    BY <1>2 DEF Running, JobFine, Committed
  <2> QED
    BY <1>1, <1>2, <1>5, <1>6, <1>8, <2>1, AbortFine DEF ShopRest, LocalsOK, Results
<1> QED
  BY <1>3, <1>7, <1>8

LEMMA MarkFailedKeeps ==
    ASSUME ShopInv, [StoreNext]_storeVars, NEW s \in Sessions, MarkFailed(s)
    PROVE  ShopRest'
<1>1. pc[s] = "markFailed" /\ UNCHANGED <<mode, free, paidIn>> /\ Goto(s, "refund")
  BY DEF MarkFailed, At
<1>2. trace' \in [Sessions -> Traces]
  BY Own, FailedKeeps DEF MarkFailed, LocalsOK
<1>3. "refund" \in Labels /\ JobFine("refund", job[s])
  BY <1>1, Own DEF Labels, Running, JobFine, Committed
<1> QED
  BY <1>1, <1>2, <1>3, GotoFine, Own DEF ShopRest, LocalsOK

LEMMA GiveRefundKeeps ==
    ASSUME ShopInv, [StoreNext]_storeVars, NEW s \in Sessions, GiveRefund(s)
    PROVE  ShopRest'
<1>1. UNCHANGED <<mode, free, paidIn>> /\ Goto(s, "end")
  BY DEF GiveRefund
<1>2. trace[s] \in Traces /\ Len(txns') \in Nat
  BY Own, TxnsGrow DEF ShopInv
<1>3. trace' \in [Sessions -> Traces]
  <2>1. CASE Note(s, [trace[s] EXCEPT !.refunds = @ \cup {Len(txns')}])
    <3>1. [trace[s] EXCEPT !.refunds = @ \cup {Len(txns')}] \in Traces
      BY <1>2 DEF Traces
    <3> QED
      BY <2>1, <3>1, NoteKeeps, Own
  <2>2. CASE Note(s, [trace[s] EXCEPT !.hit = TRUE])
    <3>1. [trace[s] EXCEPT !.hit = TRUE] \in Traces
      BY <1>2 DEF Traces
    <3> QED
      BY <2>2, <3>1, NoteKeeps, Own
  <2> QED
    BY <2>1, <2>2 DEF GiveRefund, Failed
<1>4. "end" \in Labels /\ JobFine("end", job[s])
  BY DEF Labels, Running, JobFine, Committed
<1> QED
  BY <1>1, <1>3, <1>4, GotoFine, Own DEF ShopRest, LocalsOK

LEMMA MarkDoneKeeps ==
    ASSUME ShopInv, [StoreNext]_storeVars, NEW s \in Sessions, MarkDone(s)
    PROVE  ShopRest'
<1>1. pc[s] = "markDone" /\ UNCHANGED <<mode, free, paidIn>>
  BY DEF MarkDone, At
<1>2. trace' \in [Sessions -> Traces]
  BY Own, FailedKeeps DEF MarkDone, LocalsOK
<1>3. CASE Goto(s, "balance")
  <2>1. "balance" \in Labels /\ JobFine("balance", job[s])
    BY <1>1, Own DEF Labels, Running, JobFine, Committed
  <2> QED
    BY <1>1, <1>2, <1>3, <2>1, GotoFine, Own DEF ShopRest, LocalsOK
<1>4. CASE Return(s, "error")
  BY <1>1, <1>2, <1>4, ReturnFine, Own DEF ShopRest, LocalsOK, Results
<1> QED
  BY <1>3, <1>4 DEF MarkDone

LEMMA ReadBalanceKeeps ==
    ASSUME ShopInv, [StoreNext]_storeVars, NEW s \in Sessions, ReadBalance(s)
    PROVE  ShopRest'
<1>1. UNCHANGED <<mode, free, paidIn, trace>> /\ Return(s, "ok")
  BY DEF ReadBalance
<1> QED
  BY <1>1, ReturnFine, Own DEF ShopRest, LocalsOK, Results

LEMMA RequestKeeps ==
    ASSUME ShopInv, [StoreNext]_storeVars,
           NEW s \in Sessions, NEW u \in Users, NEW p \in Products, Request(s, u, p)
    PROVE  ShopRest'
<1> DEFINE asked == [Blank EXCEPT !.user = u, !.product = p]
<1>1. UNCHANGED <<mode, free, paidIn, trace>> /\ Step(s, "link", asked)
  BY DEF Request
<1>2. asked \in Jobs /\ asked.user = u /\ asked.product = p /\ asked.txn = 0
  BY DEF Jobs, Blank, Results
<1>3. "link" \in Labels /\ JobFine("link", asked)
  BY <1>2 DEF Labels, Running, JobFine, Committed
<1>4. asked.txn \in 0..Len(txns')
  BY <1>2, TxnsGrow DEF ShopInv
<1> QED
  BY <1>1, <1>2, <1>3, <1>4, StepKeeps, Own DEF ShopRest, LocalsOK

LEMMA ShopStep ==
    ASSUME ShopInv, [Next]_vars
    PROVE  ShopInv'
<1>1. [StoreNext]_storeVars
  BY StoreStepOfNext
<1>2. StoreTypeOK' /\ PricesListed'
  BY <1>1, StoreTypeStep, PricesStep DEF ShopInv
<1>3. CASE \E s \in Sessions, u \in Users, p \in Products : Request(s, u, p)
  BY <1>1, <1>2, <1>3, RequestKeeps DEF ShopInv, ShopRest
<1>4. CASE \E s \in Sessions : SessionStep(s) \/ Deliver(s)
  <2>1. PICK s \in Sessions : SessionStep(s) \/ Deliver(s)
    BY <1>4
  <2>2. ShopRest'
    BY <1>1, <2>1, LinkByDiscordKeeps, EnsureSpaceKeeps, PurchaseCallKeeps, DeliverKeeps,
       MarkFailedKeeps, GiveRefundKeeps, MarkDoneKeeps, ReadBalanceKeeps DEF SessionStep
  <2> QED
    BY <1>2, <2>2 DEF ShopInv, ShopRest
<1>5. ASSUME UNCHANGED <<pc, job>>, LocalsOK' PROVE ShopInv'
  <2>1. TxnsKnown' /\ JobsFine'
    BY <1>1, <1>5, StandKeeps DEF LocalsOK
  <2> QED
    BY <1>2, <1>5, <2>1 DEF ShopInv
<1>6. CASE \E g \in GameAccounts : PlayerMoves(g)
  <2>1. PICK g \in GameAccounts, n \in 0..Capacity : /\ free' = [free EXCEPT ![g] = n]
                                                   /\ UNCHANGED <<mode, pc, job, paidIn, trace>>
    BY <1>6 DEF PlayerMoves
  <2>2. free' \in [GameAccounts -> Nat]
    BY <2>1 DEF ShopInv, LocalsOK
  <2> QED
    BY <1>5, <2>1, <2>2 DEF ShopInv, LocalsOK
<1>7. CASE \E u \in Users, amount \in Amounts, kind \in {"earn", "adjust"} : TopUp(u, amount, kind)
  <2>1. PICK u \in Users, amount \in Amounts :
            /\ paidIn' = [paidIn EXCEPT ![u] = @ + amount]
            /\ UNCHANGED <<mode, pc, job, free, trace>>
    BY <1>7 DEF TopUp
  <2>2. paidIn' \in [Users -> Nat]
    BY <2>1, StoreAssumption DEF ShopInv, LocalsOK
  <2> QED
    BY <1>5, <2>1, <2>2 DEF ShopInv, LocalsOK
<1>8. CASE Crash
  <2>1. /\ mode' = "down" /\ UNCHANGED <<job, free, paidIn, trace>>
        /\ pc' = [s \in Sessions |-> IF pc[s] \in Running THEN "lost" ELSE pc[s]]
    BY <1>8 DEF Crash
  <2>2. pc' \in [Sessions -> Labels] /\ \A s \in Sessions : pc'[s] = pc[s] \/ pc'[s] = "lost"
    BY <2>1 DEF ShopInv, LocalsOK, Labels
  <2>3. TxnsKnown' /\ JobsFine'
    BY <1>1, <2>1, <2>2, StandKeeps
  <2> QED
    BY <1>2, <2>1, <2>2, <2>3 DEF ShopInv, LocalsOK
<1>9. CASE Restart \/ Exhaust \/ Relieve
  BY <1>5, <1>9 DEF Restart, Exhaust, Relieve, ShopInv, LocalsOK
<1>10. CASE Background
  BY <1>5, <1>10 DEF Background, shopVars, ShopInv, LocalsOK
<1>11. CASE UNCHANGED vars
  BY <1>5, <1>11 DEF vars, shopVars, ShopInv, LocalsOK
<1> QED
  BY <1>3, <1>4, <1>6, <1>7, <1>8, <1>9, <1>10, <1>11 DEF Next

LEMMA ShopInvInit == Init => ShopInv
<1> SUFFICES ASSUME Init PROVE ShopInv
  OBVIOUS
<1>1. StoreTypeOK
  BY StoreTypeInit DEF Init
<1>2. NoTrace \in Traces /\ Blank \in Jobs
  BY DEF NoTrace, Traces, Blank, Jobs, Results
<1>3. LocalsOK
  BY <1>2 DEF Init, ShopInit, LocalsOK, Labels
<1>4. PricesListed /\ JobsFine
  BY DEF Init, StoreInit, ShopInit, PricesListed, Unlisted, JobsFine, JobFine,
         Committed, Running
<1>5. TxnsKnown
  BY DEF Init, StoreInit, ShopInit, TxnsKnown, Blank
<1> QED
  BY <1>1, <1>3, <1>4, <1>5 DEF ShopInv

-----------------------------------------------------------------------------
(* Every variable of the shop keeps its type, through failing calls, crashes
   and restarts, for any number of sessions, users and products. *)
THEOREM ShopTypeCorrect == Spec => []TypeOK
<1>1. ShopInv /\ [Next]_vars => ShopInv'
  BY ShopStep
<1>2. ShopInv => TypeOK
  BY DEF ShopInv, LocalsOK, TxnsKnown, TypeOK
<1> QED
  BY ShopInvInit, <1>1, <1>2, PTL DEF Spec

(* The purchase flow uses the database only through the store's operations:
   every behaviour of Shop is, seen from the tables, one of Store. *)
THEOREM ShopImplementsStore == Spec => StoreSpec
<1>1. ShopInv /\ [Next]_vars => ShopInv'
  BY ShopStep
<1>2. ShopInv /\ [Next]_vars => [StoreNext]_storeVars
  BY StoreStepOfNext
<1>3. Init => StoreInit
  BY DEF Init
<1> QED
  BY ShopInvInit, <1>1, <1>2, <1>3, PTL DEF Spec, StoreSpec

(* Hence a wallet holds the sum of its ledger rows whatever happens to the
   sessions that write both. *)
THEOREM ShopLedgerCorrect == Spec => []LedgerReconciles
  BY ShopImplementsStore, LedgerCorrect, PTL

(* The same for the stock: sessions that race for the last unit, or fail after
   taking it, leave every limited product accounted for. *)
THEOREM ShopStockCorrect == Spec => []StockAccounted
  BY ShopImplementsStore, StockCorrect, PTL

-----------------------------------------------------------------------------
(* What becomes of a charge: for any number of sessions, through failing store
   calls and crashes, it is refunded once and in full, or it is delivered, or
   its row stays pending because something failed. *)

(* The inductive invariant.  What is known of a session follows from where it
   is: its label, its locals j, its history t, and the ledger. *)

Refusals == {"noSpace", "deliveryFailed"}

Fresh(j, t) == t.spend = 0 /\ t.refunds = {} /\ t.acked = 0 /\ j.line = 0

Delivery(t, rows) == rows[t.spend].delivery

(* The charge of the session is row t.spend. *)
Owns(j, t, rows) ==
    /\ t.spend \in 1..Len(rows)
    /\ rows[t.spend].acct = j.user
    /\ rows[t.spend].kind = "spend"

(* The session knows its charge and has given nothing back. *)
Holds(j, t, rows) ==
    /\ Owns(j, t, rows)
    /\ j.txn = t.spend
    /\ rows[t.spend].amount = -j.price
    /\ t.refunds = {}

GotBack(t, rows) ==
    \E n \in 1..Len(rows) :
        /\ t.refunds = {n}
        /\ rows[n].acct = rows[t.spend].acct
        /\ rows[n].amount = -rows[t.spend].amount

Waiting(label, j) ==
    label \in {"idle", "link", "purchase"} \/ (label = "space" /\ j.product \in Items)

Shipping(label, j) ==
    label = "deliver" \/ (label = "space" /\ j.product \notin Items)

(* A session that has returned: it did not pay, or was delivered, or was charged
   and not delivered; and unless a store call failed, the result says which. *)
Answers(j, t, rows) ==
    \/ /\ t.spend = 0 /\ t.refunds = {}
       /\ t.hit \/ j.result \notin {"ok", "deliveryFailed", "error"}
    \/ /\ Owns(j, t, rows) /\ t.refunds = {}
       /\ Delivery(t, rows) = "done" /\ t.acked = j.lines
       /\ t.hit \/ j.result = "ok"
    \/ /\ Owns(j, t, rows) /\ Delivery(t, rows) \in {"pending", "failed"}
       /\ t.refunds = {} \/ GotBack(t, rows)
       /\ \/ t.hit
          \/ Delivery(t, rows) = "failed" /\ GotBack(t, rows) /\ j.result \in Refusals

Settled(label, j, t, rows) ==
    /\ Waiting(label, j) => Fresh(j, t)
    /\ Shipping(label, j) => /\ Holds(j, t, rows) /\ Delivery(t, rows) = "pending"
                             /\ t.acked = j.line /\ j.line < j.lines
    /\ label = "markFailed" => /\ Holds(j, t, rows) /\ Delivery(t, rows) = "pending"
                               /\ j.result \in Refusals
    /\ label = "refund" => /\ Holds(j, t, rows) /\ j.result \in Refusals
                           /\ \/ Delivery(t, rows) = "failed"
                              \/ Delivery(t, rows) = "pending" /\ t.hit
    /\ label = "markDone" => /\ Holds(j, t, rows) /\ Delivery(t, rows) = "pending"
                             /\ t.acked = j.lines
    /\ label = "balance" => /\ Holds(j, t, rows) /\ Delivery(t, rows) = "done"
                            /\ t.acked = j.lines
    /\ label = "end" => Answers(j, t, rows)
    /\ label = "lost" =>
        \/ t.spend = 0 /\ t.refunds = {}
        \/ /\ Owns(j, t, rows) /\ t.refunds = {}
           /\ Delivery(t, rows) \in {"pending", "failed", "done"}
           /\ Delivery(t, rows) = "done" => t.acked = j.lines

AllSettled == \A s \in Sessions : Settled(pc[s], job[s], trace[s], txns)

(* No two sessions were charged by the same row ... *)
Distinct ==
    \A s, t \in Sessions : s # t /\ HasPaid(s) => trace[s].spend # trace[t].spend

(* ... and no row charged nobody. *)
Owned ==
    \A n \in Rowids : txns[n].kind = "spend" => \E s \in Sessions : trace[s].spend = n

SettleInv == ShopInv /\ AllSettled /\ Distinct /\ Owned

-----------------------------------------------------------------------------
(* What the other sessions do to the ledger does not disturb a session: they
   append rows, or set the delivery of a row that is not its own. *)

Kept(t, rows, more) ==
    /\ Len(rows) \in Nat /\ Len(more) \in Nat /\ Len(rows) <= Len(more)
    /\ \A n \in 1..Len(rows) : /\ more[n].acct = rows[n].acct
                               /\ more[n].amount = rows[n].amount
                               /\ more[n].kind = rows[n].kind
    /\ t.spend \in 1..Len(rows) => Delivery(t, more) = Delivery(t, rows)

LEMMA KeptSame ==
    ASSUME NEW rows \in Seq(Rows), NEW t
    PROVE  Kept(t, rows, rows)
  BY DEF Kept

LEMMA KeptAppend ==
    ASSUME NEW rows \in Seq(Rows), NEW row, NEW t
    PROVE  Kept(t, rows, Append(rows, row))
<1>1. Len(rows) \in Nat /\ Len(Append(rows, row)) = Len(rows) + 1
  OBVIOUS
<1>2. \A n \in 1..Len(rows) : Append(rows, row)[n] = rows[n]
  OBVIOUS
<1> QED
  BY <1>1, <1>2 DEF Kept, Delivery

LEMMA KeptSet ==
    ASSUME NEW rows \in Seq(Rows), NEW n \in 1..Len(rows), NEW d \in DeliveryStatuses,
           NEW t, t.spend # n
    PROVE  Kept(t, rows, [rows EXCEPT ![n] = [@ EXCEPT !.delivery = d]])
<1> DEFINE row == [rows[n] EXCEPT !.delivery = d]
           more == [rows EXCEPT ![n] = row]
<1>1. Len(rows) \in Nat /\ rows[n] \in Rows
  OBVIOUS
<1>2. row.acct = rows[n].acct /\ row.amount = rows[n].amount /\ row.kind = rows[n].kind
  BY <1>1 DEF Rows
<1> HIDE DEF row
<1>3. Len(more) = Len(rows) /\ \A m \in 1..Len(rows) : more[m] = IF m = n THEN row ELSE rows[m]
  OBVIOUS
<1>4. Kept(t, rows, more)
  BY <1>1, <1>2, <1>3 DEF Kept, Delivery
<1> QED
  BY <1>4 DEF row

LEMMA SettledKept ==
    ASSUME NEW label, NEW j, NEW t, NEW rows, NEW more,
           Kept(t, rows, more), Settled(label, j, t, rows)
    PROVE  Settled(label, j, t, more)
<1>1. Owns(j, t, rows) => Owns(j, t, more) /\ Delivery(t, more) = Delivery(t, rows)
  BY DEF Kept, Owns
<1>2. Holds(j, t, rows) => Holds(j, t, more)
  BY <1>1 DEF Kept, Holds, Owns
<1>3. Owns(j, t, rows) /\ GotBack(t, rows) => GotBack(t, more)
  BY DEF Kept, Owns, GotBack
<1>4. Answers(j, t, rows) => Answers(j, t, more)
  BY <1>1, <1>3, Zenon DEF Answers
<1> QED
  BY <1>1, <1>2, <1>4, Zenon DEF Settled, Holds

(* A session may stop anywhere. *)
LEMMA SettledLost ==
    ASSUME NEW label \in Running, NEW j, NEW t, NEW rows, Settled(label, j, t, rows)
    PROVE  Settled("lost", j, t, rows)
  BY DEF Settled, Running, Waiting, Shipping, Fresh, Holds

-----------------------------------------------------------------------------
(* A step of one session *)

(* Session s moves on, the others stand still. *)
Moves(s, label, j, t) ==
    /\ pc'[s] = label /\ job'[s] = j /\ trace'[s] = t
    /\ \A q \in Sessions \ {s} : pc'[q] = pc[q] /\ job'[q] = job[q] /\ trace'[q] = trace[q]

LEMMA StepMoves ==
    ASSUME LocalsOK, NEW s \in Sessions, NEW label, NEW j, NEW t,
           Step(s, label, j), Note(s, t) \/ (t = trace[s] /\ UNCHANGED trace)
    PROVE  Moves(s, label, j, t)
<1>1. /\ pc' = [pc EXCEPT ![s] = label] /\ job' = [job EXCEPT ![s] = j]
      /\ pc \in [Sessions -> Labels] /\ job \in [Sessions -> Jobs]
      /\ trace \in [Sessions -> Traces]
  BY DEF LocalsOK, Step
<1>2. CASE Note(s, t)
  BY <1>1, <1>2 DEF Note, Moves
<1>3. CASE t = trace[s] /\ UNCHANGED trace
  BY <1>1, <1>3 DEF Moves
<1> QED
  BY <1>2, <1>3

LEMMA OneMoves ==
    ASSUME AllSettled, NEW s \in Sessions, NEW label, NEW j, NEW t,
           Moves(s, label, j, t), Settled(label, j, t, txns'),
           \A q \in Sessions \ {s} : Kept(trace[q], txns, txns')
    PROVE  AllSettled'
<1>1. SUFFICES ASSUME NEW q \in Sessions
               PROVE  Settled(pc'[q], job'[q], trace'[q], txns')
  BY DEF AllSettled, Settled, Waiting, Shipping, Fresh, Holds, Owns, Delivery, Answers, GotBack
<1>2. CASE q = s
  BY <1>2 DEF Moves
<1>3. CASE q # s
  <2>1. /\ Kept(trace[q], txns, txns') /\ Settled(pc[q], job[q], trace[q], txns)
        /\ pc'[q] = pc[q] /\ job'[q] = job[q] /\ trace'[q] = trace[q]
    BY <1>3 DEF AllSettled, Moves
  <2>2. Settled(pc[q], job[q], trace[q], txns')
    BY <2>1, SettledKept
  <2> QED
    BY <2>1, <2>2
<1> QED
  BY <1>2, <1>3

(* Who was charged by which row does not change when no spend row is added. *)
LEMMA ChargesKept ==
    ASSUME Distinct, Owned, \A s \in Sessions : trace'[s].spend = trace[s].spend,
           \A n \in 1..Len(txns') :
              txns'[n].kind = "spend" => n \in Rowids /\ txns[n].kind = "spend"
    PROVE  Distinct' /\ Owned'
<1>1. Distinct'
  BY DEF Distinct, HasPaid
<1>2. Owned'
  BY DEF Owned, Rowids
<1> QED
  BY <1>1, <1>2

(* The ways a step changes the ledger without adding a spend row. *)
LEMMA QuietSame ==
    ASSUME txns' = txns
    PROVE  \A n \in 1..Len(txns') :
              txns'[n].kind = "spend" => n \in Rowids /\ txns[n].kind = "spend"
  BY DEF Rowids

LEMMA QuietCredit ==
    ASSUME txns \in Seq(Rows), NEW u, NEW amount, NEW kind \in {"earn", "adjust"},
           Credit(u, amount, kind)
    PROVE  /\ \A t : Kept(t, txns, txns')
           /\ \A n \in 1..Len(txns') :
                txns'[n].kind = "spend" => n \in Rowids /\ txns[n].kind = "spend"
<1> DEFINE row == [acct |-> u, kind |-> kind, amount |-> amount,
                   product |-> None, delivery |-> "none"]
<1>1. txns' = Append(txns, row) /\ row.kind # "spend"
  BY DEF Credit
<1> HIDE DEF row
<1>2. \A t : Kept(t, txns, txns')
  BY <1>1, KeptAppend
<1>3. Len(txns) \in Nat /\ Len(txns') = Len(txns) + 1 /\ txns'[Len(txns) + 1] = row
  BY <1>1
<1>4. \A n \in 1..Len(txns) : txns'[n] = txns[n]
  BY <1>1
<1> QED
  BY <1>1, <1>2, <1>3, <1>4 DEF Rowids

LEMMA QuietSet ==
    ASSUME txns \in Seq(Rows), NEW n, NEW d \in DeliveryStatuses, SetDeliveryStatus(n, d)
    PROVE  /\ n \in 1..Len(txns) /\ Len(txns') = Len(txns)
           /\ txns'[n] = [txns[n] EXCEPT !.delivery = d]
           /\ \A m \in 1..Len(txns) : m # n => txns'[m] = txns[m]
           /\ \A t : t.spend # n => Kept(t, txns, txns')
           /\ \A m \in 1..Len(txns') :
                txns'[m].kind = "spend" => m \in Rowids /\ txns[m].kind = "spend"
<1> DEFINE row == [txns[n] EXCEPT !.delivery = d]
<1>1. n \in 1..Len(txns) /\ txns[n] \in Rows
  BY DEF SetDeliveryStatus, Rowids
<1>2. txns' = [txns EXCEPT ![n] = row] /\ row.kind = txns[n].kind
  BY <1>1 DEF SetDeliveryStatus, Rows
<1>3. \A t : t.spend # n => Kept(t, txns, txns')
  BY <1>1, <1>2, KeptSet
<1> HIDE DEF row
<1>4. Len(txns') = Len(txns) /\ \A m \in 1..Len(txns) : txns'[m] = IF m = n THEN row ELSE txns[m]
  BY <1>1, <1>2
<1>5. txns'[n] = [txns[n] EXCEPT !.delivery = d]
  BY <1>1, <1>4 DEF row
<1> QED
  BY <1>1, <1>2, <1>3, <1>4, <1>5 DEF Rowids

-----------------------------------------------------------------------------
(* The actions *)

SettleRest == AllSettled /\ Distinct /\ Owned

(* What the invariant says of one session. *)
LEMMA OwnSettled ==
    ASSUME SettleInv, NEW s \in Sessions
    PROVE  /\ LocalsOK /\ txns \in Seq(Rows) /\ AllSettled /\ Distinct /\ Owned
           /\ Settled(pc[s], job[s], trace[s], txns)
           /\ pc[s] \in Labels /\ job[s] \in Jobs /\ trace[s] \in Traces
  BY DEF SettleInv, ShopInv, StoreTypeOK, AllSettled, LocalsOK

(* A step that leaves the ledger and the charge of s alone. *)
LEMMA LedgerAlone ==
    ASSUME SettleInv, NEW s \in Sessions, NEW label, NEW j, NEW t,
           txns' = txns, Moves(s, label, j, t), t.spend = trace[s].spend,
           Settled(label, j, t, txns)
    PROVE  SettleRest'
<1>1. \A q \in Sessions : trace'[q].spend = trace[q].spend
  BY DEF Moves
<1>2. AllSettled'
  BY OwnSettled, KeptSame, OneMoves
<1>3. Distinct' /\ Owned'
  BY <1>1, OwnSettled, QuietSame, ChargesKept
<1> QED
  BY <1>2, <1>3 DEF SettleRest

(* s sets the delivery of its own row. *)
LEMMA OwnRowSet ==
    ASSUME SettleInv, NEW s \in Sessions, NEW label, NEW j, NEW t, NEW d \in DeliveryStatuses,
           SetDeliveryStatus(trace[s].spend, d), Moves(s, label, j, t),
           t.spend = trace[s].spend, Settled(label, j, t, txns')
    PROVE  SettleRest'
<1>1. \A q \in Sessions : trace'[q].spend = trace[q].spend
  BY DEF Moves
<1>2. trace[s].spend \in 1..Len(txns)
  BY OwnSettled, QuietSet
<1>3. \A q \in Sessions \ {s} : trace[q].spend # trace[s].spend
  BY <1>2, OwnSettled DEF Distinct, HasPaid
<1>4. \A q \in Sessions \ {s} : Kept(trace[q], txns, txns')
  BY <1>3, OwnSettled, QuietSet
<1>5. AllSettled'
  BY <1>4, OwnSettled, OneMoves
<1>6. Distinct' /\ Owned'
  BY <1>1, OwnSettled, QuietSet, ChargesKept
<1> QED
  BY <1>5, <1>6 DEF SettleRest

(* The record of s with another result, and its history with a failed call. *)
LEMMA ResultRecord ==
    ASSUME NEW j \in Jobs, NEW result
    PROVE  LET r == [j EXCEPT !.result = result] IN
           /\ r.result = result /\ r.user = j.user /\ r.product = j.product
           /\ r.price = j.price /\ r.lines = j.lines /\ r.line = j.line /\ r.txn = j.txn
  BY DEF Jobs

LEMMA HitTrace ==
    ASSUME NEW t \in Traces
    PROVE  LET h == [t EXCEPT !.hit = TRUE] IN
           /\ h.hit = TRUE /\ h.spend = t.spend /\ h.refunds = t.refunds /\ h.acked = t.acked
  BY DEF Traces

LEMMA RequestSettles ==
    ASSUME SettleInv, NEW s \in Sessions, NEW u, NEW p, Request(s, u, p)
    PROVE  SettleRest'
<1> DEFINE asked == [Blank EXCEPT !.user = u, !.product = p]
<1>1. pc[s] = "idle" /\ txns' = txns /\ UNCHANGED trace /\ Step(s, "link", asked)
  BY DEF Request, At, storeVars
<1>2. asked.line = 0
  BY DEF Blank
<1>3. Moves(s, "link", asked, trace[s])
  BY <1>1, OwnSettled, StepMoves
<1>4. Fresh(job[s], trace[s])
  BY <1>1, OwnSettled DEF Settled, Waiting
<1>5. Settled("link", asked, trace[s], txns)
  BY <1>2, <1>4 DEF Settled, Waiting, Shipping, Fresh
<1> QED
  BY <1>1, <1>3, <1>5, LedgerAlone

(* A return before any charge. *)
LEMMA UnpaidReturn ==
    ASSUME SettleInv, NEW s \in Sessions, NEW result, txns' = txns,
           trace[s].spend = 0, trace[s].refunds = {}, Return(s, result),
           \/ UNCHANGED trace /\ result \notin {"ok", "deliveryFailed", "error"}
           \/ Failed(s)
    PROVE  SettleRest'
<1> DEFINE j == [job[s] EXCEPT !.result = result]
           h == [trace[s] EXCEPT !.hit = TRUE]
<1>1. job[s] \in Jobs /\ trace[s] \in Traces /\ LocalsOK
  BY OwnSettled
<1>2. j.result = result
  BY <1>1, ResultRecord
<1>3. CASE UNCHANGED trace /\ result \notin {"ok", "deliveryFailed", "error"}
  <2>1. Moves(s, "end", j, trace[s])
    BY <1>1, <1>3, StepMoves DEF Return
  <2>2. Settled("end", j, trace[s], txns)
    BY <1>2, <1>3 DEF Settled, Waiting, Shipping, Answers
  <2> QED
    BY <2>1, <2>2, LedgerAlone
<1>4. CASE Failed(s)
  <2>1. h.hit = TRUE /\ h.spend = trace[s].spend /\ h.refunds = trace[s].refunds
    BY <1>1, HitTrace
  <2>2. Moves(s, "end", j, h)
    BY <1>1, <1>4, StepMoves DEF Return, Failed
  <2>3. Settled("end", j, h, txns)
    BY <2>1 DEF Settled, Waiting, Shipping, Answers
  <2> QED
    BY <2>1, <2>2, <2>3, LedgerAlone
<1> QED
  BY <1>3, <1>4

LEMMA LinkByDiscordSettles ==
    ASSUME SettleInv, NEW s \in Sessions, LinkByDiscord(s)
    PROVE  SettleRest'
<1> DEFINE game == link[job[s].user]
           moved == [job[s] EXCEPT !.game = game]
           next == IF IsItem(s) THEN "space" ELSE "purchase"
<1>1. pc[s] = "link" /\ txns' = txns
  BY DEF LinkByDiscord, At, storeVars
<1>2. Fresh(job[s], trace[s]) /\ job[s] \in Jobs /\ LocalsOK
  BY <1>1, OwnSettled DEF Settled, Waiting
<1>3. CASE Step(s, next, moved) /\ UNCHANGED trace
  <2>1. moved.line = job[s].line /\ moved.product = job[s].product
    BY <1>2 DEF Jobs
  <2>2. Moves(s, next, moved, trace[s])
    BY <1>2, <1>3, StepMoves
  <2>3. Settled(next, moved, trace[s], txns)
    BY <1>2, <2>1 DEF Settled, Waiting, Shipping, Fresh, IsItem
  <2> QED
    BY <1>1, <2>2, <2>3, LedgerAlone
<1>4. CASE \/ Return(s, "notLinked") /\ UNCHANGED trace
           \/ Failed(s) /\ Return(s, "error")
  BY <1>1, <1>2, <1>4, UnpaidReturn DEF Fresh
<1> QED
  BY <1>3, <1>4 DEF LinkByDiscord

(* Going on with the same locals, whether or not a call failed. *)
LEMMA GoOn ==
    ASSUME SettleInv, NEW s \in Sessions, NEW label, txns' = txns, Goto(s, label),
           UNCHANGED trace \/ Failed(s),
           \A t : t.spend = trace[s].spend /\ t.refunds = trace[s].refunds
                    /\ t.acked = trace[s].acked /\ (trace[s].hit => t.hit)
                    => Settled(label, job[s], t, txns)
    PROVE  SettleRest'
<1> DEFINE h == [trace[s] EXCEPT !.hit = TRUE]
<1>1. LocalsOK /\ trace[s] \in Traces
  BY OwnSettled
<1>2. CASE UNCHANGED trace
  <2>1. Moves(s, label, job[s], trace[s])
    BY <1>1, <1>2, StepMoves DEF Goto
  <2>2. Settled(label, job[s], trace[s], txns)
    OBVIOUS
  <2> QED
    BY <2>1, <2>2, LedgerAlone
<1>3. CASE Failed(s)
  <2>1. Moves(s, label, job[s], h)
    BY <1>1, <1>3, StepMoves DEF Goto, Failed
  <2>2. h.hit = TRUE /\ h.spend = trace[s].spend /\ h.refunds = trace[s].refunds
        /\ h.acked = trace[s].acked
    BY <1>1, HitTrace
  <2> HIDE DEF h
  <2>3. Settled(label, job[s], h, txns)
    BY <2>2
  <2> QED
    BY <2>1, <2>2, <2>3, LedgerAlone
<1> QED
  BY <1>2, <1>3

(* Giving up a charged purchase. *)
LEMMA AbortSettles ==
    ASSUME SettleInv, NEW s \in Sessions, NEW t, NEW result \in Refusals, txns' = txns,
           Abort(s, result), Note(s, t) \/ (t = trace[s] /\ UNCHANGED trace),
           t.spend = trace[s].spend, t.refunds = trace[s].refunds,
           Holds(job[s], trace[s], txns), Delivery(trace[s], txns) = "pending"
    PROVE  SettleRest'
<1> DEFINE j == [job[s] EXCEPT !.result = result]
<1>1. LocalsOK /\ job[s] \in Jobs
  BY OwnSettled
<1>2. j.result = result /\ j.user = job[s].user /\ j.price = job[s].price /\ j.txn = job[s].txn
  BY <1>1, ResultRecord
<1>3. Moves(s, "markFailed", j, t)
  BY <1>1, StepMoves DEF Abort
<1>4. Holds(j, t, txns) /\ Delivery(t, txns) = "pending"
  BY <1>2 DEF Holds, Owns, Delivery
<1>5. Settled("markFailed", j, t, txns)
  BY <1>2, <1>4 DEF Settled, Waiting, Shipping
<1> QED
  BY <1>3, <1>5, LedgerAlone

LEMMA EnsureSpaceSettles ==
    ASSUME SettleInv, NEW s \in Sessions, EnsureSpace(s)
    PROVE  SettleRest'
<1> DEFINE next == IF IsItem(s) THEN "purchase" ELSE "deliver"
<1>1. pc[s] = "space" /\ txns' = txns /\ UNCHANGED trace
  BY DEF EnsureSpace, At, storeVars
<1>2. CASE Goto(s, next)
  <2>1. ASSUME NEW t, t.spend = trace[s].spend, t.refunds = trace[s].refunds,
               t.acked = trace[s].acked
        PROVE  Settled(next, job[s], t, txns)
    <3>1. CASE IsItem(s)
      <4>1. Fresh(job[s], trace[s])
        BY <1>1, <3>1, OwnSettled DEF Settled, Waiting, IsItem
      <4> QED
        BY <2>1, <3>1, <4>1 DEF Settled, Waiting, Shipping, Fresh
    <3>2. CASE ~IsItem(s)
      <4>1. /\ Holds(job[s], trace[s], txns) /\ Delivery(trace[s], txns) = "pending"
            /\ trace[s].acked = job[s].line /\ job[s].line < job[s].lines
        BY <1>1, <3>2, OwnSettled DEF Settled, Shipping, IsItem
      <4> QED
        BY <2>1, <3>2, <4>1 DEF Settled, Waiting, Shipping, Holds, Owns, Delivery
    <3> QED
      BY <3>1, <3>2
  <2> QED
    BY <1>1, <1>2, <2>1, GoOn
<1>3. CASE IsItem(s) /\ Return(s, "noSpace")
  <2>1. Fresh(job[s], trace[s])
    BY <1>1, <1>3, OwnSettled DEF Settled, Waiting, IsItem
  <2> QED
    BY <1>1, <1>3, <2>1, UnpaidReturn DEF Fresh
<1>4. CASE ~IsItem(s) /\ Abort(s, "noSpace")
  <2>1. Holds(job[s], trace[s], txns) /\ Delivery(trace[s], txns) = "pending"
    BY <1>1, <1>4, OwnSettled DEF Settled, Shipping, IsItem
  <2> QED
    BY <1>1, <1>4, <2>1, AbortSettles DEF Refusals
<1> QED
  BY <1>2, <1>3, <1>4 DEF EnsureSpace

(* A new spend row, whose session is s. *)
LEMMA ChargeSettles ==
    ASSUME SettleInv, NEW s \in Sessions, pc[s] = "purchase", Charge(s),
           NEW label, NEW j, NEW t, Moves(s, label, j, t), t.spend = Len(txns'),
           Settled(label, j, t, txns')
    PROVE  SettleRest'
<1> DEFINE row == SpendRow(job[s].user, job[s].product)
<1>1. txns \in Seq(Rows) /\ txns' = Append(txns, row)
  BY OwnSettled DEF Charge, Purchase
<1>2. \A q \in Sessions \ {s} : Kept(trace[q], txns, txns')
  BY <1>1, KeptAppend
<1>3. AllSettled'
  BY <1>2, OwnSettled, OneMoves
<1> HIDE DEF row
<1>4. Len(txns) \in Nat /\ Len(txns') = Len(txns) + 1 /\ \A n \in 1..Len(txns) : txns'[n] = txns[n]
  BY <1>1
<1>5. ASSUME NEW q \in Sessions, q # s
      PROVE  trace'[q].spend = trace[q].spend /\ trace[q].spend \in 0..Len(txns)
  <2>1. Settled(pc[q], job[q], trace[q], txns) /\ pc[q] \in Labels
    BY OwnSettled
  <2>2. trace[q].spend = 0 \/ trace[q].spend \in 1..Len(txns)
    BY <2>1 DEF Settled, Waiting, Shipping, Fresh, Holds, Owns, Answers, Labels, Running
  <2> QED
    BY <1>4, <1>5, <2>2 DEF Moves
<1>6. trace'[s].spend = Len(txns) + 1 /\ trace[s].spend = 0
  BY <1>4, OwnSettled DEF Moves, Settled, Waiting, Fresh
<1>7. Distinct'
  <2>1. SUFFICES ASSUME NEW q \in Sessions, NEW r \in Sessions, q # r, trace'[q].spend # 0
                 PROVE  trace'[q].spend # trace'[r].spend
    BY DEF Distinct, HasPaid
  <2>2. CASE q = s \/ r = s
    BY <2>1, <2>2, <1>4, <1>5, <1>6
  <2>3. CASE q # s /\ r # s
    BY <2>1, <2>3, <1>5, OwnSettled DEF Distinct, HasPaid
  <2> QED
    BY <2>2, <2>3
<1>8. Owned'
  <2>1. SUFFICES ASSUME NEW n \in 1..Len(txns'), txns'[n].kind = "spend"
                 PROVE  \E q \in Sessions : trace'[q].spend = n
    BY DEF Owned, Rowids
  <2>2. CASE n = Len(txns) + 1
    BY <1>6, <2>2
  <2>3. CASE n \in 1..Len(txns)
    <3>1. PICK q \in Sessions : trace[q].spend = n
      BY <1>4, <2>1, <2>3, OwnSettled DEF Owned, Rowids
    <3>2. q # s
      BY <1>6, <2>3, <3>1
    <3> QED
      BY <1>5, <3>1, <3>2
  <2> QED
    BY <1>4, <2>2, <2>3
<1> QED
  BY <1>3, <1>7, <1>8 DEF SettleRest

(* The row that charges s. *)
LEMMA ChargeRow ==
    ASSUME SettleInv, NEW s \in Sessions, pc[s] = "purchase", Charge(s)
    PROVE  LET p == job[s].product  n == Len(txns') IN
           /\ n \in 1..Len(txns')
           /\ txns'[n].acct = job[s].user /\ txns'[n].kind = "spend"
           /\ txns'[n].amount = -shelf[p].price /\ txns'[n].delivery = "pending"
           /\ shelf[p].price \in Nat /\ shelf[p].lines \in Nat /\ shelf[p].lines > 0
           /\ Fresh(job[s], trace[s])
<1> DEFINE p == job[s].product
           row == SpendRow(job[s].user, p)
<1>1. txns \in Seq(Rows) /\ txns' = Append(txns, row) /\ PurchaseResult(job[s].user, p) = "ok"
  BY OwnSettled DEF Charge, Purchase
<1>2. /\ row.acct = job[s].user /\ row.kind = "spend"
      /\ row.amount = -shelf[p].price /\ row.delivery = "pending"
  BY DEF SpendRow
<1>3. p \in Products /\ shelf[p] \in Offers
  BY OwnSettled DEF SettleInv, ShopInv, JobsFine, JobFine, Running, StoreTypeOK
<1>4. shelf[p].lines # 0
  BY <1>1 DEF PurchaseResult
<1>5. shelf[p].price \in Nat /\ shelf[p].lines \in Nat
  BY <1>3 DEF Offers
<1>6. Fresh(job[s], trace[s])
  BY OwnSettled DEF Settled, Waiting
<1> HIDE DEF row
<1>7. Len(txns') = Len(txns) + 1 /\ Len(txns) \in Nat /\ txns'[Len(txns')] = row
  BY <1>1
<1> QED
  BY <1>2, <1>4, <1>5, <1>6, <1>7

LEMMA PurchaseCallSettles ==
    ASSUME SettleInv, NEW s \in Sessions, PurchaseCall(s)
    PROVE  SettleRest'
<1> DEFINE p == job[s].product
           n == Len(txns')
           next == IF IsItem(s) THEN "deliver" ELSE "space"
           paid == [job[s] EXCEPT !.price = shelf[p].price, !.lines = shelf[p].lines,
                                  !.txn = n]
           refused == [job[s] EXCEPT !.result = "error"]
<1>1. pc[s] = "purchase" /\ job[s] \in Jobs /\ trace[s] \in Traces /\ LocalsOK
  BY OwnSettled DEF PurchaseCall, At
<1>2. Fresh(job[s], trace[s])
  BY <1>1, OwnSettled DEF Settled, Waiting
<1>3. CASE Charged(s)
  <2> DEFINE t == [trace[s] EXCEPT !.spend = n]
  <2>1. Charge(s) /\ Step(s, next, paid) /\ Note(s, t)
    BY <1>3 DEF Charged
  <2>2. Moves(s, next, paid, t)
    BY <1>1, <2>1, StepMoves
  <2>3. /\ paid.user = job[s].user /\ paid.price = shelf[p].price /\ paid.txn = n
        /\ paid.lines = shelf[p].lines /\ paid.line = job[s].line /\ paid.product = p
    BY <1>1 DEF Jobs
  <2>4. t.spend = n /\ t.refunds = trace[s].refunds /\ t.acked = trace[s].acked
    BY <1>1 DEF Traces
  <2>5. /\ n \in 1..Len(txns') /\ txns'[n].acct = job[s].user /\ txns'[n].kind = "spend"
        /\ txns'[n].amount = -shelf[p].price /\ txns'[n].delivery = "pending"
        /\ shelf[p].lines > 0
    BY <1>1, <2>1, ChargeRow
  <2>6. Shipping(next, paid) /\ ~Waiting(next, paid)
    BY <2>3 DEF Shipping, Waiting, IsItem
  <2> HIDE DEF t, paid, n
  <2>7. Holds(paid, t, txns') /\ Delivery(t, txns') = "pending"
        /\ t.acked = paid.line /\ paid.line < paid.lines
    BY <1>2, <2>3, <2>4, <2>5 DEF Holds, Owns, Delivery, Fresh
  <2>8. Settled(next, paid, t, txns')
    BY <2>6, <2>7 DEF Settled
  <2> QED
    BY <1>1, <2>1, <2>2, <2>4, <2>8, ChargeSettles DEF n
<1>4. CASE ChargedUnknown(s)
  <2> DEFINE t == [trace[s] EXCEPT !.spend = n, !.hit = TRUE]
  <2>1. Charge(s) /\ Step(s, "end", refused) /\ Note(s, t)
    BY <1>4 DEF ChargedUnknown, Return
  <2>2. Moves(s, "end", refused, t)
    BY <1>1, <2>1, StepMoves
  <2>3. refused.user = job[s].user
    BY <1>1, ResultRecord
  <2>4. t.spend = n /\ t.refunds = trace[s].refunds /\ t.hit = TRUE
    BY <1>1 DEF Traces
  <2>5. /\ n \in 1..Len(txns') /\ txns'[n].acct = job[s].user /\ txns'[n].kind = "spend"
        /\ txns'[n].delivery = "pending"
    BY <1>1, <2>1, ChargeRow
  <2> HIDE DEF t, refused, n
  <2>6. Answers(refused, t, txns')
    BY <1>2, <2>3, <2>4, <2>5 DEF Answers, Owns, Delivery, Fresh
  <2>7. Settled("end", refused, t, txns')
    BY <2>6 DEF Settled, Waiting, Shipping
  <2> QED
    BY <1>1, <2>1, <2>2, <2>4, <2>7, ChargeSettles DEF n
<1>5. CASE NotCharged(s)
  <2>1. txns' = txns
    BY <1>5 DEF NotCharged, storeVars
  <2>2. \E result : /\ Return(s, result)
                    /\ \/ UNCHANGED trace /\ result \notin {"ok", "deliveryFailed", "error"}
                       \/ Failed(s)
    BY <1>5 DEF NotCharged, PurchaseResult
  <2> QED
    BY <1>2, <2>1, <2>2, UnpaidReturn DEF Fresh
<1> QED
  BY <1>3, <1>4, <1>5 DEF PurchaseCall

LEMMA DeliverSettles ==
    ASSUME SettleInv, NEW s \in Sessions, Deliver(s)
    PROVE  SettleRest'
<1> DEFINE next == IF job[s].line + 1 < job[s].lines THEN "deliver" ELSE "markDone"
           moved == [job[s] EXCEPT !.line = @ + 1]
           t(o) == [trace[s] EXCEPT !.acked = IF o.ok THEN @ + 1 ELSE @,
                                    !.granted = @ + o.grants]
<1>1. /\ pc[s] = "deliver" /\ txns' = txns
      /\ job[s] \in Jobs /\ trace[s] \in Traces /\ LocalsOK
  BY OwnSettled DEF Deliver, At, storeVars
<1>2. /\ Holds(job[s], trace[s], txns) /\ Delivery(trace[s], txns) = "pending"
      /\ trace[s].acked = job[s].line /\ job[s].line < job[s].lines
  BY <1>1, OwnSettled DEF Settled, Shipping
<1>3. PICK o \in Outcomes :
        /\ Note(s, t(o))
        /\ \/ o.ok /\ Step(s, next, moved)
           \/ ~o.ok /\ Abort(s, "deliveryFailed")
  BY DEF Deliver
<1>4. /\ t(o).spend = trace[s].spend /\ t(o).refunds = trace[s].refunds
      /\ t(o).acked = IF o.ok THEN trace[s].acked + 1 ELSE trace[s].acked
  BY <1>1 DEF Traces
<1>5. CASE o.ok /\ Step(s, next, moved)
  <2>1. Moves(s, next, moved, t(o))
    BY <1>1, <1>3, <1>5, StepMoves
  <2>2. /\ moved.line = job[s].line + 1 /\ moved.lines = job[s].lines /\ moved.txn = job[s].txn
        /\ moved.user = job[s].user /\ moved.price = job[s].price
        /\ job[s].line \in Nat /\ job[s].lines \in Nat
    BY <1>1 DEF Jobs
  <2> HIDE DEF t, moved
  <2>3. Holds(moved, t(o), txns) /\ Delivery(t(o), txns) = "pending" /\ t(o).acked = moved.line
    BY <1>2, <1>4, <1>5, <2>2 DEF Holds, Owns, Delivery
  <2>4. Settled(next, moved, t(o), txns)
    BY <1>2, <2>2, <2>3 DEF Settled, Waiting, Shipping
  <2> QED
    BY <1>1, <1>4, <2>1, <2>4, LedgerAlone
<1>6. CASE Abort(s, "deliveryFailed")
  <2> HIDE DEF t
  <2> QED
    BY <1>1, <1>2, <1>3, <1>4, <1>6, AbortSettles DEF Refusals
<1> QED
  BY <1>3, <1>5, <1>6

(* s settles its row and goes on; the row now says d. *)
LEMMA OwnRowSays ==
    ASSUME SettleInv, NEW s \in Sessions, NEW d \in DeliveryStatuses,
           Holds(job[s], trace[s], txns), SetDeliveryStatus(job[s].txn, d)
    PROVE  /\ Holds(job[s], trace[s], txns') /\ Delivery(trace[s], txns') = d
           /\ SetDeliveryStatus(trace[s].spend, d)
<1> DEFINE n == trace[s].spend
<1>1. n = job[s].txn /\ n \in 1..Len(txns) /\ txns \in Seq(Rows)
  BY OwnSettled DEF Holds, Owns
<1>2. txns'[n] = [txns[n] EXCEPT !.delivery = d] /\ Len(txns') = Len(txns)
  BY <1>1, QuietSet
<1>3. txns[n] \in Rows
  BY <1>1
<1>4. /\ txns'[n].acct = txns[n].acct /\ txns'[n].amount = txns[n].amount
      /\ txns'[n].kind = txns[n].kind /\ txns'[n].delivery = d
  BY <1>2, <1>3 DEF Rows
<1> QED
  BY <1>1, <1>2, <1>4 DEF Holds, Owns, Delivery

LEMMA MarkFailedSettles ==
    ASSUME SettleInv, NEW s \in Sessions, MarkFailed(s)
    PROVE  SettleRest'
<1> DEFINE h == [trace[s] EXCEPT !.hit = TRUE]
<1>1. /\ pc[s] = "markFailed" /\ Goto(s, "refund") /\ LocalsOK /\ trace[s] \in Traces
  BY OwnSettled DEF MarkFailed, At
<1>2. /\ Holds(job[s], trace[s], txns) /\ Delivery(trace[s], txns) = "pending"
      /\ job[s].result \in Refusals
  BY <1>1, OwnSettled DEF Settled
<1>3. CASE SetDeliveryStatus(job[s].txn, "failed") /\ UNCHANGED trace
  <2>1. Moves(s, "refund", job[s], trace[s])
    BY <1>1, <1>3, StepMoves DEF Goto
  <2>2. /\ Holds(job[s], trace[s], txns') /\ Delivery(trace[s], txns') = "failed"
        /\ SetDeliveryStatus(trace[s].spend, "failed")
    BY <1>2, <1>3, OwnRowSays DEF DeliveryStatuses
  <2>3. Settled("refund", job[s], trace[s], txns')
    BY <1>2, <2>2 DEF Settled, Waiting, Shipping
  <2> QED
    BY <2>1, <2>2, <2>3, OwnRowSet DEF DeliveryStatuses
<1>4. CASE Failed(s) /\ UNCHANGED storeVars
  <2>1. txns' = txns
    BY <1>4 DEF storeVars
  <2>2. Moves(s, "refund", job[s], h)
    BY <1>1, <1>4, StepMoves DEF Goto, Failed
  <2>3. h.hit = TRUE /\ h.spend = trace[s].spend /\ h.refunds = trace[s].refunds
    BY <1>1, HitTrace
  <2> HIDE DEF h
  <2>4. Settled("refund", job[s], h, txns)
    BY <1>2, <2>3 DEF Settled, Waiting, Shipping, Holds, Owns, Delivery
  <2> QED
    BY <2>1, <2>2, <2>3, <2>4, LedgerAlone
<1> QED
  BY <1>3, <1>4 DEF MarkFailed

LEMMA GiveRefundSettles ==
    ASSUME SettleInv, NEW s \in Sessions, GiveRefund(s)
    PROVE  SettleRest'
<1> DEFINE n == Len(txns')
           back == [trace[s] EXCEPT !.refunds = @ \cup {n}]
           h == [trace[s] EXCEPT !.hit = TRUE]
<1>1. /\ pc[s] = "refund" /\ Goto(s, "end") /\ LocalsOK /\ trace[s] \in Traces
      /\ txns \in Seq(Rows)
  BY OwnSettled DEF GiveRefund, At
<1>2. /\ Holds(job[s], trace[s], txns) /\ job[s].result \in Refusals
      /\ \/ Delivery(trace[s], txns) = "failed"
         \/ Delivery(trace[s], txns) = "pending" /\ trace[s].hit
  BY <1>1, OwnSettled DEF Settled
<1>3. CASE Refund(job[s].user, job[s].price) /\ Note(s, back)
  <2> DEFINE row == [acct |-> job[s].user, kind |-> "adjust", amount |-> job[s].price,
                     product |-> None, delivery |-> "none"]
  <2>1. txns' = Append(txns, row) /\ row.acct = job[s].user /\ row.amount = job[s].price
    BY <1>3 DEF Refund, Credit
  <2> HIDE DEF row
  <2>2. /\ Len(txns) \in Nat /\ n = Len(txns) + 1 /\ txns'[n] = row
        /\ \A m \in 1..Len(txns) : txns'[m] = txns[m]
    BY <1>1, <2>1
  <2>3. /\ \A t : Kept(t, txns, txns')
        /\ \A m \in 1..Len(txns') :
              txns'[m].kind = "spend" => m \in Rowids /\ txns[m].kind = "spend"
    BY <1>1, <1>3, QuietCredit DEF Refund
  <2>4. Moves(s, "end", job[s], back)
    BY <1>1, <1>3, StepMoves DEF Goto
  <2>5. /\ back.spend = trace[s].spend /\ back.hit = trace[s].hit
        /\ back.refunds = trace[s].refunds \cup {n}
    BY <1>1 DEF Traces
  <2> HIDE DEF back, n
  <2>6. back.refunds = {n} /\ trace[s].spend \in 1..Len(txns)
    BY <1>2, <2>5 DEF Holds, Owns
  <2>7. /\ txns'[back.spend] = txns[trace[s].spend] /\ back.spend \in 1..Len(txns')
        /\ n \in 1..Len(txns')
    BY <2>2, <2>5, <2>6 DEF n
  <2>8. txns[trace[s].spend].amount = -job[s].price /\ job[s].price \in Nat
        /\ txns[trace[s].spend].acct = job[s].user /\ txns[trace[s].spend].kind = "spend"
    BY <1>2, OwnSettled DEF Holds, Owns, Jobs
  <2>9. Owns(job[s], back, txns') /\ GotBack(back, txns')
        /\ Delivery(back, txns') = Delivery(trace[s], txns)
    BY <2>1, <2>2, <2>6, <2>7, <2>8 DEF Owns, GotBack, Delivery
  <2>10. Answers(job[s], back, txns')
    BY <1>2, <2>5, <2>9 DEF Answers
  <2>11. Settled("end", job[s], back, txns')
    BY <2>10 DEF Settled, Waiting, Shipping
  <2>12. AllSettled'
    BY <2>3, <2>4, <2>11, OwnSettled, OneMoves
  <2>13. Distinct' /\ Owned'
    BY <2>3, <2>4, <2>5, OwnSettled, ChargesKept DEF Moves
  <2> QED
    BY <2>12, <2>13 DEF SettleRest
<1>4. CASE Note(s, h) /\ UNCHANGED storeVars
  <2>1. txns' = txns
    BY <1>4 DEF storeVars
  <2>2. Moves(s, "end", job[s], h)
    BY <1>1, <1>4, StepMoves DEF Goto
  <2>3. h.hit = TRUE /\ h.spend = trace[s].spend /\ h.refunds = trace[s].refunds
    BY <1>1, HitTrace
  <2> HIDE DEF h
  <2>4. Settled("end", job[s], h, txns)
    BY <1>2, <2>3 DEF Settled, Waiting, Shipping, Answers, Holds, Owns, Delivery
  <2> QED
    BY <2>1, <2>2, <2>3, <2>4, LedgerAlone
<1> QED
  BY <1>3, <1>4 DEF GiveRefund, Failed

LEMMA MarkDoneSettles ==
    ASSUME SettleInv, NEW s \in Sessions, MarkDone(s)
    PROVE  SettleRest'
<1> DEFINE h == [trace[s] EXCEPT !.hit = TRUE]
           j == [job[s] EXCEPT !.result = "error"]
<1>1. /\ pc[s] = "markDone" /\ LocalsOK /\ trace[s] \in Traces /\ job[s] \in Jobs
  BY OwnSettled DEF MarkDone, At
<1>2. /\ Holds(job[s], trace[s], txns) /\ Delivery(trace[s], txns) = "pending"
      /\ trace[s].acked = job[s].lines
  BY <1>1, OwnSettled DEF Settled
<1>3. h.hit = TRUE /\ h.spend = trace[s].spend /\ h.refunds = trace[s].refunds
      /\ h.acked = trace[s].acked
  BY <1>1, HitTrace
<1>4. j.user = job[s].user /\ j.lines = job[s].lines
  BY <1>1, ResultRecord
<1>5. ASSUME SetDeliveryStatus(job[s].txn, "done")
      PROVE  /\ Holds(job[s], trace[s], txns') /\ Delivery(trace[s], txns') = "done"
             /\ SetDeliveryStatus(trace[s].spend, "done")
  BY <1>2, <1>5, OwnRowSays DEF DeliveryStatuses
<1>6. CASE SetDeliveryStatus(job[s].txn, "done") /\ Goto(s, "balance") /\ UNCHANGED trace
  <2>1. Moves(s, "balance", job[s], trace[s])
    BY <1>1, <1>6, StepMoves DEF Goto
  <2>2. Settled("balance", job[s], trace[s], txns')
    BY <1>2, <1>5, <1>6 DEF Settled, Waiting, Shipping
  <2> QED
    BY <1>5, <1>6, <2>1, <2>2, OwnRowSet DEF DeliveryStatuses
<1>7. ASSUME Failed(s), Return(s, "error")
      PROVE  Moves(s, "end", j, h)
  BY <1>1, <1>7, StepMoves DEF Return, Failed
<1> HIDE DEF h, j
<1>8. CASE SetDeliveryStatus(job[s].txn, "done") /\ Failed(s) /\ Return(s, "error")
  <2>1. Owns(j, h, txns') /\ Delivery(h, txns') = "done"
    BY <1>3, <1>4, <1>5, <1>8 DEF Holds, Owns, Delivery
  <2>2. Settled("end", j, h, txns')
    BY <1>2, <1>3, <1>4, <2>1 DEF Settled, Waiting, Shipping, Answers, Holds
  <2> QED
    BY <1>3, <1>5, <1>7, <1>8, <2>2, OwnRowSet DEF DeliveryStatuses
<1>9. CASE UNCHANGED storeVars /\ Failed(s) /\ Return(s, "error")
  <2>1. txns' = txns
    BY <1>9 DEF storeVars
  <2>2. Settled("end", j, h, txns)
    BY <1>2, <1>3, <1>4 DEF Settled, Waiting, Shipping, Answers, Holds, Owns, Delivery
  <2> QED
    BY <1>3, <1>7, <1>9, <2>1, <2>2, LedgerAlone
<1> QED
  BY <1>6, <1>8, <1>9 DEF MarkDone

LEMMA ReadBalanceSettles ==
    ASSUME SettleInv, NEW s \in Sessions, ReadBalance(s)
    PROVE  SettleRest'
<1> DEFINE j == [job[s] EXCEPT !.result = "ok"]
<1>1. /\ pc[s] = "balance" /\ Return(s, "ok") /\ UNCHANGED trace /\ txns' = txns
      /\ LocalsOK /\ job[s] \in Jobs
  BY OwnSettled DEF ReadBalance, At, storeVars
<1>2. /\ Holds(job[s], trace[s], txns) /\ Delivery(trace[s], txns) = "done"
      /\ trace[s].acked = job[s].lines
  BY <1>1, OwnSettled DEF Settled
<1>3. Moves(s, "end", j, trace[s])
  BY <1>1, StepMoves DEF Return
<1>4. j.user = job[s].user /\ j.lines = job[s].lines /\ j.result = "ok"
  BY <1>1, ResultRecord
<1> HIDE DEF j
<1>5. Settled("end", j, trace[s], txns)
  BY <1>2, <1>4 DEF Settled, Waiting, Shipping, Answers, Holds, Owns
<1> QED
  BY <1>1, <1>3, <1>5, LedgerAlone

(* No session moves, and no spend row is added. *)
LEMMA OthersSettle ==
    ASSUME SettleInv, UNCHANGED <<job, trace>>,
           \A t : Kept(t, txns, txns'),
           \A n \in 1..Len(txns') :
              txns'[n].kind = "spend" => n \in Rowids /\ txns[n].kind = "spend",
           \A s \in Sessions : pc'[s] = pc[s] \/ (pc[s] \in Running /\ pc'[s] = "lost")
    PROVE  SettleRest'
<1>1. ASSUME NEW s \in Sessions PROVE Settled(pc'[s], job[s], trace[s], txns')
  <2>1. Settled(pc[s], job[s], trace[s], txns')
    BY OwnSettled, SettledKept
  <2> QED
    BY <2>1, SettledLost
<1>2. AllSettled'
  <2>1. SUFFICES ASSUME NEW s \in Sessions
                 PROVE  Settled(pc'[s], job'[s], trace'[s], txns')
    BY DEF AllSettled, Settled, Waiting, Shipping, Fresh, Holds, Owns, Delivery, Answers, GotBack
  <2> QED
    BY <1>1
<1>3. \A s \in Sessions : trace'[s].spend = trace[s].spend
  OBVIOUS
<1>4. Distinct' /\ Owned'
  BY <1>3, ChargesKept DEF SettleInv
<1> QED
  BY <1>2, <1>4 DEF SettleRest

LEMMA SettleStep ==
    ASSUME SettleInv, [Next]_vars
    PROVE  SettleInv'
<1>1. ShopInv'
  BY ShopStep DEF SettleInv
<1>2. txns \in Seq(Rows)
  BY DEF SettleInv, ShopInv, StoreTypeOK
<1>3. CASE \E s \in Sessions, u \in Users, p \in Products : Request(s, u, p)
  BY <1>1, <1>3, RequestSettles DEF SettleInv, SettleRest
<1>4. CASE \E s \in Sessions : SessionStep(s) \/ Deliver(s)
  <2>1. PICK s \in Sessions : SessionStep(s) \/ Deliver(s)
    BY <1>4
  <2>2. SettleRest'
    BY <2>1, LinkByDiscordSettles, EnsureSpaceSettles, PurchaseCallSettles, DeliverSettles,
       MarkFailedSettles, GiveRefundSettles, MarkDoneSettles, ReadBalanceSettles
    DEF SessionStep
  <2> QED
    BY <1>1, <2>2 DEF SettleInv, SettleRest
<1>5. ASSUME UNCHANGED <<job, trace, txns>>,
             \A s \in Sessions : pc'[s] = pc[s] \/ (pc[s] \in Running /\ pc'[s] = "lost")
      PROVE  SettleInv'
  <2>1. SettleRest'
    BY <1>2, <1>5, KeptSame, QuietSame, OthersSettle
  <2> QED
    BY <1>1, <2>1 DEF SettleInv, SettleRest
<1>6. CASE \E g \in GameAccounts : PlayerMoves(g)
  BY <1>5, <1>6 DEF PlayerMoves, storeVars
<1>7. CASE \E u \in Users, amount \in Amounts, kind \in {"earn", "adjust"} : TopUp(u, amount, kind)
  <2>1. PICK u \in Users, amount \in Amounts, kind \in {"earn", "adjust"} : TopUp(u, amount, kind)
    BY <1>7
  <2>2. Credit(u, amount, kind) /\ UNCHANGED <<pc, job, trace>>
    BY <2>1 DEF TopUp
  <2>3. SettleRest'
    BY <1>2, <2>2, QuietCredit, OthersSettle
  <2> QED
    BY <1>1, <2>3 DEF SettleInv, SettleRest
<1>8. CASE Crash
  <2>1. UNCHANGED <<job, trace, txns>>
    BY <1>8 DEF Crash, storeVars
  <2>2. \A s \in Sessions : pc'[s] = pc[s] \/ (pc[s] \in Running /\ pc'[s] = "lost")
    BY <1>8 DEF Crash
  <2> QED
    BY <1>5, <2>1, <2>2
<1>9. CASE Restart \/ Exhaust \/ Relieve
  BY <1>5, <1>9 DEF Restart, Exhaust, Relieve, storeVars
<1>10. CASE Background
  <2>1. UNCHANGED <<pc, job, trace>>
    BY <1>10 DEF Background, shopVars
  <2>2. txns' = txns
    BY <1>10 DEF Background, Link, LinkAccount, EditItem, UpsertItem, EditKit, AddKit, GrowKit, CreateKit,
                 AddKitItem, PutOnShelf, Toggle, SetEnabled
  <2> QED
    BY <1>5, <2>1, <2>2
<1>11. CASE UNCHANGED vars
  BY <1>5, <1>11 DEF vars, storeVars, shopVars
<1> QED
  BY <1>3, <1>4, <1>6, <1>7, <1>8, <1>9, <1>10, <1>11 DEF Next

LEMMA SettleInit == Init => SettleInv
<1> SUFFICES ASSUME Init PROVE SettleInv
  OBVIOUS
<1>1. \A s \in Sessions : pc[s] = "idle" /\ job[s] = Blank /\ trace[s] = NoTrace
  BY DEF Init, ShopInit
<1>2. AllSettled
  BY <1>1 DEF AllSettled, Settled, Waiting, Shipping, Fresh, Blank, NoTrace
<1>3. Distinct
  BY <1>1 DEF Distinct, HasPaid, NoTrace
<1>4. Owned
  BY DEF Init, StoreInit, Owned, Rowids
<1> QED
  BY <1>2, <1>3, <1>4, ShopInvInit DEF SettleInv

-----------------------------------------------------------------------------
(* A refund is given at most once per charge, for exactly the amount of the
   spend row and to its account, and never for a delivered purchase, whatever is
   repriced, relinked, fails or stops meanwhile. *)
THEOREM RefundCorrect == Spec => []RefundSound
<1>1. SettleInv => RefundSound
  <2>1. SUFFICES ASSUME SettleInv, NEW s \in Sessions
                 PROVE  /\ Cardinality(trace[s].refunds) <= 1
                        /\ \A n \in trace[s].refunds :
                            /\ HasPaid(s)
                            /\ Spend(s).delivery # "done"
                            /\ txns[n].acct = Spend(s).acct
                            /\ txns[n].amount = -Spend(s).amount
    BY DEF RefundSound
  <2>2. \/ trace[s].refunds = {}
        \/ /\ Owns(job[s], trace[s], txns) /\ GotBack(trace[s], txns)
           /\ Delivery(trace[s], txns) # "done"
    BY <2>1, OwnSettled DEF Settled, Labels, Running, Waiting, Shipping, Fresh, Holds, Answers
  <2>3. CASE trace[s].refunds = {}
    BY <2>3, FS_EmptySet
  <2>4. CASE /\ Owns(job[s], trace[s], txns) /\ GotBack(trace[s], txns)
             /\ Delivery(trace[s], txns) # "done"
    <3>1. PICK n \in 1..Len(txns) : /\ trace[s].refunds = {n}
                                    /\ txns[n].acct = Spend(s).acct
                                    /\ txns[n].amount = -Spend(s).amount
      BY <2>4 DEF GotBack, Spend
    <3>2. Cardinality({n}) = 1
      BY FS_Singleton
    <3> QED
      BY <2>4, <3>1, <3>2 DEF Owns, HasPaid, Spend, Delivery
  <2> QED
    BY <2>2, <2>3, <2>4
<1> QED
  BY SettleInit, SettleStep, <1>1, PTL DEF Spec

(* A row is marked done only when the engine confirmed every line that was
   sold, and is never refunded. *)
THEOREM DoneCorrect == Spec => []DoneMeansDelivered
<1>1. SettleInv => DoneMeansDelivered
  <2>1. SUFFICES ASSUME SettleInv, NEW s \in Sessions, HasPaid(s), Spend(s).delivery = "done"
                 PROVE  trace[s].acked = job[s].lines /\ trace[s].refunds = {}
    BY DEF DoneMeansDelivered
  <2> QED
    BY <2>1, OwnSettled DEF Settled, Labels, Running, Waiting, Shipping, Fresh, Holds,
       Answers, HasPaid, Spend, Delivery
<1> QED
  BY SettleInit, SettleStep, <1>1, PTL DEF Spec

(* Every spend row has exactly one session, and outlives it as pending only if
   the process stopped or a call failed. *)
THEOREM PendingCorrect == Spec => []PendingHasOwner
<1>1. SettleInv => PendingHasOwner
  <2>1. SUFFICES ASSUME SettleInv, NEW n \in Rowids, txns[n].kind = "spend"
                 PROVE  \E s \in Sessions :
                          /\ trace[s].spend = n
                          /\ \A t \in Sessions \ {s} : trace[t].spend # n
                          /\ txns[n].delivery = "pending" =>
                                pc[s] \in Running \cup {"lost"} \/ trace[s].hit
    BY DEF PendingHasOwner
  <2>2. PICK s \in Sessions : trace[s].spend = n
    BY <2>1 DEF SettleInv, Owned
  <2>3. n # 0 /\ HasPaid(s)
    BY <2>2 DEF Rowids, HasPaid
  <2>4. \A t \in Sessions \ {s} : trace[t].spend # n
    BY <2>1, <2>2, <2>3, OwnSettled DEF Distinct
  <2>5. txns[n].delivery = "pending" => pc[s] \in Running \cup {"lost"} \/ trace[s].hit
    BY <2>1, <2>2, <2>3, OwnSettled DEF Settled, Labels, Waiting, Fresh, Answers, Delivery
  <2> QED
    BY <2>2, <2>4, <2>5
<1> QED
  BY SettleInit, SettleStep, <1>1, PTL DEF Spec

(* A session that met no failing store call is settled, and its answer does not
   say otherwise: the generic error is all a full backpack is told, and is told
   of nothing else. *)
THEOREM SettledCorrect == Spec => []SettledExactly
<1>1. SettleInv => SettledExactly
  <2>1. SUFFICES ASSUME SettleInv, NEW s \in Sessions, pc[s] = "end", ~trace[s].hit
                 PROVE  /\ \/ ~HasPaid(s) /\ Answer(s) \notin {"ok", "deliveryFailed"}
                           \/ /\ HasPaid(s) /\ Answer(s) = "ok"
                              /\ Spend(s).delivery = "done" /\ trace[s].refunds = {}
                           \/ /\ HasPaid(s) /\ Answer(s) \in {"deliveryFailed", "error"}
                              /\ Spend(s).delivery = "failed" /\ trace[s].refunds # {}
                        /\ Answer(s) = "error" => job[s].result = "noSpace"
    BY DEF SettledExactly
  <2>2. Answers(job[s], trace[s], txns)
    BY <2>1, OwnSettled DEF Settled
  <2>3. Owns(job[s], trace[s], txns) => HasPaid(s)
    BY DEF Owns, HasPaid
  <2>4. Delivery(trace[s], txns) = Spend(s).delivery
    BY DEF Delivery, Spend
  <2>5. GotBack(trace[s], txns) => trace[s].refunds # {}
    BY DEF GotBack
  <2>6. \/ ~HasPaid(s) /\ job[s].result \notin {"ok", "deliveryFailed", "error"}
        \/ /\ HasPaid(s) /\ job[s].result = "ok"
           /\ Spend(s).delivery = "done" /\ trace[s].refunds = {}
        \/ /\ HasPaid(s) /\ job[s].result \in {"noSpace", "deliveryFailed"}
           /\ Spend(s).delivery = "failed" /\ trace[s].refunds # {}
    BY <2>1, <2>2, <2>3, <2>4, <2>5, Zenon DEF Answers, HasPaid, Refusals
  <2>7. \/ job[s].result = "noSpace" /\ Answer(s) = "error"
        \/ job[s].result = "notFound" /\ Answer(s) = "unavailable"
        \/ job[s].result \notin {"noSpace", "notFound"} /\ Answer(s) = job[s].result
    BY Zenon DEF Answer
  <2> QED
    BY <2>6, <2>7
<1> QED
  BY SettleInit, SettleStep, <1>1, PTL DEF Spec

(* The three things a step does to the ledger: nothing, a new row, or the
   delivery of a row that is pending. *)
LEMMA LedgerMoves ==
    ASSUME SettleInv, [Next]_vars
    PROVE  \/ txns' = txns
           \/ \E row : txns' = Append(txns, row)
           \/ \E s \in Sessions, d \in {"done", "failed"} :
                /\ SetDeliveryStatus(trace[s].spend, d)
                /\ Delivery(trace[s], txns) = "pending"
<1>1. CASE \E s \in Sessions : SessionStep(s) \/ Deliver(s)
  <2>1. PICK s \in Sessions : SessionStep(s) \/ Deliver(s)
    BY <1>1
  <2>2. CASE MarkFailed(s)
    <3>1. Holds(job[s], trace[s], txns) /\ Delivery(trace[s], txns) = "pending"
      BY <2>2, OwnSettled DEF MarkFailed, At, Settled
    <3> QED
      BY <2>2, <3>1 DEF MarkFailed, Holds, storeVars
  <2>3. CASE MarkDone(s)
    <3>1. Holds(job[s], trace[s], txns) /\ Delivery(trace[s], txns) = "pending"
      BY <2>3, OwnSettled DEF MarkDone, At, Settled
    <3> QED
      BY <2>3, <3>1 DEF MarkDone, Holds, storeVars
  <2>4. CASE PurchaseCall(s) \/ GiveRefund(s)
    BY <2>4 DEF PurchaseCall, Charged, ChargedUnknown, NotCharged, Charge, Purchase,
                GiveRefund, Refund, Credit, storeVars
  <2>5. CASE LinkByDiscord(s) \/ EnsureSpace(s) \/ ReadBalance(s) \/ Deliver(s)
    BY <2>5 DEF LinkByDiscord, EnsureSpace, ReadBalance, Deliver, storeVars
  <2> QED
    BY <2>1, <2>2, <2>3, <2>4, <2>5 DEF SessionStep
<1>2. CASE \E s \in Sessions, u \in Users, p \in Products : Request(s, u, p)
  BY <1>2 DEF Request, storeVars
<1>3. CASE \E g \in GameAccounts : PlayerMoves(g)
  BY <1>3 DEF PlayerMoves, storeVars
<1>4. CASE \E u \in Users, amount \in Amounts, kind \in {"earn", "adjust"} : TopUp(u, amount, kind)
  BY <1>4 DEF TopUp, Credit
<1>5. CASE Crash \/ Restart \/ Exhaust \/ Relieve \/ UNCHANGED vars
  BY <1>5 DEF Crash, Restart, Exhaust, Relieve, vars, storeVars
<1>6. CASE Background
  BY <1>6 DEF Background, Link, LinkAccount, EditItem, UpsertItem, EditKit, AddKit, GrowKit, CreateKit,
              AddKitItem, PutOnShelf, Toggle, SetEnabled
<1> QED
  BY <1>1, <1>2, <1>3, <1>4, <1>5, <1>6 DEF Next

(* A ledger row is never removed, and rewritten only to settle a delivery that
   is pending: though the UPDATE does not ask, its callers never settle twice. *)
THEOREM FinalCorrect == Spec => SettlementIsFinal
<1> DEFINE Settles(n) == /\ txns[n].delivery = "pending"
                         /\ \E d \in {"done", "failed"} :
                                txns'[n] = [txns[n] EXCEPT !.delivery = d]
           Final == /\ Len(txns') >= Len(txns)
                    /\ \A n \in Rowids : txns'[n] = txns[n] \/ Settles(n)
<1>1. SettleInv /\ [Next]_vars => Final
  <2> SUFFICES ASSUME SettleInv, [Next]_vars PROVE Final
    OBVIOUS
  <2>1. txns \in Seq(Rows) /\ Len(txns) \in Nat
    BY DEF SettleInv, ShopInv, StoreTypeOK
  <2>2. CASE txns' = txns
    BY <2>1, <2>2
  <2>3. CASE \E row : txns' = Append(txns, row)
    BY <2>1, <2>3 DEF Rowids
  <2>4. CASE \E s \in Sessions, d \in {"done", "failed"} :
                /\ SetDeliveryStatus(trace[s].spend, d)
                /\ Delivery(trace[s], txns) = "pending"
    <3>1. PICK s \in Sessions, d \in {"done", "failed"} :
                /\ SetDeliveryStatus(trace[s].spend, d)
                /\ Delivery(trace[s], txns) = "pending"
      BY <2>4
    <3> DEFINE n == trace[s].spend
    <3> d \in DeliveryStatuses /\ SetDeliveryStatus(n, d)
      BY <3>1 DEF DeliveryStatuses
    <3> HIDE DEF n
    <3>2. /\ Len(txns') = Len(txns)
          /\ txns'[n] = [txns[n] EXCEPT !.delivery = d]
          /\ \A m \in 1..Len(txns) : m # n => txns'[m] = txns[m]
      BY <2>1, QuietSet
    <3>3. Settles(n)
      BY <3>1, <3>2 DEF Delivery, n
    <3> QED
      BY <2>1, <3>2, <3>3 DEF Rowids
  <2> QED
    BY <2>2, <2>3, <2>4, LedgerMoves
<1>2. SettleInv /\ [Next]_vars =>
        [/\ Len(txns') >= Len(txns)
         /\ \A n \in Rowids :
            \/ txns'[n] = txns[n]
            \/ /\ txns[n].delivery = "pending"
               /\ \E d \in {"done", "failed"} :
                    txns'[n] = [txns[n] EXCEPT !.delivery = d]]_vars
  BY <1>1
<1> QED
  BY SettleInit, SettleStep, <1>2, PTL DEF Spec, SettlementIsFinal

-----------------------------------------------------------------------------
(* Nothing reaches the game before the deliveries start, and a backpack is found
   too full only before that. *)
Clean(label, j, t) ==
    /\ label \in {"idle", "link", "space", "purchase"} => t.granted = 0
    /\ label \in {"link", "space", "purchase", "deliver"} => j.result = "none"
    /\ j.result = "noSpace" => t.granted = 0

CleanInv == \A s \in Sessions : Clean(pc[s], job[s], trace[s])

LEMMA CleanMoves ==
    ASSUME CleanInv, NEW s \in Sessions, NEW label, NEW j, NEW t,
           Moves(s, label, j, t), Clean(label, j, t)
    PROVE  CleanInv'
<1>1. SUFFICES ASSUME NEW q \in Sessions PROVE Clean(pc'[q], job'[q], trace'[q])
  BY DEF CleanInv, Clean
<1>2. CASE q = s
  BY <1>2 DEF Moves
<1>3. CASE q # s
  BY <1>3 DEF Moves, CleanInv
<1> QED
  BY <1>2, <1>3

LEMMA HitGranted ==
    ASSUME NEW t \in Traces
    PROVE  [t EXCEPT !.hit = TRUE].granted = t.granted
  BY DEF Traces

(* The results of the flow other than noSpace, returned while the history of s
   grows by at most a failed call. *)
LEMMA CleanReturn ==
    ASSUME SettleInv, CleanInv, NEW s \in Sessions, NEW result, Return(s, result),
           UNCHANGED trace \/ Failed(s),
           result # "noSpace" \/ trace[s].granted = 0
    PROVE  CleanInv'
<1> DEFINE j == [job[s] EXCEPT !.result = result]
           h == [trace[s] EXCEPT !.hit = TRUE]
<1>1. j.result = result /\ h.granted = trace[s].granted
  BY OwnSettled, ResultRecord, HitGranted
<1>2. Moves(s, "end", j, trace[s]) \/ Moves(s, "end", j, h)
  BY OwnSettled, StepMoves DEF Return, Failed
<1> HIDE DEF j, h
<1>3. Clean("end", j, trace[s]) /\ Clean("end", j, h)
  BY <1>1 DEF Clean
<1> QED
  BY <1>2, <1>3, CleanMoves

(* A call that succeeds, or whose error is dropped. *)
LEMMA CleanGoto ==
    ASSUME SettleInv, CleanInv, NEW s \in Sessions, NEW label, Goto(s, label),
           UNCHANGED trace \/ Note(s, [trace[s] EXCEPT !.hit = TRUE]),
           Clean(label, job[s], trace[s])
    PROVE  CleanInv'
<1> DEFINE h == [trace[s] EXCEPT !.hit = TRUE]
<1>1. h.granted = trace[s].granted
  BY OwnSettled, HitGranted
<1>2. Moves(s, label, job[s], trace[s]) \/ Moves(s, label, job[s], h)
  BY OwnSettled, StepMoves DEF Goto
<1> HIDE DEF h
<1>3. Clean(label, job[s], h)
  BY <1>1 DEF Clean
<1> QED
  BY <1>2, <1>3, CleanMoves

LEMMA CleanAbort ==
    ASSUME SettleInv, CleanInv, NEW s \in Sessions, NEW result, NEW t, Abort(s, result),
           Note(s, t) \/ (t = trace[s] /\ UNCHANGED trace),
           result # "noSpace" \/ t.granted = 0
    PROVE  CleanInv'
<1> DEFINE j == [job[s] EXCEPT !.result = result]
<1>1. j.result = result
  BY OwnSettled, ResultRecord
<1>2. Moves(s, "markFailed", j, t)
  BY OwnSettled, StepMoves DEF Abort
<1> HIDE DEF j
<1>3. Clean("markFailed", j, t)
  BY <1>1 DEF Clean
<1> QED
  BY <1>2, <1>3, CleanMoves

LEMMA CleanSession ==
    ASSUME SettleInv, CleanInv, NEW s \in Sessions, SessionStep(s) \/ Deliver(s)
    PROVE  CleanInv'
<1>1. Clean(pc[s], job[s], trace[s])
  BY DEF CleanInv
<1>2. CASE LinkByDiscord(s)
  <2> DEFINE found == [job[s] EXCEPT !.game = link[job[s].user]]
             next == IF IsItem(s) THEN "space" ELSE "purchase"
  <2>1. CASE Step(s, next, found) /\ UNCHANGED trace
    <3>1. Moves(s, next, found, trace[s])
      BY <2>1, OwnSettled, StepMoves
    <3>2. found.result = job[s].result
      BY OwnSettled DEF Jobs
    <3> HIDE DEF found
    <3>3. Clean(next, found, trace[s])
      BY <1>1, <1>2, <3>2 DEF Clean, LinkByDiscord, At
    <3> QED
      BY <3>1, <3>3, CleanMoves
  <2> QED
    BY <1>2, <2>1, CleanReturn DEF LinkByDiscord
<1>3. CASE EnsureSpace(s)
  <2>1. trace[s].granted = 0 /\ job[s].result = "none"
    BY <1>1, <1>3 DEF Clean, EnsureSpace, At
  <2>2. Clean("purchase", job[s], trace[s]) /\ Clean("deliver", job[s], trace[s])
    BY <2>1 DEF Clean
  <2> QED
    BY <1>3, <2>1, <2>2, CleanGoto, CleanReturn, CleanAbort DEF EnsureSpace, Failed
<1>4. CASE PurchaseCall(s)
  <2>1. trace[s].granted = 0 /\ job[s].result = "none"
    BY <1>1, <1>4 DEF Clean, PurchaseCall, At
  <2>2. CASE Charged(s)
    <3> DEFINE n == Len(txns')
               p == job[s].product
               paid == [job[s] EXCEPT !.price = shelf[p].price, !.lines = shelf[p].lines,
                                      !.txn = n]
               t == [trace[s] EXCEPT !.spend = n]
               next == IF IsItem(s) THEN "deliver" ELSE "space"
    <3>1. Moves(s, next, paid, t)
      BY <2>2, OwnSettled, StepMoves DEF Charged
    <3>2. paid.result = job[s].result /\ t.granted = trace[s].granted
      BY OwnSettled DEF Jobs, Traces
    <3> HIDE DEF paid, t
    <3>3. Clean(next, paid, t)
      BY <2>1, <3>2 DEF Clean
    <3> QED
      BY <3>1, <3>3, CleanMoves
  <2>3. CASE ChargedUnknown(s)
    <3> DEFINE n == Len(txns')
               refused == [job[s] EXCEPT !.result = "error"]
               t == [trace[s] EXCEPT !.spend = n, !.hit = TRUE]
    <3>1. Moves(s, "end", refused, t)
      BY <2>3, OwnSettled, StepMoves DEF ChargedUnknown, Return
    <3>2. t.granted = trace[s].granted
      BY OwnSettled DEF Traces
    <3> HIDE DEF refused, t
    <3>3. Clean("end", refused, t)
      BY <2>1, <3>2 DEF Clean
    <3> QED
      BY <3>1, <3>3, CleanMoves
  <2>4. CASE NotCharged(s)
    BY <2>1, <2>4, CleanReturn DEF NotCharged
  <2> QED
    BY <1>4, <2>2, <2>3, <2>4 DEF PurchaseCall
<1>5. CASE Deliver(s)
  <2> DEFINE next == IF job[s].line + 1 < job[s].lines THEN "deliver" ELSE "markDone"
             moved == [job[s] EXCEPT !.line = @ + 1]
             t(o) == [trace[s] EXCEPT !.acked = IF o.ok THEN @ + 1 ELSE @,
                                      !.granted = @ + o.grants]
  <2>1. PICK o \in Outcomes :
            /\ Note(s, t(o))
            /\ Step(s, next, moved) \/ Abort(s, "deliveryFailed")
    BY <1>5 DEF Deliver
  <2>2. CASE Step(s, next, moved)
    <3>1. Moves(s, next, moved, t(o))
      BY <2>1, <2>2, OwnSettled, StepMoves
    <3>2. moved.result = job[s].result /\ job[s].result = "none"
      BY <1>1, <1>5, OwnSettled DEF Jobs, Clean, Deliver, At
    <3> HIDE DEF moved, t
    <3>3. Clean(next, moved, t(o))
      BY <3>2 DEF Clean
    <3> QED
      BY <3>1, <3>3, CleanMoves
  <2>3. CASE Abort(s, "deliveryFailed")
    <3> HIDE DEF t
    <3> QED
      BY <2>1, <2>3, CleanAbort
  <2> QED
    BY <2>1, <2>2, <2>3
<1>6. CASE MarkFailed(s)
  BY <1>1, <1>6, CleanGoto DEF MarkFailed, At, Clean, Failed
<1>7. CASE GiveRefund(s)
  <2> DEFINE back == [trace[s] EXCEPT !.refunds = @ \cup {Len(txns')}]
  <2>1. Clean("end", job[s], trace[s])
    BY <1>1 DEF Clean
  <2>2. CASE Note(s, back)
    <3>1. Moves(s, "end", job[s], back)
      BY <1>7, <2>2, OwnSettled, StepMoves DEF GiveRefund, Goto
    <3>2. back.granted = trace[s].granted
      BY OwnSettled DEF Traces
    <3> HIDE DEF back
    <3>3. Clean("end", job[s], back)
      BY <2>1, <3>2 DEF Clean
    <3> QED
      BY <3>1, <3>3, CleanMoves
  <2>3. CASE Note(s, [trace[s] EXCEPT !.hit = TRUE])
    BY <1>7, <2>1, <2>3, CleanGoto DEF GiveRefund
  <2> QED
    BY <1>7, <2>2, <2>3 DEF GiveRefund, Failed
<1>8. CASE MarkDone(s)
  <2>1. Clean("balance", job[s], trace[s])
    BY <1>1 DEF Clean
  <2> QED
    BY <1>8, <2>1, CleanGoto, CleanReturn DEF MarkDone
<1>9. CASE ReadBalance(s)
  BY <1>9, CleanReturn DEF ReadBalance
<1> QED
  BY <1>2, <1>3, <1>4, <1>5, <1>6, <1>7, <1>8, <1>9 DEF SessionStep

LEMMA CleanStep ==
    ASSUME SettleInv, CleanInv, [Next]_vars
    PROVE  CleanInv'
<1>1. ASSUME UNCHANGED <<job, trace>>, \A s \in Sessions : pc'[s] \in {pc[s], "lost"}
      PROVE  CleanInv'
  <2>1. \A s \in Sessions : Clean(pc'[s], job[s], trace[s])
    BY <1>1 DEF CleanInv, Clean
  <2> QED
    BY <1>1, <2>1 DEF CleanInv, Clean
<1>2. CASE \E s \in Sessions, u \in Users, p \in Products : Request(s, u, p)
  <2>1. PICK s \in Sessions, u \in Users, p \in Products : Request(s, u, p)
    BY <1>2
  <2> DEFINE asked == [Blank EXCEPT !.user = u, !.product = p]
  <2>2. asked.result = "none"
    BY DEF Blank
  <2>3. Moves(s, "link", asked, trace[s])
    BY <2>1, OwnSettled, StepMoves DEF Request
  <2> HIDE DEF asked
  <2>4. Clean("link", asked, trace[s])
    BY <2>1, <2>2 DEF CleanInv, Clean, Request, At
  <2> QED
    BY <2>3, <2>4, CleanMoves
<1>3. CASE \E s \in Sessions : SessionStep(s) \/ Deliver(s)
  BY <1>3, CleanSession
<1>4. CASE \E g \in GameAccounts : PlayerMoves(g)
  BY <1>1, <1>4 DEF PlayerMoves
<1>5. CASE \E u \in Users, amount \in Amounts, kind \in {"earn", "adjust"} : TopUp(u, amount, kind)
  BY <1>1, <1>5 DEF TopUp
<1>6. CASE Crash
  BY <1>1, <1>6 DEF Crash
<1>7. CASE Restart \/ Exhaust \/ Relieve \/ Background \/ UNCHANGED vars
  BY <1>1, <1>7 DEF Restart, Exhaust, Relieve, Background, vars, shopVars
<1> QED
  BY <1>2, <1>3, <1>4, <1>5, <1>6, <1>7 DEF Next

(* A purchase that is rejected for a full backpack was granted nothing and its
   money is back, unless a call failed after the charge. *)
THEOREM NoSpaceCorrect == Spec => []NoSpaceIsClean
<1>1. Init => CleanInv
  BY DEF Init, ShopInit, CleanInv, Clean, Blank, NoTrace
<1>2. SettleInv /\ CleanInv => NoSpaceIsClean
  <2>1. SUFFICES ASSUME SettleInv, CleanInv, NEW s \in Sessions,
                        pc[s] = "end", job[s].result = "noSpace"
                 PROVE  /\ trace[s].granted = 0
                        /\ HasPaid(s) => trace[s].refunds # {} \/ trace[s].hit
    BY DEF NoSpaceIsClean
  <2>2. Answers(job[s], trace[s], txns)
    BY <2>1, OwnSettled DEF Settled
  <2>3. HasPaid(s) => trace[s].refunds # {} \/ trace[s].hit
    BY <2>1, <2>2 DEF Answers, HasPaid, GotBack
  <2> QED
    BY <2>1, <2>3 DEF CleanInv, Clean
<1>3. SettleInv /\ CleanInv /\ [Next]_vars => SettleInv' /\ CleanInv'
  BY SettleStep, CleanStep
<1> QED
  BY SettleInit, <1>1, <1>2, <1>3, PTL DEF Spec

-----------------------------------------------------------------------------
(* The purchase flow implements the escrow: every step of it is a step of Escrow
   or changes nothing the escrow knows of. *)

(* What the escrow sees of a session: its charge and its refunds. *)
SameOrder(q) ==
    /\ trace'[q].spend = trace[q].spend
    /\ trace'[q].refunds = trace[q].refunds

Orders == [s \in Sessions |-> OrderOf(s)]

-----------------------------------------------------------------------------
(* The order of a session, and when it stays what it is *)

LEMMA ChargeKnown ==
    ASSUME SettleInv, NEW q \in Sessions
    PROVE  trace[q].spend = 0 \/ Owns(job[q], trace[q], txns)
  BY OwnSettled DEF Settled, Labels, Running, Waiting, Shipping, Fresh, Holds, Answers

LEMMA OrderKept ==
    ASSUME SettleInv, NEW q \in Sessions, SameOrder(q), Kept(trace[q], txns, txns')
    PROVE  OrderOf(q)' = OrderOf(q)
<1>1. CASE trace[q].spend = 0
  BY <1>1 DEF SameOrder, OrderOf, HasPaid
<1>2. CASE Owns(job[q], trace[q], txns)
  <2>1. trace[q].spend \in 1..Len(txns)
    BY <1>2 DEF Owns
  <2>2. /\ txns'[trace[q].spend].acct = txns[trace[q].spend].acct
        /\ txns'[trace[q].spend].amount = txns[trace[q].spend].amount
        /\ txns'[trace[q].spend].delivery = txns[trace[q].spend].delivery
    BY <2>1 DEF Kept, Delivery
  <2> QED
    BY <2>2 DEF SameOrder, OrderOf, HasPaid, Spend
<1> QED
  BY <1>1, <1>2, ChargeKnown

(* A session that neither pays nor is refunded: nothing happens to its money. *)
LEMMA NoteQuiet ==
    ASSUME SettleInv, NEW s \in Sessions, NEW t, Note(s, t),
           t.spend = trace[s].spend, t.refunds = trace[s].refunds
    PROVE  \A q \in Sessions : SameOrder(q)
<1>1. trace' = [trace EXCEPT ![s] = t] /\ trace \in [Sessions -> Traces]
  BY OwnSettled DEF Note, LocalsOK
<1> QED
  BY <1>1 DEF SameOrder

LEMMA FailedQuiet ==
    ASSUME SettleInv, NEW s \in Sessions, Failed(s)
    PROVE  \A q \in Sessions : SameOrder(q)
<1> DEFINE h == [trace[s] EXCEPT !.hit = TRUE]
<1>1. Note(s, h) /\ h.spend = trace[s].spend /\ h.refunds = trace[s].refunds
  BY OwnSettled, HitTrace DEF Failed
<1> QED
  BY <1>1, NoteQuiet

LEMMA OneOrder ==
    ASSUME NEW s \in Sessions, NEW o, OrderOf(s)' = o,
           \A q \in Sessions \ {s} : OrderOf(q)' = OrderOf(q)
    PROVE  Orders' = [Orders EXCEPT ![s] = o]
<1> DEFINE changed == [q \in Sessions |-> IF q = s THEN o ELSE OrderOf(q)]
<1>1. Orders' = changed
  BY DEF Orders
<1>2. [Orders EXCEPT ![s] = o] = changed
  BY DEF Orders
<1> QED
  BY <1>1, <1>2

LEMMA SameOrders ==
    ASSUME \A q \in Sessions : OrderOf(q)' = OrderOf(q)
    PROVE  Orders' = Orders
  BY DEF Orders

(* The stuttering steps. *)
LEMMA Stutters ==
    ASSUME SettleInv, UNCHANGED <<balance, paidIn>>, txns' = txns,
           \A q \in Sessions : SameOrder(q)
    PROVE  UNCHANGED Contract!escrowVars
<1>1. \A q \in Sessions : OrderOf(q)' = OrderOf(q)
  BY OwnSettled, KeptSame, OrderKept
<1> QED
  BY <1>1, SameOrders DEF Contract!escrowVars, Orders

-----------------------------------------------------------------------------
(* The steps that move money *)

(* A credit is a deposit. *)
LEMMA TopUpDeposits ==
    ASSUME SettleInv, NEW u \in Users, NEW amount \in Amounts,
           NEW kind \in {"earn", "adjust"}, TopUp(u, amount, kind)
    PROVE  Contract!Deposit(u, amount)
<1>1. \A q \in Sessions : OrderOf(q)' = OrderOf(q)
  <2>1. Credit(u, amount, kind) /\ \A q \in Sessions : SameOrder(q)
    BY DEF TopUp, SameOrder
  <2>2. txns \in Seq(Rows)
    BY DEF SettleInv, ShopInv, StoreTypeOK
  <2> QED
    BY <2>1, <2>2, QuietCredit, OrderKept
<1> QED
  BY <1>1, SameOrders DEF Contract!Deposit, Orders, TopUp, Credit

(* A committed charge is put on hold, whether the session learns of it or not. *)
LEMMA ChargeHolds ==
    ASSUME SettleInv, NEW s \in Sessions, PurchaseCall(s), Charge(s), NEW t,
           Note(s, t), t.spend = Len(txns'), t.refunds = trace[s].refunds
    PROVE  Contract!Hold(s, job[s].user, shelf[job[s].product].price)
<1> DEFINE u == job[s].user
           p == job[s].product
           n == Len(txns')
           o == [user |-> u, amount |-> shelf[p].price, state |-> "held"]
<1>1. pc[s] = "purchase" /\ paidIn' = paidIn
  BY DEF PurchaseCall, At
<1>2. /\ n \in 1..Len(txns') /\ txns'[n].acct = u
      /\ txns'[n].amount = -shelf[p].price /\ txns'[n].delivery = "pending"
      /\ shelf[p].price \in Nat /\ Fresh(job[s], trace[s])
  BY <1>1, ChargeRow
<1>3. /\ PurchaseResult(u, p) = "ok"
      /\ balance' = [balance EXCEPT ![u] = @ - shelf[p].price]
      /\ txns' = Append(txns, SpendRow(u, p))
  BY DEF Charge, Purchase
<1>4. balance[u] >= shelf[p].price
  BY <1>3 DEF PurchaseResult, Has
<1>5. trace' = [trace EXCEPT ![s] = t] /\ trace \in [Sessions -> Traces]
  BY OwnSettled DEF Note, LocalsOK
<1>6. OrderOf(s) = Contract!NoOrder
  BY <1>2 DEF OrderOf, HasPaid, Fresh, Contract!NoOrder
<1>7. OrderOf(s)' = o
  <2>1. -(-shelf[p].price) = shelf[p].price /\ n # 0
    BY <1>2
  <2> HIDE DEF n
  <2> QED
    BY <1>2, <1>5, <2>1 DEF OrderOf, HasPaid, Spend, Fresh, n
<1>8. \A q \in Sessions \ {s} : OrderOf(q)' = OrderOf(q)
  BY <1>3, <1>5, OwnSettled, KeptAppend, OrderKept DEF SameOrder
<1>9. Orders' = [Orders EXCEPT ![s] = o]
  BY <1>7, <1>8, OneOrder
<1> QED
  BY <1>1, <1>3, <1>4, <1>6, <1>9 DEF Contract!Hold, Orders

(* A row that is marked done has earned its price. *)
LEMMA DoneFulfils ==
    ASSUME SettleInv, NEW s \in Sessions, MarkDone(s),
           SetDeliveryStatus(job[s].txn, "done"), \A q \in Sessions : SameOrder(q)
    PROVE  Contract!Fulfil(s)
<1> DEFINE o == [OrderOf(s) EXCEPT !.state = "fulfilled"]
<1>1. Holds(job[s], trace[s], txns) /\ Delivery(trace[s], txns) = "pending"
  BY OwnSettled DEF MarkDone, At, Settled
<1>2. /\ Holds(job[s], trace[s], txns') /\ Delivery(trace[s], txns') = "done"
      /\ SetDeliveryStatus(trace[s].spend, "done")
  BY <1>1, OwnRowSays DEF DeliveryStatuses
<1>3. trace[s].spend \in 1..Len(txns) /\ trace[s].spend # 0 /\ trace[s].refunds = {}
  BY <1>1, OwnSettled DEF Holds, Owns
<1>4. OrderOf(s) = [user |-> job[s].user, amount |-> -(-job[s].price), state |-> "held"]
  BY <1>1, <1>3 DEF OrderOf, HasPaid, Spend, Holds, Owns, Delivery
<1>5. OrderOf(s)' = [user |-> job[s].user, amount |-> -(-job[s].price), state |-> "fulfilled"]
  BY <1>2, <1>3 DEF OrderOf, HasPaid, Spend, Holds, Owns, Delivery, SameOrder
<1>6. OrderOf(s)' = o
  BY <1>4, <1>5
<1>7. \A q \in Sessions \ {s} : OrderOf(q)' = OrderOf(q)
  <2>1. \A q \in Sessions \ {s} : trace[q].spend # trace[s].spend
    BY <1>3, OwnSettled DEF Distinct, HasPaid
  <2> QED
    BY <1>2, <2>1, OwnSettled, QuietSet, OrderKept DEF DeliveryStatuses
<1>8. Orders' = [Orders EXCEPT ![s] = o]
  BY <1>6, <1>7, OneOrder
<1>9. Orders[s] = OrderOf(s) /\ OrderOf(s).state = "held"
  BY <1>4 DEF Orders
<1> QED
  BY <1>8, <1>9 DEF Contract!Fulfil, Orders, MarkDone, SetDeliveryStatus

(* Marking it failed does not move the money yet. *)
LEMMA FailedStillHeld ==
    ASSUME SettleInv, NEW s \in Sessions, MarkFailed(s),
           SetDeliveryStatus(job[s].txn, "failed"), \A q \in Sessions : SameOrder(q)
    PROVE  UNCHANGED Contract!escrowVars
<1>1. Holds(job[s], trace[s], txns) /\ Delivery(trace[s], txns) = "pending"
  BY OwnSettled DEF MarkFailed, At, Settled
<1>2. /\ Holds(job[s], trace[s], txns') /\ Delivery(trace[s], txns') = "failed"
      /\ SetDeliveryStatus(trace[s].spend, "failed")
  BY <1>1, OwnRowSays DEF DeliveryStatuses
<1>3. trace[s].spend \in 1..Len(txns) /\ trace[s].spend # 0 /\ trace[s].refunds = {}
  BY <1>1, OwnSettled DEF Holds, Owns
<1>4. OrderOf(s) = [user |-> job[s].user, amount |-> -(-job[s].price), state |-> "held"]
  BY <1>1, <1>3 DEF OrderOf, HasPaid, Spend, Holds, Owns, Delivery
<1>5. OrderOf(s)' = [user |-> job[s].user, amount |-> -(-job[s].price), state |-> "held"]
  BY <1>2, <1>3 DEF OrderOf, HasPaid, Spend, Holds, Owns, Delivery, SameOrder
<1>6. \A q \in Sessions \ {s} : OrderOf(q)' = OrderOf(q)
  <2>1. \A q \in Sessions \ {s} : trace[q].spend # trace[s].spend
    BY <1>3, OwnSettled DEF Distinct, HasPaid
  <2> QED
    BY <1>2, <2>1, OwnSettled, QuietSet, OrderKept DEF DeliveryStatuses
<1>7. \A q \in Sessions : OrderOf(q)' = OrderOf(q)
  BY <1>4, <1>5, <1>6
<1> QED
  BY <1>7, SameOrders DEF Contract!escrowVars, Orders, MarkFailed, SetDeliveryStatus

(* A refund returns what is on hold to its payer. *)
LEMMA RefundReturns ==
    ASSUME SettleInv, NEW s \in Sessions, GiveRefund(s),
           Refund(job[s].user, job[s].price),
           Note(s, [trace[s] EXCEPT !.refunds = @ \cup {Len(txns')}])
    PROVE  Contract!Return(s)
<1> DEFINE n == Len(txns')
           back == [trace[s] EXCEPT !.refunds = @ \cup {n}]
           o == [OrderOf(s) EXCEPT !.state = "returned"]
<1>1. /\ Holds(job[s], trace[s], txns) /\ Delivery(trace[s], txns) # "done"
      /\ job[s] \in Jobs /\ trace[s] \in Traces /\ paidIn' = paidIn
  BY OwnSettled DEF GiveRefund, At, Settled
<1>2. trace[s].spend \in 1..Len(txns) /\ trace[s].spend # 0 /\ trace[s].refunds = {}
  BY <1>1, OwnSettled DEF Holds, Owns
<1>3. /\ balance' = [balance EXCEPT ![job[s].user] = @ + job[s].price]
      /\ \E row : txns' = Append(txns, row)
  BY DEF Refund, Credit
<1>4. back.spend = trace[s].spend /\ back.refunds # {}
  BY <1>1 DEF Traces
<1>5. trace' = [trace EXCEPT ![s] = back] /\ trace \in [Sessions -> Traces]
  BY OwnSettled DEF Note, LocalsOK
<1> HIDE DEF back
<1>6. -(-job[s].price) = job[s].price
  BY <1>1 DEF Jobs
<1>7. OrderOf(s) = [user |-> job[s].user, amount |-> -(-job[s].price), state |-> "held"]
  BY <1>1, <1>2 DEF OrderOf, HasPaid, Spend, Holds, Owns, Delivery
<1>8. txns'[trace[s].spend] = txns[trace[s].spend]
  BY <1>2, <1>3, OwnSettled
<1>9. OrderOf(s)' = [user |-> job[s].user, amount |-> -(-job[s].price), state |-> "returned"]
  BY <1>1, <1>2, <1>4, <1>5, <1>8 DEF OrderOf, HasPaid, Spend, Holds, Owns
<1>10. OrderOf(s)' = o
  BY <1>7, <1>9
<1>11. \A q \in Sessions \ {s} : OrderOf(q)' = OrderOf(q)
  BY <1>3, <1>5, OwnSettled, KeptAppend, OrderKept DEF SameOrder
<1>12. Orders' = [Orders EXCEPT ![s] = o]
  BY <1>10, <1>11, OneOrder
<1>13. /\ Orders[s] = OrderOf(s) /\ OrderOf(s).state = "held"
       /\ OrderOf(s).user = job[s].user /\ OrderOf(s).amount = job[s].price
  BY <1>6, <1>7 DEF Orders
<1> QED
  BY <1>1, <1>3, <1>12, <1>13 DEF Contract!Return, Orders

-----------------------------------------------------------------------------
(* Every step *)

LEMMA SessionStepEscrow ==
    ASSUME SettleInv, NEW s \in Sessions, SessionStep(s) \/ Deliver(s)
    PROVE  [Contract!EscrowNext]_(Contract!escrowVars)
<1> USE DEF storeVars
<1>1. CASE LinkByDiscord(s) \/ EnsureSpace(s) \/ ReadBalance(s)
  <2>1. \A q \in Sessions : SameOrder(q)
    BY <1>1, FailedQuiet DEF LinkByDiscord, EnsureSpace, ReadBalance, SameOrder
  <2> QED
    BY <1>1, <2>1, Stutters DEF LinkByDiscord, EnsureSpace, ReadBalance
<1>2. CASE Deliver(s)
  <2>1. PICK o \in Outcomes :
            Note(s, [trace[s] EXCEPT !.acked = IF o.ok THEN @ + 1 ELSE @,
                                     !.granted = @ + o.grants])
    BY <1>2 DEF Deliver
  <2> DEFINE t == [trace[s] EXCEPT !.acked = IF o.ok THEN @ + 1 ELSE @,
                                   !.granted = @ + o.grants]
  <2>2. t.spend = trace[s].spend /\ t.refunds = trace[s].refunds
    BY OwnSettled DEF Traces
  <2> HIDE DEF t
  <2>3. \A q \in Sessions : SameOrder(q)
    BY <2>1, <2>2, NoteQuiet DEF t
  <2> QED
    BY <1>2, <2>3, Stutters DEF Deliver
<1>3. CASE PurchaseCall(s)
  <2> DEFINE n == Len(txns')
             p == job[s].product
             known == [trace[s] EXCEPT !.spend = n]
             unknown == [trace[s] EXCEPT !.spend = n, !.hit = TRUE]
  <2>1. /\ known.spend = n /\ known.refunds = trace[s].refunds
        /\ unknown.spend = n /\ unknown.refunds = trace[s].refunds
    BY OwnSettled DEF Traces
  <2>2. ASSUME Charge(s), Note(s, known) \/ Note(s, unknown)
        PROVE  Contract!EscrowNext
    <3>1. Contract!Hold(s, job[s].user, shelf[p].price)
      BY <1>3, <2>1, <2>2, ChargeHolds
    <3>2. job[s].user \in Users /\ p \in Products
      BY <1>3 DEF PurchaseCall, At, SettleInv, ShopInv, JobsFine, JobFine, Running
    <3>3. shelf[p].listed
      BY <2>2 DEF Charge, Purchase, PurchaseResult
    <3>4. shelf[p].price \in Prices
      BY <3>2, <3>3 DEF SettleInv, ShopInv, PricesListed
    <3> QED
      BY <3>1, <3>2, <3>4 DEF Contract!EscrowNext
  <2>3. CASE Charged(s) \/ ChargedUnknown(s)
    BY <2>2, <2>3 DEF Charged, ChargedUnknown
  <2>4. CASE NotCharged(s)
    <3>1. \A q \in Sessions : SameOrder(q)
      BY <2>4, FailedQuiet DEF NotCharged, SameOrder
    <3> QED
      BY <1>3, <2>4, <3>1, Stutters DEF NotCharged, PurchaseCall
  <2> QED
    BY <1>3, <2>3, <2>4 DEF PurchaseCall
<1>4. CASE MarkFailed(s)
  <2>1. \A q \in Sessions : SameOrder(q)
    BY <1>4, FailedQuiet DEF MarkFailed, SameOrder
  <2> QED
    BY <1>4, <2>1, FailedStillHeld, Stutters DEF MarkFailed
<1>5. CASE GiveRefund(s)
  <2>1. CASE /\ Refund(job[s].user, job[s].price)
             /\ Note(s, [trace[s] EXCEPT !.refunds = @ \cup {Len(txns')}])
    BY <1>5, <2>1, RefundReturns DEF Contract!EscrowNext
  <2>2. CASE /\ Note(s, [trace[s] EXCEPT !.hit = TRUE])
             /\ UNCHANGED storeVars
    <3>1. \A q \in Sessions : SameOrder(q)
      BY <2>2, OwnSettled, HitTrace, NoteQuiet
    <3> QED
      BY <1>5, <2>2, <3>1, Stutters DEF GiveRefund
  <2> QED
    BY <1>5, <2>1, <2>2 DEF GiveRefund, Failed
<1>6. CASE MarkDone(s)
  <2>1. \A q \in Sessions : SameOrder(q)
    BY <1>6, FailedQuiet DEF MarkDone, SameOrder
  <2>2. CASE SetDeliveryStatus(job[s].txn, "done")
    BY <1>6, <2>1, <2>2, DoneFulfils DEF Contract!EscrowNext
  <2>3. CASE UNCHANGED storeVars
    BY <1>6, <2>1, <2>3, Stutters DEF MarkDone
  <2> QED
    BY <1>6, <2>2, <2>3 DEF MarkDone
<1> QED
  BY <1>1, <1>2, <1>3, <1>4, <1>5, <1>6 DEF SessionStep

LEMMA EscrowStep ==
    ASSUME SettleInv, [Next]_vars
    PROVE  [Contract!EscrowNext]_(Contract!escrowVars)
<1>1. ASSUME UNCHANGED <<balance, paidIn, txns, trace>>
      PROVE  UNCHANGED Contract!escrowVars
  BY <1>1, Stutters DEF SameOrder
<1>2. CASE \E s \in Sessions, u \in Users, p \in Products : Request(s, u, p)
  BY <1>1, <1>2 DEF Request, storeVars
<1>3. CASE \E s \in Sessions : SessionStep(s) \/ Deliver(s)
  BY <1>3, SessionStepEscrow
<1>4. CASE \E g \in GameAccounts : PlayerMoves(g)
  BY <1>1, <1>4 DEF PlayerMoves, storeVars
<1>5. CASE \E u \in Users, amount \in Amounts, kind \in {"earn", "adjust"} : TopUp(u, amount, kind)
  BY <1>5, TopUpDeposits DEF Contract!EscrowNext
<1>6. CASE Crash \/ Restart \/ Exhaust \/ Relieve \/ UNCHANGED vars
  BY <1>1, <1>6 DEF Crash, Restart, Exhaust, Relieve, vars, storeVars, shopVars
<1>7. CASE Background
  <2>1. UNCHANGED <<balance, txns>>
    BY <1>7 DEF Background, Link, LinkAccount, EditItem, UpsertItem, EditKit, AddKit, GrowKit, CreateKit,
                AddKitItem, PutOnShelf, Toggle, SetEnabled
  <2> QED
    BY <1>1, <1>7, <2>1 DEF Background, shopVars
<1> QED
  BY <1>2, <1>3, <1>4, <1>5, <1>6, <1>7 DEF Next

LEMMA EscrowStart ==
    ASSUME Init
    PROVE  Contract!EscrowInit
<1>1. \A s \in Sessions : OrderOf(s) = Contract!NoOrder
  BY DEF Init, ShopInit, NoTrace, OrderOf, HasPaid, Contract!NoOrder
<1> QED
  BY <1>1 DEF Init, StoreInit, ShopInit, Contract!EscrowInit

(* The purchase flow implements the escrow, for any number of users, products
   and sessions, through failing store calls, crashes and restarts: the money of
   a charge is in one place at a time, and leaves it once. *)
THEOREM EscrowCorrect == Spec => ImplementsEscrow
<1>1. Init => Contract!EscrowInit
  BY EscrowStart
<1>2. SettleInv /\ [Next]_vars => [Contract!EscrowNext]_(Contract!escrowVars)
  BY EscrowStep
<1> QED
  BY SettleInit, SettleStep, <1>1, <1>2, PTL DEF Spec, ImplementsEscrow, Contract!EscrowSpec

-----------------------------------------------------------------------------
(* A sum over a set, added up in any order: a table of the sums of all subsets. *)
SumTable(f, S, sum) ==
    /\ sum \in [SUBSET S -> Int]
    /\ sum[{}] = 0
    /\ \A T \in SUBSET S : \A x \in T : sum[T] = f[x] + sum[T \ {x}]

(* The table MapThenSumSet computes: it adds in the order of CHOOSE. *)
Computed(f, S, sum) ==
    sum = [T \in SUBSET S |->
              IF T = {} THEN 0
              ELSE f[CHOOSE x \in T : TRUE] + sum[T \ {CHOOSE x \in T : TRUE}]]

LEMMA SmallestSubset ==
    ASSUME NEW S, IsFiniteSet(S), NEW Bad \in SUBSET (SUBSET S), Bad # {}
    PROVE  \E T \in Bad : \A U \in Bad : U \subseteq T => U = T
<1>1. IsWellFoundedOn(StrictSubsetOrdering(S), SUBSET S)
  BY FS_StrictSubsetOrderingWellFounded, FS_FiniteSubsetsOfFinite
<1>2. PICK T \in Bad : \A U \in Bad : ~ (<<U, T>> \in StrictSubsetOrdering(S))
  BY <1>1, WFMin
<1> QED
  BY <1>2 DEF StrictSubsetOrdering

LEMMA SumTableAdd ==
    ASSUME NEW S, NEW f, NEW x, x \notin S, \A y \in S \cup {x} : f[y] \in Int,
           NEW sum, SumTable(f, S, sum)
    PROVE  \E more : SumTable(f, S \cup {x}, more)
<1> DEFINE more == [T \in SUBSET (S \cup {x}) |->
                        IF x \in T THEN f[x] + sum[T \ {x}] ELSE sum[T]]
<1>1. \A T \in SUBSET (S \cup {x}) : T \ {x} \in SUBSET S /\ (x \notin T => T \in SUBSET S)
  OBVIOUS
<1>2. more \in [SUBSET (S \cup {x}) -> Int]
  BY <1>1 DEF SumTable
<1>3. more[{}] = 0
  BY DEF SumTable
<1>4. ASSUME NEW T \in SUBSET (S \cup {x}), NEW y \in T
      PROVE  more[T] = f[y] + more[T \ {y}]
  <2>1. T \ {y} \in SUBSET (S \cup {x})
    OBVIOUS
  <2>2. CASE y = x
    <3>1. more[T] = f[x] + sum[T \ {x}] /\ more[T \ {y}] = sum[T \ {x}]
      BY <1>1, <2>1, <2>2
    <3> QED
      BY <3>1, <2>2
  <2>3. CASE y # x /\ x \in T
    <3>1. more[T] = f[x] + sum[T \ {x}]
      BY <2>3
    <3>2. more[T \ {y}] = f[x] + sum[(T \ {y}) \ {x}]
      BY <2>1, <2>3
    <3>3. sum[T \ {x}] = f[y] + sum[(T \ {x}) \ {y}]
      BY <1>1, <2>3 DEF SumTable
    <3>4. (T \ {x}) \ {y} = (T \ {y}) \ {x}
      OBVIOUS
    <3>5. sum[T \ {x}] \in Int /\ sum[(T \ {x}) \ {y}] \in Int
      BY <1>1, <2>1 DEF SumTable
    <3>6. f[x] \in Int /\ f[y] \in Int
      BY <2>3
    <3> DEFINE less == T \ {y}
               a == sum[T \ {x}]
               b == sum[(T \ {x}) \ {y}]
    <3>7. more[T] = f[x] + a /\ more[less] = f[x] + b /\ a = f[y] + b /\ a \in Int /\ b \in Int
      BY <3>1, <3>2, <3>3, <3>4, <3>5
    <3> SUFFICES more[T] = f[y] + more[less]
      OBVIOUS
    <3> HIDE DEF more, less, a, b
    <3> QED
      BY <3>6, <3>7
  <2>4. CASE y # x /\ x \notin T
    BY <1>1, <2>1, <2>4 DEF SumTable
  <2> QED
    BY <2>2, <2>3, <2>4
<1> HIDE DEF more
<1> QED
  BY <1>2, <1>3, <1>4 DEF SumTable

LEMMA SumTableExists ==
    ASSUME NEW S, IsFiniteSet(S), NEW f, \A y \in S : f[y] \in Int
    PROVE  \E sum : SumTable(f, S, sum)
<1> DEFINE Bad == {T \in SUBSET S : ~ \E sum : SumTable(f, T, sum)}
<1>1. SUFFICES ASSUME Bad # {}
               PROVE  FALSE
  <2>1. S \in SUBSET S /\ S \notin Bad
    BY <1>1
  <2> QED
    BY <2>1
<1>2. PICK T \in Bad : \A U \in Bad : U \subseteq T => U = T
  <2>1. Bad \in SUBSET (SUBSET S)
    OBVIOUS
  <2> HIDE DEF Bad
  <2> QED
    BY <1>1, <2>1, SmallestSubset
<1>3. T # {}
  <2>1. SumTable(f, {}, [U \in SUBSET {} |-> 0])
    BY DEF SumTable
  <2> QED
    BY <1>2, <2>1
<1>4. PICK x \in T : TRUE
  BY <1>3
<1>5. PICK sum : SumTable(f, T \ {x}, sum)
  <2>1. T \ {x} \in SUBSET S /\ T \ {x} # T
    BY <1>2, <1>4
  <2> QED
    BY <1>2, <2>1
<1>6. \E more : SumTable(f, (T \ {x}) \cup {x}, more)
  BY <1>5, SumTableAdd
<1>7. (T \ {x}) \cup {x} = T
  BY <1>4
<1> QED
  BY <1>2, <1>6, <1>7

LEMMA ComputedIs ==
    ASSUME NEW S, IsFiniteSet(S), NEW f,
           NEW sum, SumTable(f, S, sum), NEW iter, Computed(f, S, iter)
    PROVE  iter = sum
<1> DEFINE Bad == {T \in SUBSET S : iter[T] # sum[T]}
<1>1. iter = [T \in SUBSET S |-> iter[T]] /\ sum = [T \in SUBSET S |-> sum[T]]
  BY DEF Computed, SumTable
<1>2. SUFFICES ASSUME Bad # {}
               PROVE  FALSE
  BY <1>1
<1>3. PICK T \in Bad : \A U \in Bad : U \subseteq T => U = T
  <2>1. Bad \in SUBSET (SUBSET S)
    OBVIOUS
  <2> HIDE DEF Bad
  <2> QED
    BY <1>2, <2>1, SmallestSubset
<1>4. T # {}
  BY <1>3 DEF Computed, SumTable
<1> DEFINE x == CHOOSE y \in T : TRUE
<1>5. x \in T /\ T \ {x} \in SUBSET S /\ T \ {x} # T
  BY <1>3, <1>4
<1>6. iter[T \ {x}] = sum[T \ {x}]
  BY <1>3, <1>5
<1>7. iter[T] = f[x] + iter[T \ {x}]
  BY <1>3, <1>4 DEF Computed
<1>8. sum[T] = f[x] + sum[T \ {x}]
  BY <1>3, <1>5 DEF SumTable
<1> QED
  BY <1>3, <1>6, <1>7, <1>8

LEMMA TableComputed ==
    ASSUME NEW S, NEW f, NEW sum, SumTable(f, S, sum)
    PROVE  Computed(f, S, sum)
<1>1. ASSUME NEW T \in SUBSET S
      PROVE  sum[T] = IF T = {} THEN 0
                      ELSE f[CHOOSE x \in T : TRUE] + sum[T \ {CHOOSE x \in T : TRUE}]
  BY DEF SumTable
<1>2. sum = [T \in SUBSET S |-> sum[T]]
  BY DEF SumTable
<1> QED
  BY <1>1, <1>2 DEF Computed

SumOver(f, S) == Contract!MapThenSumSet(LAMBDA x : f[x], S)

LEMMA SumIs ==
    ASSUME NEW S, IsFiniteSet(S), NEW f, NEW sum, SumTable(f, S, sum)
    PROVE  SumOver(f, S) = sum[S]
<1> DEFINE iter == CHOOSE i : Computed(f, S, i)
<1>1. Computed(f, S, iter)
  BY TableComputed
<1>2. iter = sum
  BY <1>1, ComputedIs
<1>3. SumOver(f, S) = iter[S]
  BY DEF SumOver, Contract!MapThenSumSet, Contract!MapThenFoldSet, Computed
<1> QED
  BY <1>2, <1>3

(* So a sum does not depend on the order: an element more is its value more. *)
LEMMA SumAdd ==
    ASSUME NEW S, IsFiniteSet(S), NEW f, NEW x, x \notin S, \A y \in S \cup {x} : f[y] \in Int
    PROVE  /\ SumOver(f, S) \in Int
           /\ SumOver(f, S \cup {x}) = f[x] + SumOver(f, S)
<1>1. IsFiniteSet(S \cup {x})
  BY FS_AddElement
<1>2. PICK sum : SumTable(f, S \cup {x}, sum)
  BY <1>1, SumTableExists
<1> DEFINE part == [T \in SUBSET S |-> sum[T]]
<1>3. SumTable(f, S, part)
  <2>1. \A T \in SUBSET S : T \in SUBSET (S \cup {x}) /\ \A y \in T : T \ {y} \in SUBSET S
    OBVIOUS
  <2> QED
    BY <1>2, <2>1 DEF SumTable
<1>4. SumOver(f, S \cup {x}) = sum[S \cup {x}]
  BY <1>1, <1>2, SumIs
<1>5. SumOver(f, S) = part[S]
  BY <1>3, SumIs
<1>6. part[S] = sum[S]
  OBVIOUS
<1>7. (S \cup {x}) \ {x} = S /\ S \in SUBSET (S \cup {x}) /\ x \in S \cup {x}
  OBVIOUS
<1>8. sum[S \cup {x}] = f[x] + sum[S] /\ sum[S] \in Int
  <2>1. \A T \in SUBSET (S \cup {x}) : \A y \in T : sum[T] = f[y] + sum[T \ {y}]
    BY <1>2 DEF SumTable
  <2>2. sum \in [SUBSET (S \cup {x}) -> Int]
    BY <1>2 DEF SumTable
  <2> QED
    BY <1>7, <2>1, <2>2
<1> QED
  BY <1>4, <1>5, <1>6, <1>8

LEMMA SumType ==
    ASSUME NEW S, IsFiniteSet(S), NEW f, \A y \in S : f[y] \in Int
    PROVE  SumOver(f, S) \in Int
<1>1. PICK sum : SumTable(f, S, sum)
  BY SumTableExists
<1>2. SumOver(f, S) = sum[S]
  BY <1>1, SumIs
<1>3. sum[S] \in Int
  BY <1>1 DEF SumTable
<1> QED
  BY <1>2, <1>3

LEMMA SumEmpty ==
    ASSUME NEW f
    PROVE  SumOver(f, {}) = 0
<1> DEFINE sum == [T \in SUBSET {} |-> 0]
<1>1. SumTable(f, {}, sum)
  BY DEF SumTable
<1>2. SumOver(f, {}) = sum[{}]
  BY <1>1, SumIs, FS_EmptySet
<1> QED
  BY <1>2

(* Only the values of the elements count. *)
LEMMA SumSame ==
    ASSUME NEW S, IsFiniteSet(S), NEW f, NEW g, \A y \in S : f[y] \in Int /\ g[y] = f[y]
    PROVE  SumOver(g, S) = SumOver(f, S)
<1>1. PICK sum : SumTable(f, S, sum)
  BY SumTableExists
<1>2. SumTable(g, S, sum)
  BY <1>1 DEF SumTable
<1> QED
  BY <1>1, <1>2, SumIs

-----------------------------------------------------------------------------
(* Money.  What a user was credited is balanced by the purse and the orders that
   are kept; each step of the escrow moves an amount from one to the other. *)

KeptOf(ord, u) ==
    {s \in Sessions : ord[s].user = u /\ ord[s].state \in {"held", "fulfilled"}}

OrderStates == {"none", "held", "fulfilled", "returned"}

Costs(ord) == [s \in Sessions |-> ord[s].amount]

Balanced(paid, purse, ord, u) ==
    /\ IsFiniteSet(KeptOf(ord, u))
    /\ paid[u] = purse[u] + SumOver(Costs(ord), KeptOf(ord, u))

Priced(ord) == \A s \in Sessions : ord[s].amount \in Int

(* An order that is new, or stops being kept, changes the sum by what it cost. *)
LEMMA KeptMore ==
    ASSUME NEW ord, NEW ord2, Priced(ord), Priced(ord2), NEW s \in Sessions, NEW u,
           IsFiniteSet(KeptOf(ord, u)),
           \A q \in Sessions \ {s} : ord2[q] = ord[q],
           s \notin KeptOf(ord, u), s \in KeptOf(ord2, u)
    PROVE  /\ IsFiniteSet(KeptOf(ord2, u))
           /\ SumOver(Costs(ord), KeptOf(ord, u)) \in Int
           /\ SumOver(Costs(ord2), KeptOf(ord2, u)) =
                  ord2[s].amount + SumOver(Costs(ord), KeptOf(ord, u))
<1> DEFINE K == KeptOf(ord, u)
<1>1. KeptOf(ord2, u) = K \cup {s} /\ K \subseteq Sessions
  BY DEF KeptOf
<1>2. IsFiniteSet(K \cup {s})
  BY FS_AddElement
<1>3. \A q \in K \cup {s} : Costs(ord2)[q] \in Int
  BY <1>1 DEF Priced, Costs
<1>4. \A q \in K : Costs(ord)[q] \in Int /\ Costs(ord2)[q] = Costs(ord)[q]
  BY <1>1 DEF Priced, Costs
<1>5. Costs(ord2)[s] = ord2[s].amount
  BY DEF Costs
<1> HIDE DEF K
<1>6. s \notin K /\ IsFiniteSet(K)
  BY DEF K
<1>7. SumOver(Costs(ord2), K) = SumOver(Costs(ord), K)
  BY <1>4, <1>6, SumSame
<1>8. /\ SumOver(Costs(ord2), K) \in Int
      /\ SumOver(Costs(ord2), K \cup {s}) = Costs(ord2)[s] + SumOver(Costs(ord2), K)
  BY <1>3, <1>6, SumAdd
<1> QED
  BY <1>1, <1>2, <1>5, <1>7, <1>8 DEF K

LEMMA KeptSameSum ==
    ASSUME NEW ord, NEW ord2, Priced(ord), NEW u,
           IsFiniteSet(KeptOf(ord, u)), KeptOf(ord2, u) = KeptOf(ord, u),
           \A q \in KeptOf(ord, u) : ord2[q].amount = ord[q].amount
    PROVE  SumOver(Costs(ord2), KeptOf(ord2, u)) = SumOver(Costs(ord), KeptOf(ord, u))
<1>1. \A q \in KeptOf(ord, u) : Costs(ord)[q] \in Int /\ Costs(ord2)[q] = Costs(ord)[q]
  BY DEF Priced, Costs, KeptOf
<1> QED
  BY <1>1, SumSame

(* The steps of the escrow, of any orders, purses and credits. *)
MoneyMoves(ord, ord2, purse, purse2, paid, paid2) ==
    \/ \E u \in Users, amount \in Amounts :
         /\ purse2 = [purse EXCEPT ![u] = purse[u] + amount]
         /\ paid2 = [paid EXCEPT ![u] = paid[u] + amount]
         /\ ord2 = ord
    \/ \E s \in Sessions, u \in Users, price \in Prices :
         /\ ord[s].state = "none"
         /\ purse2 = [purse EXCEPT ![u] = purse[u] - price]
         /\ ord2 = [ord EXCEPT ![s] = [user |-> u, amount |-> price, state |-> "held"]]
         /\ paid2 = paid
    \/ \E s \in Sessions :
         /\ ord[s].state = "held"
         /\ ord2 = [ord EXCEPT ![s].state = "fulfilled"]
         /\ purse2 = purse /\ paid2 = paid
    \/ \E s \in Sessions :
         /\ ord[s].state = "held"
         /\ purse2 = [purse EXCEPT ![ord[s].user] = purse[ord[s].user] + ord[s].amount]
         /\ ord2 = [ord EXCEPT ![s].state = "returned"]
         /\ paid2 = paid

(* Whatever the escrow does, each user's account balances afterwards. *)
LEMMA BalancedStep ==
    ASSUME NEW ord, NEW ord2, NEW purse, NEW purse2, NEW paid, NEW paid2,
           ord \in [Sessions -> [user : Users \cup {None}, amount : Int, state : OrderStates]],
           purse \in [Users -> Int], paid \in [Users -> Int],
           NEW v \in Users, Balanced(paid, purse, ord, v),
           MoneyMoves(ord, ord2, purse, purse2, paid, paid2)
    PROVE  Balanced(paid2, purse2, ord2, v)
<1> DEFINE sum == SumOver(Costs(ord), KeptOf(ord, v))
<1>1. Priced(ord) /\ IsFiniteSet(KeptOf(ord, v)) /\ paid[v] = purse[v] + sum
  BY DEF Priced, Balanced
<1>2. sum \in Int
  <2>1. \A q \in KeptOf(ord, v) : Costs(ord)[q] \in Int
    BY <1>1 DEF KeptOf, Costs, Priced
  <2> QED
    BY <1>1, <2>1, SumType
<1>7. Priced(ord2)
  <2>1. Prices \subseteq Int
    BY StoreAssumption DEF StoreAssumption
  <2> QED
    BY <2>1 DEF Priced, MoneyMoves
<1>3. ASSUME NEW u \in Users, NEW amount \in Amounts,
             purse2 = [purse EXCEPT ![u] = purse[u] + amount],
             paid2 = [paid EXCEPT ![u] = paid[u] + amount],
             ord2 = ord
      PROVE  Balanced(paid2, purse2, ord2, v)
  <2>1. amount \in Int
    BY StoreAssumption DEF StoreAssumption
  <2>2. paid2[v] - purse2[v] = paid[v] - purse[v] /\ paid2[v] \in Int /\ purse2[v] \in Int
    BY <1>3, <2>1
  <2>3. paid2[v] = purse2[v] + sum
    BY <1>1, <1>2, <2>2
  <2> QED
    BY <1>1, <1>3, <2>3 DEF Balanced
<1>4. ASSUME NEW s \in Sessions, NEW u \in Users, NEW price \in Prices,
             ord[s].state = "none",
             purse2 = [purse EXCEPT ![u] = purse[u] - price],
             ord2 = [ord EXCEPT ![s] = [user |-> u, amount |-> price, state |-> "held"]],
             paid2 = paid
      PROVE  Balanced(paid2, purse2, ord2, v)
  <2>1. price \in Int
    BY StoreAssumption DEF StoreAssumption
  <2>2. /\ ord2[s] = [user |-> u, amount |-> price, state |-> "held"]
        /\ \A q \in Sessions \ {s} : ord2[q] = ord[q]
    BY <1>4
  <2>3. CASE v = u
    <3>1. s \notin KeptOf(ord, v) /\ s \in KeptOf(ord2, v)
      BY <1>4, <2>2, <2>3 DEF KeptOf
    <3>2. /\ IsFiniteSet(KeptOf(ord2, v))
          /\ SumOver(Costs(ord2), KeptOf(ord2, v)) = ord2[s].amount + sum
      BY <1>1, <1>7, <2>2, <3>1, KeptMore
    <3>3. purse2[v] = purse[v] - price /\ ord2[s].amount = price
      BY <1>4, <2>2, <2>3
    <3>4. paid2[v] = purse2[v] + (ord2[s].amount + sum)
      BY <1>1, <1>2, <1>4, <2>1, <3>3
    <3> QED
      BY <3>2, <3>4 DEF Balanced
  <2>4. CASE v # u
    <3>1. KeptOf(ord2, v) = KeptOf(ord, v)
      BY <1>4, <2>2, <2>4 DEF KeptOf
    <3>2. \A q \in KeptOf(ord, v) : ord2[q].amount = ord[q].amount
      BY <1>4, <2>2 DEF KeptOf
    <3>3. SumOver(Costs(ord2), KeptOf(ord2, v)) = sum
      BY <1>1, <3>1, <3>2, KeptSameSum
    <3>4. purse2[v] = purse[v]
      BY <1>4, <2>4
    <3> QED
      BY <1>1, <1>4, <3>1, <3>3, <3>4 DEF Balanced
  <2> QED
    BY <2>3, <2>4
<1>5. ASSUME NEW s \in Sessions, ord[s].state = "held",
             ord2 = [ord EXCEPT ![s].state = "fulfilled"],
             purse2 = purse, paid2 = paid
      PROVE  Balanced(paid2, purse2, ord2, v)
  <2>1. /\ ord2[s].user = ord[s].user /\ ord2[s].amount = ord[s].amount
        /\ ord2[s].state = "fulfilled"
        /\ \A q \in Sessions \ {s} : ord2[q] = ord[q]
    BY <1>5
  <2>2. KeptOf(ord2, v) = KeptOf(ord, v)
    BY <1>5, <2>1 DEF KeptOf
  <2>3. \A q \in KeptOf(ord, v) : ord2[q].amount = ord[q].amount
    BY <2>1 DEF KeptOf
  <2>4. SumOver(Costs(ord2), KeptOf(ord2, v)) = sum
    BY <1>1, <2>2, <2>3, KeptSameSum
  <2> QED
    BY <1>1, <1>5, <2>2, <2>4 DEF Balanced
<1>6. ASSUME NEW s \in Sessions, ord[s].state = "held",
             purse2 = [purse EXCEPT ![ord[s].user] = purse[ord[s].user] + ord[s].amount],
             ord2 = [ord EXCEPT ![s].state = "returned"],
             paid2 = paid
      PROVE  Balanced(paid2, purse2, ord2, v)
  <2>1. /\ ord2[s].user = ord[s].user /\ ord2[s].amount = ord[s].amount
        /\ ord2[s].state = "returned"
        /\ \A q \in Sessions \ {s} : ord2[q] = ord[q]
    BY <1>6
  <2>2. CASE v = ord[s].user
    <3>1. s \in KeptOf(ord, v) /\ s \notin KeptOf(ord2, v)
      BY <1>6, <2>1, <2>2 DEF KeptOf
    <3>2. KeptOf(ord2, v) \subseteq KeptOf(ord, v)
      BY <2>1, <3>1 DEF KeptOf
    <3>3. IsFiniteSet(KeptOf(ord2, v))
      BY <1>1, <3>2, FS_Subset
    <3>4. /\ SumOver(Costs(ord2), KeptOf(ord2, v)) \in Int
          /\ sum = ord[s].amount + SumOver(Costs(ord2), KeptOf(ord2, v))
      BY <1>1, <1>7, <2>1, <3>1, <3>3, KeptMore
    <3>5. purse2[v] = purse[v] + ord[s].amount /\ ord[s].amount \in Int /\ purse[v] \in Int
      BY <1>1, <1>6, <2>2 DEF Priced
    <3>6. paid2[v] = purse2[v] + SumOver(Costs(ord2), KeptOf(ord2, v))
      BY <1>1, <1>6, <3>4, <3>5
    <3> QED
      BY <3>3, <3>6 DEF Balanced
  <2>3. CASE v # ord[s].user
    <3>1. KeptOf(ord2, v) = KeptOf(ord, v)
      BY <2>1, <2>3 DEF KeptOf
    <3>2. \A q \in KeptOf(ord, v) : ord2[q].amount = ord[q].amount
      BY <2>1 DEF KeptOf
    <3>3. SumOver(Costs(ord2), KeptOf(ord2, v)) = sum
      BY <1>1, <3>1, <3>2, KeptSameSum
    <3>4. purse2[v] = purse[v]
      BY <1>6, <2>3
    <3> QED
      BY <1>1, <1>6, <3>1, <3>3, <3>4 DEF Balanced
  <2> QED
    BY <2>2, <2>3
<1> QED
  BY <1>3, <1>4, <1>5, <1>6 DEF MoneyMoves

LEMMA OrderTypes ==
    ASSUME SettleInv
    PROVE  /\ Orders \in [Sessions -> [user : Users \cup {None}, amount : Int, state : OrderStates]]
           /\ Priced(Orders)
<1>1. txns \in Seq(Rows)
  BY DEF SettleInv, ShopInv, TypeOK, StoreTypeOK
<1>2. ASSUME NEW s \in Sessions
      PROVE  OrderOf(s) \in [user : Users \cup {None}, amount : Int, state : OrderStates]
  <2>1. CASE HasPaid(s)
    <3>1. trace[s].spend \in 1..Len(txns)
      BY <2>1, ChargeKnown DEF HasPaid, Owns
    <3>2. Spend(s) \in Rows
      BY <1>1, <3>1 DEF Spend
    <3> QED
      BY <2>1, <3>2 DEF OrderOf, Rows, OrderStates
  <2>2. CASE ~HasPaid(s)
    BY <2>2 DEF OrderOf, OrderStates
  <2> QED
    BY <2>1, <2>2
<1> QED
  BY <1>2 DEF Orders, Priced

MoneyInv == \A u \in Users : Balanced(paidIn, balance, Orders, u)

LEMMA MoneyStep ==
    ASSUME SettleInv, SettleInv', MoneyInv, [Next]_vars
    PROVE  MoneyInv'
<1>1. [Contract!EscrowNext]_(Contract!escrowVars)
  BY EscrowStep
<1>2. Orders \in [Sessions -> [user : Users \cup {None}, amount : Int, state : OrderStates]]
  BY OrderTypes
<1>3. balance \in [Users -> Int] /\ paidIn \in [Users -> Int]
  <2>1. 0..MaxBalance \subseteq Int /\ Nat \subseteq Int
    OBVIOUS
  <2> QED
    BY <2>1 DEF SettleInv, ShopInv, LocalsOK, StoreTypeOK
<1>4. CASE UNCHANGED Contract!escrowVars
  <2>1. balance' = balance /\ paidIn' = paidIn /\ Orders' = Orders
    BY <1>4 DEF Contract!escrowVars, Orders
  <2> QED
    BY <2>1 DEF MoneyInv
<1>5. CASE Contract!EscrowNext
  <2>1. \/ \E u \in Users, amount \in Amounts : Contract!Deposit(u, amount)
        \/ \E s \in Sessions, u \in Users, price \in Prices : Contract!Hold(s, u, price)
        \/ \E s \in Sessions : Contract!Fulfil(s)
        \/ \E s \in Sessions : Contract!Return(s)
    BY <1>5 DEF Contract!EscrowNext
  <2> SUFFICES ASSUME NEW v \in Users
               PROVE  Balanced(paidIn', balance', Orders', v)
    BY DEF MoneyInv
  <2>2. Balanced(paidIn, balance, Orders, v)
    BY DEF MoneyInv
  <2>3. ASSUME NEW u \in Users, NEW amount \in Amounts, Contract!Deposit(u, amount)
        PROVE  /\ balance' = [balance EXCEPT ![u] = balance[u] + amount]
               /\ paidIn' = [paidIn EXCEPT ![u] = paidIn[u] + amount]
               /\ Orders' = Orders
    BY <2>3 DEF Contract!Deposit, Orders
  <2>4. ASSUME NEW s \in Sessions, NEW u \in Users, NEW price \in Prices,
               Contract!Hold(s, u, price)
        PROVE  /\ Orders[s].state = "none"
               /\ balance' = [balance EXCEPT ![u] = balance[u] - price]
               /\ Orders' = [Orders EXCEPT ![s] =
                                [user |-> u, amount |-> price, state |-> "held"]]
               /\ paidIn' = paidIn
    BY <2>4 DEF Contract!Hold, Contract!NoOrder, Orders
  <2>5. ASSUME NEW s \in Sessions, Contract!Fulfil(s)
        PROVE  /\ Orders[s].state = "held"
               /\ Orders' = [Orders EXCEPT ![s].state = "fulfilled"]
               /\ balance' = balance /\ paidIn' = paidIn
    BY <2>5 DEF Contract!Fulfil, Orders
  <2>6. ASSUME NEW s \in Sessions, Contract!Return(s)
        PROVE  /\ Orders[s].state = "held"
               /\ balance' = [balance EXCEPT ![Orders[s].user] =
                                balance[Orders[s].user] + Orders[s].amount]
               /\ Orders' = [Orders EXCEPT ![s].state = "returned"]
               /\ paidIn' = paidIn
    BY <2>6 DEF Contract!Return, Orders
  <2>7. MoneyMoves(Orders, Orders', balance, balance', paidIn, paidIn')
    <3> HIDE DEF Orders
    <3> QED
      BY <2>1, <2>3, <2>4, <2>5, <2>6 DEF MoneyMoves
  <2> HIDE DEF Orders
  <2> QED
    BY <1>2, <1>3, <2>2, <2>7, BalancedStep, Zenon
<1> QED
  BY <1>1, <1>4, <1>5

LEMMA MoneyStart ==
    ASSUME Init
    PROVE  MoneyInv
<1> SUFFICES ASSUME NEW u \in Users
             PROVE  Balanced(paidIn, balance, Orders, u)
  BY DEF MoneyInv
<1>1. Contract!EscrowInit
  BY EscrowStart
<1>2. KeptOf(Orders, u) = {}
  BY <1>1 DEF Contract!EscrowInit, Contract!NoOrder, Orders, KeptOf
<1>3. paidIn[u] = 0 /\ balance[u] = 0
  BY <1>1 DEF Contract!EscrowInit
<1> QED
  BY <1>2, <1>3, SumEmpty, FS_EmptySet DEF Balanced

(* The sum Escrow speaks of is the one that is balanced. *)
LEMMA SameSum ==
    ASSUME NEW ord, Priced(ord), NEW K \in SUBSET Sessions, IsFiniteSet(K)
    PROVE  Contract!MapThenSumSet(LAMBDA s : ord[s].amount, K) = SumOver(Costs(ord), K)
<1> DEFINE Adds(i) ==
        i = [T \in SUBSET K |->
                IF T = {} THEN 0
                ELSE ord[CHOOSE x \in T : TRUE].amount + i[T \ {CHOOSE x \in T : TRUE}]]
           iter == CHOOSE i : Adds(i)
<1>1. \A s \in K : Costs(ord)[s] = ord[s].amount /\ Costs(ord)[s] \in Int
  BY DEF Costs, Priced
<1>2. PICK sum : SumTable(Costs(ord), K, sum)
  BY <1>1, SumTableExists
<1>3. \A T \in SUBSET K : T # {} =>
         ord[CHOOSE x \in T : TRUE].amount = Costs(ord)[CHOOSE x \in T : TRUE]
  BY <1>1
<1>4. Adds(sum)
  <2>1. Computed(Costs(ord), K, sum)
    BY <1>2, TableComputed
  <2> QED
    BY <1>3, <2>1 DEF Computed
<1>5. Adds(iter)
  BY <1>4
<1>6. Computed(Costs(ord), K, iter)
  <2> HIDE DEF iter
  <2>1. ASSUME NEW T \in SUBSET K
        PROVE  iter[T] = IF T = {} THEN 0
                         ELSE Costs(ord)[CHOOSE x \in T : TRUE] + iter[T \ {CHOOSE x \in T : TRUE}]
    BY <1>3, <1>5
  <2>2. iter = [T \in SUBSET K |-> iter[T]]
    BY <1>5
  <2> HIDE DEF Adds
  <2> QED
    BY <2>1, <2>2 DEF Computed
<1>7. iter = sum
  BY <1>2, <1>6, ComputedIs
<1>8. Contract!MapThenSumSet(LAMBDA s : ord[s].amount, K) = iter[K]
  BY DEF Contract!MapThenSumSet, Contract!MapThenFoldSet
<1>9. SumOver(Costs(ord), K) = sum[K]
  BY <1>2, SumIs
<1> QED
  BY <1>7, <1>8, <1>9

LEMMA MoneyMeans ==
    ASSUME SettleInv, MoneyInv
    PROVE  MoneyConserved
<1>4. \A u \in Users : Contract!KeptFrom(u) = KeptOf(Orders, u)
  BY DEF Contract!KeptFrom, KeptOf, Orders
<1>5. SUFFICES ASSUME NEW u \in Users
               PROVE  paidIn[u] = balance[u] +
                        Contract!MapThenSumSet(LAMBDA s : Orders[s].amount, Contract!KeptFrom(u))
  BY DEF MoneyConserved, Contract!Conserved, Orders
<1>1. Priced(Orders)
  BY OrderTypes
<1>2. KeptOf(Orders, u) \in SUBSET Sessions
  BY DEF KeptOf
<1>3. Balanced(paidIn, balance, Orders, u)
  BY DEF MoneyInv
<1> HIDE DEF Orders
<1> QED
  BY <1>1, <1>2, <1>3, <1>4, SameSum DEF Balanced

(* No money appears or vanishes: for any number of users, products and sessions,
   what a user was ever credited is in the wallet, on hold for a purchase, or was
   earned by a delivered one. *)
THEOREM MoneyCorrect == Spec => []MoneyConserved
<1>1. Init => SettleInv /\ MoneyInv
  BY SettleInit, MoneyStart
<1>2. SettleInv /\ MoneyInv /\ [Next]_vars => (SettleInv /\ MoneyInv)'
  BY SettleStep, MoneyStep
<1>3. SettleInv /\ MoneyInv => MoneyConserved
  BY MoneyMeans
<1> QED
  BY <1>1, <1>2, <1>3, PTL DEF Spec
=============================================================================
