--------------------------------- MODULE Shop ---------------------------------
(***************************************************************************)
(* The purchase flow of internal/shop: each /buy or /buykit interaction is *)
(* a session, run by a goroutine of its own, that goes through one call at *)
(* a time: find the link, check the backpack, charge, deliver line by      *)
(* line, then settle.  Between two calls anything may happen: another      *)
(* session's call, a credit, a relink, an edit of the catalogue, a crash   *)
(* of the process.  A store call may fail, before its statement took       *)
(* effect or after (the commit went through, its answer was lost).         *)
(***************************************************************************)
EXTENDS Store

CONSTANTS
    Sessions,       \* the /buy and /buykit interactions, each runs once
    Outcomes,       \* what one Deliver call may do: [ok, grants]
    Spawned,        \* the game accounts that have a backpack row
    Capacity,       \* max_item_count of a backpack, -1 = unlimited
    DBMayFail,      \* may store calls fail?
    MayCrash,       \* may the process stop and be started again?
    EarnBound       \* bound: no credit from outside once the ledger is this long

ASSUME ShopAssumption ==
    /\ Outcomes \subseteq [ok : BOOLEAN, grants : Nat]
    /\ Spawned \subseteq GameAccounts
    /\ Capacity \in Nat \cup {-1}
    /\ DBMayFail \in BOOLEAN
    /\ MayCrash \in BOOLEAN
    /\ EarnBound \in Nat

VARIABLES
    mode,       \* of the process: running, stalled (no connection left) or down
    pc,         \* the call each session makes next
    job,        \* the local variables of each session
    free,       \* free slots of each backpack (0 when unlimited)
    trace,      \* history: what became true of each session's purchase
    paidIn      \* history: what each user was ever credited, refunds apart

shopVars == <<mode, pc, job, free, trace, paidIn>>
vars == <<storeVars, shopVars>>

Running == {"link", "space", "purchase", "deliver",
            "markFailed", "refund", "markDone", "balance"}
Labels == Running \cup {"idle", "end", "lost"}

(* What Buy and BuyKit return: nil, one of their own errors, one of the store's,
   or any other error. *)
Results == {"none", "ok", "notLinked", "noSpace", "deliveryFailed", "error",
            "notFound", "unavailable", "outOfStock", "insufficientFunds"}

(* The locals of Buy and BuyKit: the arguments, link, item or kit, txn, the
   loop position, and the result being returned. *)
Jobs == [user : Users \cup {None}, product : Products \cup {None},
         game : GameAccounts \cup {None}, price : Nat, lines : Nat,
         line : Nat, txn : Nat, result : Results]

Blank == [user |-> None, product |-> None, game |-> None, price |-> 0,
          lines |-> 1, line |-> 0, txn |-> 0, result |-> "none"]

(* spend: the row that charged the session (0: none); refunds: the rows that
   gave money back for it; acked: lines whose Deliver returned nil; granted:
   how often a line reached the game; hit: did a store call of it fail (one
   whose error ensureSpace ignores apart)? *)
Traces == [spend : Nat, refunds : SUBSET Nat, acked : Nat, granted : Nat,
           hit : BOOLEAN]

NoTrace == [spend |-> 0, refunds |-> {}, acked |-> 0, granted |-> 0, hit |-> FALSE]

ShopInit ==
    /\ mode = "running"
    /\ pc = [s \in Sessions |-> "idle"]
    /\ job = [s \in Sessions |-> Blank]
    /\ free = [g \in GameAccounts |-> IF Capacity < 0 THEN 0 ELSE Capacity]
    /\ trace = [s \in Sessions |-> NoTrace]
    /\ paidIn = [u \in Users |-> 0]

Init == StoreInit /\ ShopInit

-----------------------------------------------------------------------------
(* Control *)

Up == mode # "down"

(* s makes a store call, which needs a connection of the pool. *)
At(s, label) == mode = "running" /\ pc[s] = label

Step(s, label, j) ==
    /\ pc' = [pc EXCEPT ![s] = label]
    /\ job' = [job EXCEPT ![s] = j]

Goto(s, label) == Step(s, label, job[s])

(* Buy or BuyKit returns. *)
Return(s, result) == Step(s, "end", [job[s] EXCEPT !.result = result])

(* What handleBuy and handleBuyKit tell the user of a result.  Their switch has
   no case for ErrNoSpace: like any unexpected error it is returned, and the bot
   answers that something went wrong. *)
Answer(s) ==
    CASE job[s].result = "noSpace"  -> "error"
      [] job[s].result = "notFound" -> "unavailable"
      [] OTHER                      -> job[s].result

(* Mutant: return at once, settle nothing. *)
AbortUnsettled(s, result) == Return(s, result)

(* Give up the purchase: settle it as failed, then return. *)
Abort(s, result) == Step(s, "markFailed", [job[s] EXCEPT !.result = result])

Note(s, t) == trace' = [trace EXCEPT ![s] = t]

(* A store call of s returned an error. *)
Failed(s) == DBMayFail /\ Note(s, [trace[s] EXCEPT !.hit = TRUE])

IsItem(s) == job[s].product \in Items

(* Mutant: what was checked before the lock is not checked again under it. *)
ChargeUnchecked(s) ==
    LET u == job[s].user  p == job[s].product IN
    /\ shelf[p].listed /\ Has(u, shelf[p].price)
    /\ balance' = [balance EXCEPT ![u] = @ - shelf[p].price]
    /\ shelf' = [shelf EXCEPT ![p] = TakeOne(@)]
    /\ txns' = Append(txns, SpendRow(u, p))
    /\ UNCHANGED <<link, wallets, written>>

(* Purchase on catalog_items, PurchaseKit on kits. *)
Charge(s) == Purchase(job[s].user, job[s].product)

HasRoom(s) == Capacity < 0 \/ free[job[s].game] >= job[s].lines

-----------------------------------------------------------------------------
(* The calls of Buy and BuyKit, in their order *)

Request(s, u, p) ==
    /\ Up /\ pc[s] = "idle"
    /\ Step(s, "link", [Blank EXCEPT !.user = u, !.product = p])
    /\ UNCHANGED <<storeVars, mode, free, paidIn, trace>>

LinkByDiscord(s) ==
    /\ At(s, "link")
    /\ LET game == link[job[s].user] IN
       \/ game = None /\ Return(s, "notLinked") /\ UNCHANGED trace
       \/ /\ game # None
          /\ Step(s, IF IsItem(s) THEN "space" ELSE "purchase",
                  [job[s] EXCEPT !.game = game])
          /\ UNCHANGED trace
       \/ Failed(s) /\ Return(s, "error")
    /\ UNCHANGED <<storeVars, mode, free, paidIn>>

(* Mutant: a full backpack is waited for. *)
EnsureSpaceWaits(s) ==
    /\ At(s, "space")
    /\ HasRoom(s)
    /\ Goto(s, IF IsItem(s) THEN "purchase" ELSE "deliver")
    /\ UNCHANGED <<storeVars, mode, free, paidIn, trace>>

(* Mutant: a kit that does not fit is rejected as an item is, though it is
   paid for already. *)
EnsureSpaceUnsettled(s) ==
    /\ At(s, "space")
    /\ IF HasRoom(s) THEN Goto(s, IF IsItem(s) THEN "purchase" ELSE "deliver")
                     ELSE Return(s, "noSpace")
    /\ UNCHANGED <<storeVars, mode, free, paidIn, trace>>

(* ensureSpace: before the charge for an item (which needs one slot, whence the
   1 of Blank), after it for a kit.  A backpack that is not there or cannot be
   read stops nothing. *)
EnsureSpace(s) ==
    /\ At(s, "space")
    /\ \/ /\ HasRoom(s) \/ job[s].game \notin Spawned \/ DBMayFail
          /\ Goto(s, IF IsItem(s) THEN "purchase" ELSE "deliver")
       \/ /\ ~HasRoom(s) /\ job[s].game \in Spawned
          /\ IF IsItem(s) THEN Return(s, "noSpace") ELSE Abort(s, "noSpace")
    /\ UNCHANGED <<storeVars, mode, free, paidIn, trace>>

(* The spend row of s is committed, and s learns of it ... *)
Charged(s) ==
    /\ Charge(s)
    /\ Step(s, IF IsItem(s) THEN "deliver" ELSE "space",
            [job[s] EXCEPT !.price = shelf[job[s].product].price,
                           !.lines = shelf[job[s].product].lines,
                           !.txn = Len(txns')])
    /\ Note(s, [trace[s] EXCEPT !.spend = Len(txns')])

(* ... or the answer to the COMMIT is lost and s takes it for a failure. *)
ChargedUnknown(s) ==
    /\ DBMayFail
    /\ Charge(s)
    /\ Return(s, "error")
    /\ Note(s, [trace[s] EXCEPT !.spend = Len(txns'), !.hit = TRUE])

NotCharged(s) ==
    /\ LET result == PurchaseResult(job[s].user, job[s].product) IN
       \/ result # "ok" /\ Return(s, result) /\ UNCHANGED trace
       \/ Failed(s) /\ Return(s, "error")
    /\ UNCHANGED storeVars

PurchaseCall(s) ==
    /\ At(s, "purchase")
    /\ Charged(s) \/ ChargedUnknown(s) \/ NotCharged(s)
    /\ UNCHANGED <<mode, free, paidIn>>

(* Mutant: the loop over the lines stops one short. *)
DeliverStopsShort(s) ==
    /\ Up /\ pc[s] = "deliver"
    /\ Step(s, IF job[s].line + 2 < job[s].lines THEN "deliver" ELSE "markDone",
            [job[s] EXCEPT !.line = @ + 1])
    /\ Note(s, [trace[s] EXCEPT !.acked = @ + 1, !.granted = @ + 1])
    /\ UNCHANGED <<storeVars, mode, free, paidIn>>

(* One Deliver call.  A granted line takes a slot of the backpack if one is
   left. *)
Deliver(s) ==
    /\ Up /\ pc[s] = "deliver"
    /\ \E o \in Outcomes :
        /\ Note(s, [trace[s] EXCEPT !.acked = IF o.ok THEN @ + 1 ELSE @,
                                    !.granted = @ + o.grants])
        /\ free' = [free EXCEPT ![job[s].game] = IF @ > o.grants THEN @ - o.grants ELSE 0]
        /\ \/ /\ o.ok
              /\ Step(s, IF job[s].line + 1 < job[s].lines THEN "deliver" ELSE "markDone",
                      [job[s] EXCEPT !.line = @ + 1])
           \/ ~o.ok /\ Abort(s, "deliveryFailed")
    /\ UNCHANGED <<storeVars, mode, paidIn>>

(* Mutant: the early return comes before the refund. *)
MarkFailedReturns(s) ==
    /\ At(s, "markFailed")
    /\ SetDeliveryStatus(job[s].txn, "failed")
    /\ Goto(s, "end")
    /\ UNCHANGED <<mode, free, paidIn, trace>>

(* Whether the statement took effect or not, its error is dropped. *)
MarkFailed(s) ==
    /\ At(s, "markFailed")
    /\ \/ SetDeliveryStatus(job[s].txn, "failed") /\ UNCHANGED trace
       \/ Failed(s) /\ UNCHANGED storeVars
    /\ Goto(s, "refund")
    /\ UNCHANGED <<mode, free, paidIn>>

(* Mutant: the price is read again from the catalogue. *)
GiveRefundRepriced(s) ==
    /\ At(s, "refund")
    /\ Refund(job[s].user, shelf[job[s].product].price)
    /\ Note(s, [trace[s] EXCEPT !.refunds = @ \cup {Len(txns')}])
    /\ Goto(s, "end")
    /\ UNCHANGED <<mode, free, paidIn>>

(* Mutant: a refund whose answer is an error is tried again. *)
GiveRefundRetried(s) ==
    /\ At(s, "refund")
    /\ Refund(job[s].user, job[s].price)
    /\ Note(s, [trace[s] EXCEPT !.refunds = @ \cup {Len(txns')}])
    /\ Goto(s, "end") \/ (DBMayFail /\ Goto(s, "refund"))
    /\ UNCHANGED <<mode, free, paidIn>>

(* Mutant: the return after the refund is missing. *)
GiveRefundFallsThrough(s) ==
    /\ At(s, "refund")
    /\ Refund(job[s].user, job[s].price)
    /\ Note(s, [trace[s] EXCEPT !.refunds = @ \cup {Len(txns')}])
    /\ Goto(s, "markDone")
    /\ UNCHANGED <<mode, free, paidIn>>

(* The same for the refund, which the balance column may also reject. *)
GiveRefund(s) ==
    /\ At(s, "refund")
    /\ \/ /\ Refund(job[s].user, job[s].price)
          /\ Note(s, [trace[s] EXCEPT !.refunds = @ \cup {Len(txns')}])
       \/ /\ ~Fits(job[s].user, job[s].price)
          /\ Note(s, [trace[s] EXCEPT !.hit = TRUE])
          /\ UNCHANGED storeVars
       \/ Failed(s) /\ UNCHANGED storeVars
    /\ Goto(s, "end")
    /\ UNCHANGED <<mode, free, paidIn>>

MarkDone(s) ==
    /\ At(s, "markDone")
    /\ \/ /\ SetDeliveryStatus(job[s].txn, "done")
          /\ Goto(s, "balance") /\ UNCHANGED trace
       \/ /\ SetDeliveryStatus(job[s].txn, "done") \/ UNCHANGED storeVars
          /\ Failed(s) /\ Return(s, "error")
    /\ UNCHANGED <<mode, free, paidIn>>

(* The new balance is only displayed, and an error of the read is dropped. *)
ReadBalance(s) ==
    /\ At(s, "balance")
    /\ Return(s, "ok")
    /\ UNCHANGED <<storeVars, mode, free, paidIn, trace>>

-----------------------------------------------------------------------------
(* Everything else the process and the world do meanwhile *)

Crash ==
    /\ MayCrash /\ Up
    /\ mode' = "down"
    /\ pc' = [s \in Sessions |-> IF pc[s] \in Running THEN "lost" ELSE pc[s]]
    /\ UNCHANGED <<storeVars, job, free, paidIn, trace>>

Restart ==
    /\ mode = "down" /\ mode' = "running"
    /\ UNCHANGED <<storeVars, pc, job, free, paidIn, trace>>

OnSale(p) == shelf[p].listed /\ shelf[p].enabled /\ (shelf[p].limited => shelf[p].stock > 0)

(* A kit purchase holds a connection and needs another one for kitItems.  When
   the others are held by calls that wait like it, or for a row it has locked,
   no store call of the process goes on: all of them wait for a connection
   (Exhausted of StoreTx). *)
Exhaust ==
    /\ mode = "running" /\ mode' = "stalled"
    /\ \E s \in Sessions : /\ pc[s] = "purchase" /\ job[s].product \in Kits
                           /\ OnSale(job[s].product)
    /\ UNCHANGED <<storeVars, pc, job, free, paidIn, trace>>

(* One of them was a call of the dashboard or a webhook, whose client hung up.
   A call of the bot never gives up, its context is the background one. *)
Relieve ==
    /\ mode = "stalled" /\ mode' = "running"
    /\ UNCHANGED <<storeVars, pc, job, free, paidIn, trace>>

(* The player picks things up or puts them away. *)
PlayerMoves(g) ==
    /\ Capacity > 0
    /\ \E n \in 0..Capacity : n # free[g] /\ free' = [free EXCEPT ![g] = n]
    /\ UNCHANGED <<storeVars, mode, pc, job, paidIn, trace>>

(* Playtime, a vote, a payment or /grant. *)
TopUp(u, amount, kind) ==
    /\ mode = "running" /\ Len(txns) < EarnBound
    /\ Credit(u, amount, kind)
    /\ paidIn' = [paidIn EXCEPT ![u] = @ + amount]
    /\ UNCHANGED <<mode, pc, job, free, trace>>

(* /link and the catalogue commands of the bot and the dashboard. *)
Background ==
    /\ mode = "running"
    /\ Link \/ EditItem \/ EditKit \/ Toggle
    /\ UNCHANGED shopVars

SessionStep(s) ==
    \/ LinkByDiscord(s) \/ EnsureSpace(s) \/ PurchaseCall(s)
    \/ MarkFailed(s) \/ GiveRefund(s) \/ MarkDone(s) \/ ReadBalance(s)

Next ==
    \/ \E s \in Sessions, u \in Users, p \in Products : Request(s, u, p)
    \/ \E s \in Sessions : SessionStep(s) \/ Deliver(s)
    \/ \E g \in GameAccounts : PlayerMoves(g)
    \/ \E u \in Users, amount \in Amounts, kind \in {"earn", "adjust"} : TopUp(u, amount, kind)
    \/ Crash \/ Restart \/ Exhaust \/ Relieve \/ Background

(* A store call that can get a connection returns, with an error if need be, and
   its goroutine goes on.  While the pool is stalled it may wait for ever: nothing
   is assumed of Relieve.  Deliver is left out too: no engine sets a timeout, so
   that the call may never return. *)
Fairness == \A s \in Sessions : WF_vars(SessionStep(s))

Spec == Init /\ [][Next]_vars /\ Fairness

-----------------------------------------------------------------------------
(* Properties *)

(* Every variable keeps its type, and a local txn names a spend row. *)
TypeOK ==
    /\ StoreTypeOK
    /\ mode \in {"running", "stalled", "down"}
    /\ pc \in [Sessions -> Labels]
    /\ job \in [Sessions -> Jobs]
    /\ free \in [GameAccounts -> Nat]
    /\ trace \in [Sessions -> Traces]
    /\ paidIn \in [Users -> Nat]
    /\ \A s \in Sessions : job[s].txn \in 0..Len(txns)

Spend(s) == txns[trace[s].spend]

HasPaid(s) == trace[s].spend # 0

(* The purchase flow as an escrow: where the money of each session is. *)
OrderOf(s) ==
    IF HasPaid(s)
    THEN [user |-> Spend(s).acct, amount |-> -Spend(s).amount,
          state |-> IF trace[s].refunds # {} THEN "returned"
                    ELSE IF Spend(s).delivery = "done" THEN "fulfilled" ELSE "held"]
    ELSE [user |-> None, amount |-> 0, state |-> "none"]

Contract == INSTANCE Escrow WITH
    Orders <- Sessions, purse <- balance, order <- [s \in Sessions |-> OrderOf(s)]

(* The flow implements the escrow: whatever fails, stops or interleaves, a
   charge is returned in full or earned, and never both. *)
ImplementsEscrow == Contract!EscrowSpec

(* No money appears or vanishes: what a user was ever credited is in the
   wallet, on hold for a purchase, or was earned by a delivered one. *)
MoneyConserved == Contract!Conserved

(* A purchase is refunded at most once, with exactly what it cost when it was
   charged, to the account that paid, even when the item is repriced while the
   delivery runs, and never once it is marked delivered (shop.go:90,102-108,
   135-136,149-150). *)
RefundSound ==
    \A s \in Sessions :
        /\ Cardinality(trace[s].refunds) <= 1
        /\ \A n \in trace[s].refunds :
            /\ HasPaid(s)
            /\ Spend(s).delivery # "done"
            /\ txns[n].acct = Spend(s).acct
            /\ txns[n].amount = -Spend(s).amount

(* A spend row marked done is one whose engine confirmed every item line the
   kit had when it was sold (shop.go:140-154), and it was not refunded. *)
DoneMeansDelivered ==
    \A s \in Sessions :
        HasPaid(s) /\ Spend(s).delivery = "done" =>
            /\ trace[s].acked = job[s].lines
            /\ trace[s].refunds = {}

(* A session none of whose store calls failed leaves nothing half done, and its
   answer does not mislead: "bought" is said of what was paid and delivered, "you
   were refunded" of what was paid and given back, and every other answer after
   no payment, but for the generic error.  That one is said, when no call
   failed, to a full backpack only: before the charge for an item, after the
   refund for a kit (shop.go:75-160, handlers.go:190-211,262-283). *)
SettledExactly ==
    \A s \in Sessions :
        pc[s] = "end" /\ ~trace[s].hit =>
            /\ \/ ~HasPaid(s) /\ Answer(s) \notin {"ok", "deliveryFailed"}
               \/ /\ HasPaid(s) /\ Answer(s) = "ok"
                  /\ Spend(s).delivery = "done" /\ trace[s].refunds = {}
               \/ /\ HasPaid(s) /\ Answer(s) \in {"deliveryFailed", "error"}
                  /\ Spend(s).delivery = "failed" /\ trace[s].refunds # {}
            /\ Answer(s) = "error" => job[s].result = "noSpace"

(* A spend row is the payment of exactly one session, and it stays pending
   only while that session runs, or for good when the session died with the
   process or one of its store calls failed (shop.go:90-108). *)
PendingHasOwner ==
    \A n \in Rowids : txns[n].kind = "spend" =>
        \E s \in Sessions :
            /\ trace[s].spend = n
            /\ \A t \in Sessions \ {s} : trace[t].spend # n
            /\ txns[n].delivery = "pending" =>
                    pc[s] \in Running \cup {"lost"} \/ trace[s].hit

(* A purchase rejected for a full backpack, whatever its user is told of it,
   brought nothing into the game, and its money is back unless a call failed
   after the charge (shop.go:86-88,132-138). *)
NoSpaceIsClean ==
    \A s \in Sessions :
        pc[s] = "end" /\ job[s].result = "noSpace" =>
            /\ trace[s].granted = 0
            /\ HasPaid(s) => trace[s].refunds # {} \/ trace[s].hit

(* The ledger is append-only: a row is never removed or rewritten, except that
   a pending delivery is settled, once (README.md, 0001_init.sql:38,
   purchase.go:99-101, whose UPDATE does not look at the old status). *)
SettlementIsFinal ==
    [][/\ Len(txns') >= Len(txns)
       /\ \A n \in Rowids :
            \/ txns'[n] = txns[n]
            \/ /\ txns[n].delivery = "pending"
               /\ \E d \in {"done", "failed"} :
                    txns'[n] = [txns[n] EXCEPT !.delivery = d]]_vars

(* Every /buy and /buykit is answered, unless the process stops, the delivery
   engine does not return, or kit purchases exhaust the pool, on which every
   store call then waits, under a context that never ends (bot.go:65-78;
   shop.go:102,148; kits.go:175). *)
Answered ==
    \A s \in Sessions :
        pc[s] \in Running ~> pc[s] \in {"end", "lost", "deliver"} \/ mode = "stalled"

(* A purchase that is given up, for a delivery that failed or for a kit that does
   not fit, is followed by its refund, unless the process stops, a store
   call fails, or kit purchases exhaust the pool before the refund gets a
   connection (shop.go:103-104,135-136,149-150; kits.go:175). *)
AbortIsRefunded ==
    \A s \in Sessions :
        pc[s] = "markFailed" ~>
            \/ trace[s].refunds # {} \/ trace[s].hit
            \/ pc[s] = "lost" \/ mode = "stalled"

(* What comments say and the code does not do. *)

(* "If any item fails to deliver the whole purchase is refunded ...
   (all-or-nothing)" (shop.go:116-117). *)
KitAllOrNothing ==
    \A s \in Sessions : trace[s].refunds # {} => trace[s].granted = 0
=============================================================================
