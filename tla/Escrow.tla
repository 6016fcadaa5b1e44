-------------------------------- MODULE Escrow --------------------------------
(***************************************************************************)
(* What the purchase flow promises about money, with no ledger, no goods   *)
(* and no calls in it: a charge is held until it is either earned by the   *)
(* shop or returned to the payer, in full, and never both.  Nothing makes  *)
(* a held charge move: the process may stop first.                         *)
(***************************************************************************)
EXTENDS Integers, FiniteSetsExt

CONSTANTS Users, Orders, Prices, Amounts, None

VARIABLES
    purse,      \* what each user can spend
    order,      \* each order: its payer, what it cost, where that money is
    paidIn      \* what each user was ever credited, refunds apart

escrowVars == <<purse, order, paidIn>>

NoOrder == [user |-> None, amount |-> 0, state |-> "none"]

EscrowInit ==
    /\ purse = [u \in Users |-> 0]
    /\ order = [s \in Orders |-> NoOrder]
    /\ paidIn = [u \in Users |-> 0]

Deposit(u, amount) ==
    /\ purse' = [purse EXCEPT ![u] = @ + amount]
    /\ paidIn' = [paidIn EXCEPT ![u] = @ + amount]
    /\ UNCHANGED order

Hold(s, u, price) ==
    /\ order[s] = NoOrder
    /\ purse[u] >= price
    /\ purse' = [purse EXCEPT ![u] = @ - price]
    /\ order' = [order EXCEPT ![s] = [user |-> u, amount |-> price, state |-> "held"]]
    /\ UNCHANGED paidIn

Fulfil(s) ==
    /\ order[s].state = "held"
    /\ order' = [order EXCEPT ![s] = [@ EXCEPT !.state = "fulfilled"]]
    /\ UNCHANGED <<purse, paidIn>>

Return(s) ==
    /\ order[s].state = "held"
    /\ purse' = [purse EXCEPT ![order[s].user] = @ + order[s].amount]
    /\ order' = [order EXCEPT ![s] = [@ EXCEPT !.state = "returned"]]
    /\ UNCHANGED paidIn

EscrowNext ==
    \/ \E u \in Users, amount \in Amounts : Deposit(u, amount)
    \/ \E s \in Orders, u \in Users, price \in Prices : Hold(s, u, price)
    \/ \E s \in Orders : Fulfil(s) \/ Return(s)

EscrowSpec == EscrowInit /\ [][EscrowNext]_escrowVars

-----------------------------------------------------------------------------
KeptFrom(u) == {s \in Orders : order[s].user = u /\ order[s].state \in {"held", "fulfilled"}}

(* No money appears or vanishes: what a user was credited is in the purse, on
   hold for an order, or was earned by one. *)
Conserved ==
    \A u \in Users :
        paidIn[u] = purse[u] + MapThenSumSet(LAMBDA s : order[s].amount, KeptFrom(u))
=============================================================================
