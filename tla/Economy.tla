------------------------------- MODULE Economy -------------------------------
(***************************************************************************)
(* internal/economy over the store: the accrual worker, which goes through *)
(* the players online at each tick, and the vote and payment webhooks, one *)
(* goroutine per request.  Each looks an account up by its game account    *)
(* and credits the row it found, in two calls.  In between, users relink.  *)
(* A provider sends a payment again until it hears that it was credited;   *)
(* it may hang up on a request that is still being worked on.  A store     *)
(* call may fail, before its effect or after it.  The process may stop.    *)
(***************************************************************************)
EXTENDS Store, FiniteSetsExt

CONSTANTS
    Payments,       \* the votes and payments a provider reports
    Reward,         \* economy.playtime.per_minute
    MaxWork,        \* bound: ticks of the worker and requests, together
    MaxListed,      \* bound: rows the query lists
    MaxCrashes,     \* bound: times the process stops
    worker          \* the accrual worker's goroutine

Requests == Payments \X (1..MaxWork)

Processes == Requests \cup {worker}

ASSUME EconomyAssumption ==
    /\ MaxWork \in Nat /\ MaxListed \in Nat /\ MaxCrashes \in Nat
    /\ Reward \in Nat \ {0}
    /\ worker \notin Requests

VARIABLES
    pc,         \* the call each process makes next
    game,       \* the game account it is about
    acct,       \* the account it found
    code,       \* what the handler of each request answered
    client,     \* what the provider knows of each request
    order,      \* the game account, amount and soundness of each payment
    online,     \* how often the tick's query listed each game account
    todo,       \* how often the tick has still to come to it
    ticks, crashes,
    held,       \* history: who held what since each process began
    origin,     \* history: the process, game and tick of each ledger row
    clean       \* history: no call of the tick failed and nobody relinked

econVars == <<pc, game, acct, code, client, order, online, todo, ticks,
              crashes, held, origin, clean>>
vars == <<storeVars, econVars>>

(* A listing: the query may name an account several times, the default one does
   so for each of its characters. *)
Listings == {rows \in [GameAccounts -> 0..MaxListed] :
                MapThenSumSet(LAMBDA g : rows[g], GameAccounts) <= MaxListed}

Nobody == [g \in GameAccounts |-> 0]

Held == {<<u, link[u]>> : u \in {v \in Users : link[v] # None}}

Init ==
    /\ StoreInit
    /\ pc = [x \in Processes |-> "idle"]
    /\ game = [x \in Processes |-> None] /\ acct = [x \in Processes |-> None]
    /\ code = [r \in Requests |-> "none"] /\ client = [r \in Requests |-> "unsent"]
    /\ order = [p \in Payments |-> [game |-> None, amount |-> 0, sound |-> TRUE]]
    /\ online = Nobody /\ todo = Nobody
    /\ ticks = 0 /\ crashes = 0
    /\ held = [x \in Processes |-> {}]
    /\ origin = <<>> /\ clean = TRUE

Work == ticks + Cardinality({r \in Requests : client[r] # "unsent"})

Goto(x, label) == pc' = [pc EXCEPT ![x] = label]

-----------------------------------------------------------------------------
(* The provider *)

Send(p, n) ==
    /\ client[<<p, n>>] = "unsent" /\ Work < MaxWork
    /\ n > 1 => client[<<p, n - 1>>] \in {"refused", "lost"}
    /\ IF n > 1 THEN UNCHANGED order
       ELSE \E g \in GameAccounts, amount \in Amounts, sound \in BOOLEAN :
                order' = [order EXCEPT ![p] = [game |-> g, amount |-> amount, sound |-> sound]]
    /\ client' = [client EXCEPT ![<<p, n>>] = "waiting"]
    /\ Goto(<<p, n>>, "check")
    /\ held' = [held EXCEPT ![<<p, n>>] = Held]
    /\ UNCHANGED <<storeVars, game, acct, code, online, todo, ticks, crashes, origin, clean>>

Hear(r) ==
    /\ client[r] = "waiting" /\ pc[r] = "end"
    /\ client' = [client EXCEPT ![r] = IF code[r] = "ok" THEN "credited" ELSE "refused"]
    /\ UNCHANGED <<storeVars, pc, game, acct, code, order, online, todo, ticks, crashes,
                   held, origin, clean>>

(* It gives up waiting, or the connection breaks. *)
HangUp(r) ==
    /\ client[r] = "waiting"
    /\ client' = [client EXCEPT ![r] = "lost"]
    /\ UNCHANGED <<storeVars, pc, game, acct, code, order, online, todo, ticks, crashes,
                   held, origin, clean>>

-----------------------------------------------------------------------------
(* Both sources: the lookup, then the credit *)

Amount(x) == IF x = worker THEN Reward ELSE order[x[1]].amount

(* The worker goes on to the next player, a handler answers. *)
Finish(x, answer) ==
    /\ Goto(x, IF x = worker THEN "next" ELSE "end")
    /\ code' = IF x = worker THEN code ELSE [code EXCEPT ![x] = answer]

Failed(x) == Finish(x, "error") /\ clean' = (clean /\ x # worker)

(* Mutant: a player without a link is passed over by leaving the row found for
   the player before. *)
LinkByGameAccountStale(x) ==
    /\ pc[x] = "lookup"
    /\ \/ \E u \in Users : link[u] = game[x] /\ acct' = [acct EXCEPT ![x] = u]
       \/ (\A u \in Users : link[u] # game[x]) /\ acct[x] # None /\ UNCHANGED acct
    /\ Goto(x, "credit")
    /\ UNCHANGED <<storeVars, game, code, client, order, online, todo, ticks, crashes,
                   held, origin, clean>>

LinkByGameAccount(x) ==
    /\ pc[x] = "lookup"
    /\ \/ \E u \in Users : /\ link[u] = game[x]
                           /\ acct' = [acct EXCEPT ![x] = u]
                           /\ Goto(x, "credit")
                           /\ UNCHANGED <<code, clean>>
       \/ /\ \A u \in Users : link[u] # game[x]
          /\ Finish(x, "notLinked")
          /\ UNCHANGED <<acct, clean>>
       \/ Failed(x) /\ UNCHANGED acct
    /\ UNCHANGED <<storeVars, game, client, order, online, todo, ticks, crashes, held, origin>>

Paid(x) ==
    /\ Credit(acct[x], Amount(x), "earn")
    /\ origin' = Append(origin, [by |-> x, game |-> game[x], tick |-> ticks])

(* Mutant: an error of the credit is answered by crediting again. *)
CreditAccountRetries(x) ==
    /\ pc[x] = "credit"
    /\ \/ Paid(x) /\ Finish(x, "ok")
       \/ Paid(x) /\ UNCHANGED <<pc, code>>
    /\ UNCHANGED <<game, acct, client, order, online, todo, ticks, crashes, held, clean>>

(* Mutant: the answer does not wait for the credit. *)
CreditAccountUnseen(x) ==
    /\ pc[x] = "credit"
    /\ Paid(x) \/ UNCHANGED <<storeVars, origin>>
    /\ Finish(x, "ok")
    /\ UNCHANGED <<game, acct, client, order, online, todo, ticks, crashes, held, clean>>

CreditAccount(x) ==
    /\ pc[x] = "credit"
    /\ \/ Paid(x) /\ Finish(x, "ok") /\ UNCHANGED clean
       \/ (Paid(x) \/ UNCHANGED <<storeVars, origin>>) /\ Failed(x)
    /\ UNCHANGED <<game, acct, client, order, online, todo, ticks, crashes, held>>

-----------------------------------------------------------------------------
(* The webhooks: handleVote and handlePayment *)

(* Is the route enabled, the secret right, the body well-formed, the amount
   positive? *)
Handle(r) ==
    /\ pc[r] = "check"
    /\ IF order[r[1]].sound
       THEN /\ game' = [game EXCEPT ![r] = order[r[1]].game]
            /\ Goto(r, "lookup") /\ UNCHANGED code
       ELSE Finish(r, "unauthorized") /\ UNCHANGED game
    /\ UNCHANGED <<storeVars, acct, client, order, online, todo, ticks, crashes, held,
                   origin, clean>>

-----------------------------------------------------------------------------
(* The accrual worker *)

(* The ticker fires, and the query of the game's database answers. *)
OnlinePlayers ==
    /\ pc[worker] = "idle" /\ Work < MaxWork
    /\ ticks' = ticks + 1
    /\ \/ \E players \in Listings :
            online' = players /\ todo' = players /\ Goto(worker, "next") /\ clean' = TRUE
       \/ online' = Nobody /\ todo' = Nobody /\ clean' = FALSE /\ UNCHANGED pc
    /\ held' = [held EXCEPT ![worker] = Held]
    /\ UNCHANGED <<storeVars, game, acct, code, client, order, crashes, origin>>

(* Mutant: a player whose call failed stays on the list. *)
NextPlayerAgain ==
    /\ pc[worker] = "next"
    /\ \E g \in GameAccounts :
        /\ todo[g] > 0
        /\ game' = [game EXCEPT ![worker] = g]
        /\ \E keep \in BOOLEAN : todo' = IF keep THEN todo ELSE [todo EXCEPT ![g] = @ - 1]
    /\ Goto(worker, "lookup")
    /\ UNCHANGED <<storeVars, acct, code, client, order, online, ticks, crashes, held,
                   origin, clean>>

NextPlayer ==
    /\ pc[worker] = "next"
    /\ \E g \in GameAccounts : /\ todo[g] > 0
                               /\ todo' = [todo EXCEPT ![g] = @ - 1]
                               /\ game' = [game EXCEPT ![worker] = g]
    /\ Goto(worker, "lookup")
    /\ UNCHANGED <<storeVars, acct, code, client, order, online, ticks, crashes, held,
                   origin, clean>>

(* Mutant: the first player that is not credited ends the tick. *)
EndTickEarly ==
    /\ pc[worker] = "next"
    /\ Goto(worker, "idle")
    /\ UNCHANGED <<storeVars, game, acct, code, client, order, online, todo, ticks, crashes,
                   held, origin, clean>>

EndTick ==
    /\ pc[worker] = "next" /\ todo = Nobody
    /\ Goto(worker, "idle")
    /\ UNCHANGED <<storeVars, game, acct, code, client, order, online, todo, ticks, crashes,
                   held, origin, clean>>

-----------------------------------------------------------------------------
(* The environment *)

Relink(u, g) ==
    /\ link[u] # g
    /\ LinkAccount(u, g)
    /\ held' = [x \in Processes |-> held[x] \cup {<<u, g>>}]
    /\ clean' = FALSE
    /\ UNCHANGED <<pc, game, acct, code, client, order, online, todo, ticks, crashes, origin>>

(* The process stops, and is started again at once. *)
Crash ==
    /\ crashes < MaxCrashes
    /\ crashes' = crashes + 1
    /\ pc' = [x \in Processes |-> IF x = worker THEN "idle"
                                  ELSE IF pc[x] \in {"idle", "end"} THEN pc[x] ELSE "cut"]
    /\ todo' = Nobody /\ clean' = FALSE
    /\ UNCHANGED <<storeVars, game, acct, code, client, order, online, ticks, held, origin>>

Call(x) == LinkByGameAccount(x) \/ CreditAccount(x)

Tick == NextPlayer \/ EndTick \/ Call(worker)

Next ==
    \/ \E p \in Payments, n \in 1..MaxWork : Send(p, n)
    \/ \E r \in Requests : Handle(r) \/ Call(r) \/ Hear(r) \/ HangUp(r)
    \/ OnlinePlayers \/ Tick
    \/ \E u \in Users, g \in GameAccounts : Relink(u, g)
    \/ Crash

(* A store call returns and a goroutine goes on: the pool is not exhausted by kit
   purchases, which are not in this module (Exhausted of StoreTx). *)
Fairness == WF_vars(Tick) /\ \A r \in Requests : WF_vars(Handle(r) \/ Call(r))

Spec == Init /\ [][Next]_vars /\ Fairness

-----------------------------------------------------------------------------
(* Properties *)

RowsOf(r) == {n \in Rowids : origin[n].by = r}

(* What a provider was told is credited is in the ledger, for the sum it sent,
   on an account that held the game account (webhooks.go:98-102). *)
CreditedIsPaid ==
    \A p \in Payments, t \in 1..MaxWork : client[<<p, t>>] = "credited" =>
        \E n \in RowsOf(<<p, t>>) :
            /\ txns[n].amount = order[p].amount
            /\ <<txns[n].acct, order[p].game>> \in held[<<p, t>>]

(* A payment is credited twice only if one of its requests left the provider
   without an answer or with "internal error" (webhooks.go:94,99). *)
TwiceOnlyUnsure ==
    \A p \in Payments :
        Cardinality(UNION {RowsOf(<<p, t>>) : t \in 1..MaxWork}) > 1 =>
            \E t \in 1..MaxWork : client[<<p, t>>] = "lost" \/ code[<<p, t>>] = "error"

(* Rows the worker wrote in its last tick for a user and a game account. *)
PaidInTick(u, g) ==
    {n \in RowsOf(worker) : origin[n].tick = ticks /\ origin[n].game = g /\ txns[n].acct = u}

(* A tick pays a user for a game account no more often than its query listed
   it, and only if the user held it during the tick: whoever relinks, and
   however often the process stops (economy.go:57-79). *)
OncePerTick ==
    \A u \in Users, g \in GameAccounts :
        /\ Cardinality(PaidInTick(u, g)) <= online[g]
        /\ PaidInTick(u, g) # {} => <<u, g>> \in held[worker]

(* A tick in which no call failed and nobody relinked has paid every player
   as often as the query listed it, whatever happened to the others
   (economy.go:59-65). *)
CleanTickPaysAll ==
    clean /\ pc[worker] = "idle" /\ ticks > 0 =>
        \A u \in Users : link[u] # None =>
            Cardinality(PaidInTick(u, link[u])) = online[link[u]]

(* The worker comes back for the next tick and every request a handler took up
   is answered, whatever their calls return, unless the process stops or kit
   purchases exhaust the pool (economy.go:43-52, webhooks.go:88-103;
   kits.go:175). *)
WorkEnds ==
    /\ []<>(pc[worker] = "idle")
    /\ \A r \in Requests : pc[r] = "check" ~> pc[r] \in {"end", "cut"}
=============================================================================
