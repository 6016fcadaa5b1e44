---------------------------- MODULE Economy_proofs ----------------------------
(* Proofs about Economy: what a provider was told, what a payment sent again can
   do, and what a tick pays, for any number of users, payments and ticks. *)
EXTENDS Economy, Store_proofs

-----------------------------------------------------------------------------
(* The inductive invariant *)

Labels == {"idle", "check", "lookup", "credit", "end", "cut", "next"}

Origins == [by : Processes, game : GameAccounts, tick : Nat]

EconTypes ==
    /\ StoreTypeOK
    /\ pc \in [Processes -> Labels]
    /\ game \in [Processes -> GameAccounts \cup {None}]
    /\ acct \in [Processes -> Users \cup {None}]
    /\ code \in [Requests -> {"none", "ok", "error", "notLinked", "unauthorized"}]
    /\ client \in [Requests -> {"unsent", "waiting", "credited", "refused", "lost"}]
    /\ order \in [Payments -> [game : GameAccounts \cup {None}, amount : Nat, sound : BOOLEAN]]
    /\ online \in [GameAccounts -> Nat] /\ todo \in [GameAccounts -> Nat]
    /\ ticks \in Nat /\ clean \in BOOLEAN
    /\ held \in [Processes -> SUBSET (Users \X GameAccounts)]
    /\ origin \in Seq(Origins) /\ Len(origin) = Len(txns)

(* A provider sends the next request of a payment when it knows that the last
   one failed, or does not know. *)
SentInOrder ==
    \A p \in Payments : \A n \in 1..MaxWork : client[<<p, n>>] # "unsent" =>
        /\ order[p].game \in GameAccounts
        /\ \A m \in 1..(n - 1) : client[<<p, m>>] \in {"refused", "lost"}

(* A request is taken up once, and answered once. *)
Request(r) ==
    /\ pc[r] \in {"idle", "check", "lookup", "credit", "end", "cut"}
    /\ pc[r] = "idle" <=> client[r] = "unsent"
    /\ pc[r] # "end" => code[r] = "none"
    /\ client[r] = "credited" => code[r] = "ok"
    /\ client[r] = "refused" => pc[r] = "end" /\ code[r] # "ok"
    /\ pc[r] \in {"lookup", "credit"} => game[r] = order[r[1]].game

(* What a process works on it found linked after it began. *)
FoundLinked(x) ==
    /\ pc[x] \in {"lookup", "credit"} => game[x] \in GameAccounts
    /\ pc[x] = "credit" => acct[x] \in Users /\ <<acct[x], game[x]>> \in held[x]

Begun(x) == IF x = worker THEN ticks > 0 ELSE client[x] # "unsent"

(* Everyone that held a game account since a process began is in its history. *)
HeldKept == \A x \in Processes : Begun(x) => Held \subseteq held[x]

WorkerFine ==
    /\ pc[worker] \in {"idle", "next", "lookup", "credit"}
    /\ pc[worker] # "idle" => ticks > 0
    /\ pc[worker] = "idle" => \A g \in GameAccounts : todo[g] = 0

(* A row that a request wrote is its only one, and the payment's; a row of the
   last tick is of a player who held the game account during it. *)
RowFine(n) ==
    LET x == origin[n].by IN
    /\ origin[n].tick <= ticks
    /\ x # worker =>
        /\ pc[x] = "end" /\ code[x] \in {"ok", "error"}
        /\ txns[n].amount = order[x[1]].amount
        /\ origin[n].game = order[x[1]].game
        /\ \A m \in Rowids : origin[m].by = x => m = n
    /\ x # worker \/ origin[n].tick = ticks =>
        <<txns[n].acct, origin[n].game>> \in held[x]

OkIsPaid == \A r \in Requests : code[r] = "ok" => RowsOf(r) # {}

LinksSingle == \A u, v \in Users : u # v /\ link[u] # None => link[u] # link[v]

PayInv ==
    /\ EconTypes /\ SentInOrder /\ HeldKept /\ WorkerFine /\ OkIsPaid /\ LinksSingle
    /\ \A r \in Requests : Request(r)
    /\ \A x \in Processes : FoundLinked(x)
    /\ \A n \in Rowids : RowFine(n)

(* The tick as a count: what is paid, is in hand or is still to come. *)
InHand(g) == IF pc[worker] \in {"lookup", "credit"} /\ game[worker] = g THEN 1 ELSE 0

PaidFor(g) == {n \in RowsOf(worker) : origin[n].tick = ticks /\ origin[n].game = g}

TickInv ==
    /\ \A g \in GameAccounts : Cardinality(PaidFor(g)) + todo[g] + InHand(g) <= online[g]
    /\ clean => \A u \in Users, g \in GameAccounts : link[u] = g =>
        Cardinality(PaidInTick(u, g)) + todo[g] + InHand(g) = online[g]
    /\ clean /\ pc[worker] = "credit" => link[acct[worker]] = game[worker]

-----------------------------------------------------------------------------
(* Requests and rows *)

LEMMA RequestOf ==
    /\ \A p \in Payments : \A n \in 1..MaxWork : <<p, n>> \in Requests
    /\ \A r \in Requests :
        /\ r \in Processes /\ r # worker
        /\ r[1] \in Payments /\ r[2] \in 1..MaxWork /\ r = <<r[1], r[2]>>
    /\ worker \in Processes
    /\ \A x \in Processes : x # worker => x \in Requests
  BY EconomyAssumption DEF EconomyAssumption, Requests, Processes

LEMMA RowTypes ==
    ASSUME EconTypes, NEW n \in Rowids
    PROVE  /\ txns[n] \in Rows /\ origin[n] \in Origins
           /\ origin[n].by \in Processes /\ origin[n].tick \in Nat
<1>1. txns \in Seq(Rows) /\ origin \in Seq(Origins) /\ n \in 1..Len(txns) /\ n \in 1..Len(origin)
  BY DEF EconTypes, StoreTypeOK, Rowids
<1>2. origin[n] \in Origins
  BY <1>1
<1> QED
  BY <1>1, <1>2 DEF Origins

(* A step that writes no row leaves the rows what they are. *)
LEMMA RowsKeep ==
    ASSUME PayInv, UNCHANGED <<txns, origin>>,
           \A r \in Requests : pc[r] = "end" =>
                /\ pc'[r] = "end" /\ code'[r] = code[r]
                /\ order'[r[1]] = order[r[1]] /\ held[r] \subseteq held'[r],
           ticks' \in Nat,
           \/ ticks' = ticks /\ held[worker] \subseteq held'[worker]
           \/ ticks' > ticks
    PROVE  \A n \in Rowids' : RowFine(n)'
<1>1. Rowids' = Rowids
  BY DEF Rowids
<1> SUFFICES ASSUME NEW n \in Rowids
             PROVE  RowFine(n)'
  BY <1>1
<1> DEFINE x == origin[n].by
<1>2. RowFine(n) /\ x \in Processes /\ origin[n].tick \in Nat /\ ticks \in Nat
  BY RowTypes DEF PayInv, EconTypes
<1>3. CASE x # worker
  <2>1. x \in Requests /\ pc[x] = "end" /\ origin[n].tick <= ticks
    BY <1>2, <1>3, RequestOf DEF RowFine
  <2>2. origin[n].tick <= ticks'
    BY <1>2, <2>1
  <2> QED
    BY <1>1, <1>2, <1>3, <2>1, <2>2 DEF RowFine
<1>4. CASE x = worker
  <2>1. origin[n].tick <= ticks /\ origin[n].tick <= ticks'
    BY <1>2 DEF RowFine
  <2>2. origin[n].tick = ticks' => ticks' = ticks /\ held[worker] \subseteq held'[worker]
    BY <1>2, <2>1
  <2> QED
    BY <1>2, <1>4, <2>1, <2>2 DEF RowFine
<1> QED
  BY <1>3, <1>4

LEMMA PaidKept ==
    ASSUME OkIsPaid, UNCHANGED <<txns, origin>>,
           \A r \in Requests : code'[r] = "ok" => code[r] = "ok"
    PROVE  OkIsPaid'
  BY DEF OkIsPaid, RowsOf, Rowids

-----------------------------------------------------------------------------
(* The provider *)

LEMMA SendKeeps ==
    ASSUME PayInv, NEW p \in Payments, NEW n \in 1..MaxWork, Send(p, n)
    PROVE  PayInv'
<1> DEFINE r == <<p, n>>
<1>1. r \in Requests /\ r[1] = p /\ r # worker /\ r \in Processes
  BY RequestOf
<1>2. /\ EconTypes /\ client[r] = "unsent" /\ pc[r] = "idle" /\ code[r] = "none"
      /\ client' = [client EXCEPT ![r] = "waiting"]
      /\ pc' = [pc EXCEPT ![r] = "check"]
      /\ held' = [held EXCEPT ![r] = Held]
      /\ n > 1 => client[<<p, n - 1>>] \in {"refused", "lost"}
      /\ UNCHANGED <<storeVars, game, acct, code, online, todo, ticks, crashes, origin, clean>>
  BY <1>1 DEF Send, Goto, PayInv, Request
<1>3. Held \subseteq Users \X GameAccounts
  BY <1>2 DEF Held, EconTypes, StoreTypeOK
<1>4. /\ order' \in [Payments -> [game : GameAccounts \cup {None}, amount : Nat, sound : BOOLEAN]]
      /\ \A q \in Payments \ {p} : order'[q] = order[q]
      /\ n > 1 => order' = order
      /\ n = 1 => order'[p].game \in GameAccounts
  <2>1. CASE n > 1
    BY <1>2, <2>1 DEF Send, EconTypes
  <2>2. CASE ~(n > 1)
    <3>1. PICK g \in GameAccounts, amount \in Amounts, sound \in BOOLEAN :
            order' = [order EXCEPT ![p] = [game |-> g, amount |-> amount, sound |-> sound]]
      BY <2>2 DEF Send
    <3>2. amount \in Nat
      BY StoreAssumption DEF StoreAssumption
    <3> QED
      BY <1>2, <2>2, <3>1, <3>2 DEF EconTypes
  <2> QED
    BY <2>1, <2>2
<1>5. EconTypes'
  <2>1. StoreTypeOK'
    BY <1>2 DEF EconTypes, StoreTypeOK, storeVars
  <2> QED
    BY <1>1, <1>2, <1>3, <1>4, <2>1 DEF EconTypes, Labels, storeVars
<1>6. \A q \in Requests : q # r =>
        /\ client'[q] = client[q] /\ pc'[q] = pc[q] /\ held'[q] = held[q]
        /\ client[q] # "unsent" => order'[q[1]] = order[q[1]]
  <2> SUFFICES ASSUME NEW q \in Requests, q # r
               PROVE  /\ client'[q] = client[q] /\ pc'[q] = pc[q] /\ held'[q] = held[q]
                      /\ client[q] # "unsent" => order'[q[1]] = order[q[1]]
    OBVIOUS
  <2>1. client'[q] = client[q] /\ pc'[q] = pc[q] /\ held'[q] = held[q]
    BY <1>2, RequestOf DEF EconTypes
  <2>2. CASE q[1] = p /\ n = 1
    <3>1. q[2] \in 1..MaxWork /\ q = <<p, q[2]>> /\ q[2] # 1
      BY <2>2, RequestOf
    <3>2. client[q] # "unsent" => client[<<p, 1>>] \in {"refused", "lost"}
      BY <3>1 DEF PayInv, SentInOrder
    <3> QED
      BY <1>2, <2>1, <2>2, <3>2
  <2>3. CASE ~(q[1] = p /\ n = 1)
    <3>1. order'[q[1]] = order[q[1]]
      BY <1>4, <2>3, RequestOf
    <3> QED
      BY <2>1, <3>1
  <2> QED
    BY <2>2, <2>3
<1>7. SentInOrder'
  <2> SUFFICES ASSUME NEW q \in Payments, NEW m \in 1..MaxWork, client'[<<q, m>>] # "unsent"
               PROVE  /\ order'[q].game \in GameAccounts
                      /\ \A k \in 1..(m - 1) : client'[<<q, k>>] \in {"refused", "lost"}
    BY DEF SentInOrder
  <2>1. CASE <<q, m>> # r
    <3>1. <<q, m>> \in Requests /\ client[<<q, m>>] # "unsent"
      BY <1>6, <2>1, RequestOf
    <3>2. /\ order[q].game \in GameAccounts
          /\ \A k \in 1..(m - 1) : client[<<q, k>>] \in {"refused", "lost"}
      BY <3>1 DEF PayInv, SentInOrder
    <3>3. order'[q] = order[q]
      BY <1>6, <2>1, <3>1
    <3>4. ASSUME NEW k \in 1..(m - 1)
          PROVE  client'[<<q, k>>] \in {"refused", "lost"}
      <4>1. k \in 1..MaxWork /\ <<q, k>> \in Requests
        BY RequestOf, EconomyAssumption DEF EconomyAssumption
      <4> QED
        BY <1>2, <1>6, <3>2, <4>1
    <3> QED
      BY <3>2, <3>3, <3>4
  <2>2. CASE <<q, m>> = r
    <3>1. q = p /\ m = n
      BY <2>2
    <3>2. CASE n = 1
      BY <1>4, <3>1, <3>2
    <3>3. CASE n > 1
      <4>1. n - 1 \in 1..MaxWork /\ client[<<p, n - 1>>] \in {"refused", "lost"}
        BY <1>2, <3>3, EconomyAssumption DEF EconomyAssumption
      <4>2. /\ order[p].game \in GameAccounts
            /\ \A k \in 1..(n - 1 - 1) : client[<<p, k>>] \in {"refused", "lost"}
        BY <4>1 DEF PayInv, SentInOrder
      <4>3. \A k \in 1..(n - 1) : client[<<p, k>>] \in {"refused", "lost"}
        BY <4>1, <4>2
      <4>4. ASSUME NEW k \in 1..(n - 1)
            PROVE  client'[<<p, k>>] \in {"refused", "lost"}
        <5>1. k \in 1..MaxWork /\ <<p, k>> \in Requests /\ <<p, k>> # r
          BY RequestOf, EconomyAssumption DEF EconomyAssumption
        <5> QED
          BY <1>6, <4>3, <5>1
      <4> QED
        BY <1>4, <3>1, <3>3, <4>2, <4>4
    <3> QED
      BY <3>2, <3>3
  <2> QED
    BY <2>1, <2>2
<1>8. \A q \in Requests : Request(q)'
  <2> SUFFICES ASSUME NEW q \in Requests
               PROVE  Request(q)'
    OBVIOUS
  <2>1. Request(q) /\ q \in Processes
    BY RequestOf DEF PayInv
  <2>2. CASE q = r
    BY <1>1, <1>2, <2>2 DEF Request, EconTypes
  <2>3. CASE q # r
    BY <1>2, <1>6, <2>1, <2>3 DEF Request
  <2> QED
    BY <2>2, <2>3
<1>9. \A x \in Processes : x # r => pc'[x] = pc[x] /\ held'[x] = held[x]
  BY <1>2 DEF EconTypes
<1>10. \A x \in Processes : FoundLinked(x)'
  <2> SUFFICES ASSUME NEW x \in Processes
               PROVE  FoundLinked(x)'
    OBVIOUS
  <2>1. CASE x = r
    BY <1>1, <1>2, <2>1 DEF FoundLinked, EconTypes
  <2>2. CASE x # r
    BY <1>2, <1>9, <2>2 DEF FoundLinked, PayInv
  <2> QED
    BY <2>1, <2>2
<1>11. HeldKept'
  <2>1. Held' = Held
    BY <1>2 DEF Held, storeVars
  <2> SUFFICES ASSUME NEW x \in Processes, Begun(x)'
               PROVE  Held \subseteq held'[x]
    BY <2>1 DEF HeldKept
  <2>2. CASE x = r
    BY <1>1, <1>2, <2>2 DEF EconTypes
  <2>3. CASE x # r
    <3>1. Begun(x)
      BY <1>2, <1>6, <2>3, RequestOf DEF Begun
    <3> QED
      BY <1>9, <2>3, <3>1 DEF PayInv, HeldKept
  <2> QED
    BY <2>2, <2>3
<1>12. WorkerFine' /\ LinksSingle'
  BY <1>1, <1>2, <1>9, RequestOf DEF PayInv, WorkerFine, LinksSingle, storeVars
<1>13. \A k \in Rowids' : RowFine(k)'
  <2>1. \A q \in Requests : pc[q] = "end" =>
            q # r /\ client[q] # "unsent"
    BY <1>2 DEF PayInv, Request
  <2> QED
    BY <1>1, <1>2, <1>6, <1>9, <2>1, RequestOf, RowsKeep DEF storeVars, EconTypes
<1>14. OkIsPaid'
  BY <1>2, PaidKept DEF PayInv, storeVars
<1> QED
  BY <1>5, <1>7, <1>8, <1>10, <1>11, <1>12, <1>13, <1>14 DEF PayInv

(* A step that writes no row, sends nothing and changes nobody's link. *)
LEMMA QuietKeeps ==
    ASSUME PayInv, EconTypes',
           UNCHANGED <<storeVars, origin, order, held, ticks>>,
           \A r \in Requests :
                /\ client'[r] = "unsent" <=> client[r] = "unsent"
                /\ client[r] \in {"refused", "lost"} => client'[r] = client[r]
                /\ pc[r] = "end" => pc'[r] = "end" /\ code'[r] = code[r]
                /\ code'[r] = "ok" => code[r] = "ok"
                /\ Request(r)',
           \A x \in Processes : FoundLinked(x)',
           WorkerFine'
    PROVE  PayInv'
<1>1. SentInOrder'
  <2> SUFFICES ASSUME NEW p \in Payments, NEW n \in 1..MaxWork, client'[<<p, n>>] # "unsent"
               PROVE  /\ order[p].game \in GameAccounts
                      /\ \A m \in 1..(n - 1) : client'[<<p, m>>] \in {"refused", "lost"}
    BY DEF SentInOrder
  <2>1. client[<<p, n>>] # "unsent"
    BY RequestOf
  <2>2. /\ order[p].game \in GameAccounts
        /\ \A m \in 1..(n - 1) : client[<<p, m>>] \in {"refused", "lost"}
    BY <2>1 DEF PayInv, SentInOrder
  <2>3. \A m \in 1..(n - 1) : <<p, m>> \in Requests
    BY RequestOf, EconomyAssumption DEF EconomyAssumption
  <2> QED
    BY <2>2, <2>3
<1>2. HeldKept'
  <2>1. Held' = Held /\ \A x \in Processes : Begun(x)' => Begun(x)
    BY RequestOf DEF Held, Begun, storeVars
  <2> QED
    BY <2>1 DEF PayInv, HeldKept
<1>3. LinksSingle' /\ OkIsPaid'
  BY PaidKept DEF PayInv, LinksSingle, storeVars
<1>4. \A n \in Rowids' : RowFine(n)'
  BY RowsKeep DEF storeVars, PayInv, EconTypes
<1> QED
  BY <1>1, <1>2, <1>3, <1>4 DEF PayInv

LEMMA HearKeeps ==
    ASSUME PayInv, NEW r \in Requests, NEW heard \in {"credited", "refused", "lost"},
           client[r] = "waiting", client' = [client EXCEPT ![r] = heard],
           heard # "lost" => pc[r] = "end",
           heard = "credited" <=> heard # "lost" /\ code[r] = "ok",
           UNCHANGED <<storeVars, pc, game, acct, code, order, online, todo, ticks, crashes,
                       held, origin, clean>>
    PROVE  PayInv'
<1>1. EconTypes'
  <2>1. StoreTypeOK'
    BY DEF PayInv, EconTypes, StoreTypeOK, storeVars
  <2> QED
    BY <2>1 DEF PayInv, EconTypes, storeVars
<1>2. \A q \in Requests : client'[q] = IF q = r THEN heard ELSE client[q]
  BY DEF PayInv, EconTypes
<1>3. \A q \in Requests : Request(q)'
  BY <1>2 DEF PayInv, Request
<1>4. (\A x \in Processes : FoundLinked(x)') /\ WorkerFine'
  BY DEF PayInv, FoundLinked, WorkerFine
<1> QED
  BY <1>1, <1>2, <1>3, <1>4, QuietKeeps

-----------------------------------------------------------------------------
(* A process at work *)

(* A process goes on without writing a row. *)
LEMMA GoOnKeeps ==
    ASSUME PayInv, NEW x \in Processes, pc[x] \in {"check", "next", "lookup", "credit"},
           NEW label \in Labels, Goto(x, label),
           UNCHANGED <<storeVars, origin, order, held, ticks, client, online>>,
           game' \in [Processes -> GameAccounts \cup {None}],
           acct' \in [Processes -> Users \cup {None}],
           code' \in [Requests -> {"none", "ok", "error", "notLinked", "unauthorized"}],
           todo' \in [GameAccounts -> Nat], clean' \in BOOLEAN,
           \A y \in Processes \ {x} : game'[y] = game[y] /\ acct'[y] = acct[y],
           \A r \in Requests \ {x} : code'[r] = code[r],
           x # worker =>
                /\ label \in {"lookup", "credit", "end"}
                /\ code'[x] # "ok" /\ (label # "end" => code'[x] = "none")
                /\ label # "end" => game'[x] = order[x[1]].game
                /\ todo' = todo,
           x = worker =>
                /\ label \in {"idle", "next", "lookup", "credit"}
                /\ label = "idle" => \A g \in GameAccounts : todo'[g] = 0,
           label \in {"lookup", "credit"} => game'[x] \in GameAccounts,
           label = "credit" => acct'[x] \in Users /\ <<acct'[x], game'[x]>> \in held[x]
    PROVE  PayInv'
<1>1. EconTypes'
  <2>1. StoreTypeOK'
    BY DEF PayInv, EconTypes, StoreTypeOK, storeVars
  <2> QED
    BY <2>1 DEF PayInv, EconTypes, storeVars, Goto
<1>2. \A y \in Processes : pc'[y] = IF y = x THEN label ELSE pc[y]
  BY DEF PayInv, EconTypes, Goto
<1>3. ASSUME NEW r \in Requests
      PROVE  /\ Request(r)'
             /\ pc[r] = "end" => pc'[r] = "end" /\ code'[r] = code[r]
             /\ code'[r] = "ok" => code[r] = "ok"
  <2>1. Request(r) /\ r \in Processes /\ r # worker
    BY RequestOf DEF PayInv
  <2>2. CASE r = x
    <3>1. client[r] \notin {"unsent", "refused", "credited"} /\ code[r] = "none"
      BY <2>1, <2>2 DEF Request
    <3> QED
      BY <1>2, <2>1, <2>2, <3>1 DEF Request
  <2>3. CASE r # x
    BY <1>2, <2>1, <2>3 DEF Request
  <2> QED
    BY <2>2, <2>3
<1>4. ASSUME NEW y \in Processes
      PROVE  FoundLinked(y)'
  BY <1>2 DEF PayInv, FoundLinked
<1>5. WorkerFine'
  <2>1. CASE x = worker
    <3>1. ticks > 0
      BY <2>1 DEF PayInv, WorkerFine
    <3> QED
      BY <1>2, <2>1, <3>1 DEF WorkerFine
  <2>2. CASE x # worker
    BY <1>2, <2>2, RequestOf DEF PayInv, WorkerFine
  <2> QED
    BY <2>1, <2>2
<1> QED
  BY <1>1, <1>3, <1>4, <1>5, QuietKeeps

(* A process answers without having written a row. *)
LEMMA FinishKeeps ==
    ASSUME PayInv, NEW x \in Processes, pc[x] \in {"check", "lookup", "credit"},
           NEW answer \in {"error", "notLinked", "unauthorized"}, Finish(x, answer),
           UNCHANGED <<storeVars, origin, order, held, ticks, client, online, game, acct, todo>>,
           clean' \in BOOLEAN
    PROVE  PayInv'
<1>1. EconTypes
  BY DEF PayInv
<1>2. CASE x = worker
  <2>1. Goto(x, "next") /\ code' = code
    BY <1>2 DEF Finish
  <2> QED
    BY <1>1, <1>2, <2>1, GoOnKeeps DEF EconTypes, Labels
<1>3. CASE x # worker
  <2>1. Goto(x, "end") /\ code' = [code EXCEPT ![x] = answer] /\ x \in Requests
    BY <1>3, RequestOf DEF Finish
  <2>2. /\ code' \in [Requests -> {"none", "ok", "error", "notLinked", "unauthorized"}]
        /\ code'[x] # "ok" /\ \A r \in Requests \ {x} : code'[r] = code[r]
    BY <1>1, <2>1 DEF EconTypes
  <2> QED
    BY <1>1, <1>3, <2>1, <2>2, GoOnKeeps DEF EconTypes, Labels
<1> QED
  BY <1>2, <1>3

LEMMA LookupKeeps ==
    ASSUME PayInv, NEW x \in Processes, LinkByGameAccount(x)
    PROVE  PayInv'
<1>1. /\ EconTypes /\ pc[x] = "lookup" /\ game[x] \in GameAccounts
      /\ UNCHANGED <<storeVars, game, client, order, online, todo, ticks, crashes, held, origin>>
  BY DEF LinkByGameAccount, PayInv, FoundLinked
<1>2. ASSUME NEW u \in Users, link[u] = game[x], acct' = [acct EXCEPT ![x] = u],
             Goto(x, "credit"), UNCHANGED <<code, clean>>
      PROVE  PayInv'
  <2>1. <<u, game[x]>> \in Held
    <3>1. link[u] # None
      BY <1>1, <1>2, StoreAssumption DEF StoreAssumption
    <3> QED
      BY <1>2, <3>1 DEF Held
  <2>2. Begun(x)
    BY <1>1, RequestOf DEF PayInv, WorkerFine, Request, Begun
  <2>3. <<u, game[x]>> \in held[x]
    BY <2>1, <2>2 DEF PayInv, HeldKept
  <2>4. x # worker => /\ x \in Requests /\ code[x] = "none"
                      /\ game[x] = order[x[1]].game
    BY <1>1, RequestOf DEF PayInv, Request
  <2>5. acct' \in [Processes -> Users \cup {None}] /\ acct'[x] = u
        /\ \A y \in Processes \ {x} : acct'[y] = acct[y]
    BY <1>1, <1>2 DEF EconTypes
  <2> QED
    BY <1>1, <1>2, <2>3, <2>4, <2>5, GoOnKeeps DEF EconTypes, Labels
<1>3. CASE Finish(x, "notLinked") /\ UNCHANGED <<acct, clean>>
  BY <1>1, <1>3, FinishKeeps DEF EconTypes
<1>4. CASE Failed(x) /\ UNCHANGED acct
  BY <1>1, <1>4, FinishKeeps DEF EconTypes, Failed
<1> QED
  BY <1>2, <1>3, <1>4 DEF LinkByGameAccount

LEMMA HandleKeeps ==
    ASSUME PayInv, NEW r \in Requests, Handle(r)
    PROVE  PayInv'
<1>1. /\ EconTypes /\ pc[r] = "check" /\ r \in Processes /\ r # worker
      /\ UNCHANGED <<storeVars, acct, client, order, online, todo, ticks, crashes, held,
                     origin, clean>>
  BY RequestOf DEF Handle, PayInv
<1>2. CASE /\ game' = [game EXCEPT ![r] = order[r[1]].game]
           /\ Goto(r, "lookup") /\ UNCHANGED code
  <2>1. client[r] # "unsent" /\ code[r] = "none"
    BY <1>1 DEF PayInv, Request
  <2>2. order[r[1]].game \in GameAccounts
    BY <2>1, RequestOf DEF PayInv, SentInOrder
  <2>3. /\ game' \in [Processes -> GameAccounts \cup {None}] /\ game'[r] = order[r[1]].game
        /\ \A y \in Processes \ {r} : game'[y] = game[y]
    BY <1>1, <1>2, <2>2 DEF EconTypes
  <2> QED
    BY <1>1, <1>2, <2>1, <2>2, <2>3, GoOnKeeps DEF EconTypes, Labels
<1>3. CASE Finish(r, "unauthorized") /\ UNCHANGED game
  BY <1>1, <1>3, FinishKeeps DEF EconTypes
<1> QED
  BY <1>2, <1>3 DEF Handle

-----------------------------------------------------------------------------
(* The credit writes one row, the last of the ledger. *)

LEMMA RowAdded ==
    ASSUME EconTypes, NEW x \in Processes, Paid(x)
    PROVE  /\ Len(txns) + 1 \in Nat /\ Len(txns) + 1 \notin Rowids
           /\ Rowids' = Rowids \cup {Len(txns) + 1}
           /\ \A n \in Rowids : txns'[n] = txns[n] /\ origin'[n] = origin[n]
           /\ txns'[Len(txns) + 1].acct = acct[x]
           /\ txns'[Len(txns) + 1].amount = Amount(x)
           /\ origin'[Len(txns) + 1] = [by |-> x, game |-> game[x], tick |-> ticks]
           /\ Len(origin') = Len(txns')
<1> DEFINE row == [acct |-> acct[x], kind |-> "earn", amount |-> Amount(x),
                   product |-> None, delivery |-> "none"]
           from == [by |-> x, game |-> game[x], tick |-> ticks]
<1>1. /\ txns \in Seq(Rows) /\ origin \in Seq(Origins) /\ Len(origin) = Len(txns)
      /\ txns' = Append(txns, row) /\ origin' = Append(origin, from)
  BY DEF EconTypes, StoreTypeOK, Paid, Credit
<1> HIDE DEF row, from
<1>2. /\ Len(txns) \in Nat
      /\ Len(txns') = Len(txns) + 1 /\ Len(origin') = Len(txns) + 1
      /\ \A n \in 1..Len(txns) : txns'[n] = txns[n] /\ origin'[n] = origin[n]
      /\ txns'[Len(txns) + 1] = row /\ origin'[Len(txns) + 1] = from
  BY <1>1
<1>3. Rowids' = 1..(Len(txns) + 1)
  BY <1>2 DEF Rowids
<1> QED
  BY <1>2, <1>3 DEF Rowids, row, from

LEMMA PaidKeeps ==
    ASSUME PayInv, NEW x \in Processes, pc[x] = "credit", Paid(x),
           NEW answer \in {"ok", "error"}, Finish(x, answer), clean' \in BOOLEAN,
           UNCHANGED <<game, acct, client, order, online, todo, ticks, crashes, held>>
    PROVE  PayInv'
<1>1. /\ EconTypes /\ WorkerFine /\ OkIsPaid
      /\ game[x] \in GameAccounts /\ acct[x] \in Users /\ <<acct[x], game[x]>> \in held[x]
  BY DEF PayInv, FoundLinked
<1>2. PICK N \in Nat :
        /\ N \notin Rowids /\ Rowids' = Rowids \cup {N}
        /\ \A n \in Rowids : txns'[n] = txns[n] /\ origin'[n] = origin[n]
        /\ txns'[N].acct = acct[x] /\ txns'[N].amount = Amount(x)
        /\ origin'[N] = [by |-> x, game |-> game[x], tick |-> ticks]
        /\ Len(origin') = Len(txns')
  BY <1>1, RowAdded
<1>3. UNCHANGED <<link, wallets>>
  BY DEF Paid, Credit
<1>4. /\ \A y \in Processes : pc'[y] = IF y # x THEN pc[y]
                                       ELSE IF x = worker THEN "next" ELSE "end"
      /\ pc' \in [Processes -> Labels]
  BY <1>1 DEF EconTypes, Finish, Goto, Labels
<1>5. /\ \A r \in Requests : code'[r] = IF r = x THEN answer ELSE code[r]
      /\ code' \in [Requests -> {"none", "ok", "error", "notLinked", "unauthorized"}]
  <2>1. CASE x = worker
    BY <1>1, <2>1, RequestOf DEF EconTypes, Finish
  <2>2. CASE x # worker
    BY <1>1, <2>2, RequestOf DEF EconTypes, Finish
  <2> QED
    BY <2>1, <2>2
<1>6. EconTypes'
  <2>1. Amount(x) \in Nat
    BY <1>1, RequestOf, EconomyAssumption DEF Amount, EconTypes, EconomyAssumption
  <2>2. StoreTypeOK'
    BY <1>1, <2>1, CreditType DEF Paid, TxnKinds, EconTypes
  <2>3. origin' \in Seq(Origins)
    <3>1. [by |-> x, game |-> game[x], tick |-> ticks] \in Origins
      BY <1>1 DEF Origins, EconTypes
    <3> QED
      BY <1>1, <3>1 DEF EconTypes, Paid
  <2> QED
    BY <1>1, <1>2, <1>4, <1>5, <2>2, <2>3 DEF EconTypes
<1>7. SentInOrder' /\ LinksSingle'
  BY <1>3 DEF PayInv, SentInOrder, LinksSingle
<1>8. HeldKept'
  BY <1>3 DEF PayInv, HeldKept, Held, Begun
<1>9. WorkerFine'
  BY <1>1, <1>4, RequestOf DEF WorkerFine
<1>10. OkIsPaid'
  <2> SUFFICES ASSUME NEW r \in Requests, code'[r] = "ok"
               PROVE  \E n \in Rowids' : origin'[n].by = r
    BY DEF OkIsPaid, RowsOf
  <2>1. CASE r = x
    BY <1>2, <2>1
  <2>2. CASE r # x
    BY <1>1, <1>2, <1>5, <2>2 DEF OkIsPaid, RowsOf
  <2> QED
    BY <2>1, <2>2
<1>11. ASSUME NEW r \in Requests
       PROVE  Request(r)'
  <2>1. Request(r) /\ r \in Processes /\ r # worker
    BY RequestOf DEF PayInv
  <2> QED
    BY <1>4, <1>5, <2>1 DEF Request
<1>12. ASSUME NEW y \in Processes
       PROVE  FoundLinked(y)'
  BY <1>4 DEF PayInv, FoundLinked
<1>13. ASSUME NEW n \in Rowids, RowFine(n)
       PROVE  RowFine(n)'
  <2> DEFINE y == origin[n].by
  <2>1. y \in Processes /\ origin'[n].by = y
    BY <1>1, <1>2, RowTypes
  <2>2. y # worker => y \in Requests /\ y # x
    BY <1>13, <2>1, RequestOf DEF RowFine
  <2>3. y # worker => \A m \in Rowids' : origin'[m].by = y => m = n
    BY <1>2, <1>13, <2>2 DEF RowFine
  <2> QED
    BY <1>2, <1>4, <1>5, <1>13, <2>1, <2>2, <2>3 DEF RowFine
<1>14. RowFine(N)'
  <2>1. origin'[N].tick <= ticks
    BY <1>1, <1>2 DEF EconTypes
  <2>2. ASSUME x # worker
        PROVE  /\ Amount(x) = order[x[1]].amount /\ game[x] = order[x[1]].game
               /\ pc'[x] = "end" /\ code'[x] = answer
               /\ \A m \in Rowids' : origin'[m].by = x => m = N
    <3>1. x \in Requests /\ Request(x)
      BY <2>2, RequestOf DEF PayInv
    <3>2. \A m \in Rowids : origin[m].by # x
      BY <2>2 DEF PayInv, RowFine
    <3> QED
      BY <1>2, <1>4, <1>5, <2>2, <3>1, <3>2 DEF Amount, Request
  <2> QED
    BY <1>1, <1>2, <2>1, <2>2 DEF RowFine
<1>15. \A n \in Rowids' : RowFine(n)'
  BY <1>2, <1>13, <1>14 DEF PayInv
<1> QED
  BY <1>6, <1>7, <1>8, <1>9, <1>10, <1>11, <1>12, <1>15 DEF PayInv

LEMMA CreditKeeps ==
    ASSUME PayInv, NEW x \in Processes, CreditAccount(x)
    PROVE  PayInv'
<1>1. /\ pc[x] = "credit" /\ clean \in BOOLEAN
      /\ UNCHANGED <<game, acct, client, order, online, todo, ticks, crashes, held>>
  BY DEF CreditAccount, PayInv, EconTypes
<1>2. CASE Paid(x) /\ Finish(x, "ok") /\ UNCHANGED clean
  BY <1>1, <1>2, PaidKeeps
<1>3. CASE Paid(x) /\ Failed(x)
  BY <1>1, <1>3, PaidKeeps DEF Failed
<1>4. CASE UNCHANGED <<storeVars, origin>> /\ Failed(x)
  BY <1>1, <1>4, FinishKeeps DEF Failed
<1> QED
  BY <1>2, <1>3, <1>4 DEF CreditAccount

-----------------------------------------------------------------------------
(* The worker's tick, and the environment *)

LEMMA NextPlayerKeeps ==
    ASSUME PayInv, NextPlayer
    PROVE  PayInv'
<1>1. /\ EconTypes /\ pc[worker] = "next" /\ worker \in Processes
      /\ UNCHANGED <<storeVars, acct, code, client, order, online, ticks, crashes, held,
                     origin, clean>>
      /\ Goto(worker, "lookup")
  BY RequestOf DEF NextPlayer, PayInv
<1>2. PICK g \in GameAccounts : /\ todo[g] > 0 /\ todo' = [todo EXCEPT ![g] = @ - 1]
                                /\ game' = [game EXCEPT ![worker] = g]
  BY DEF NextPlayer
<1>3. /\ todo' \in [GameAccounts -> Nat]
      /\ game' \in [Processes -> GameAccounts \cup {None}] /\ game'[worker] = g
      /\ \A y \in Processes \ {worker} : game'[y] = game[y]
  BY <1>1, <1>2 DEF EconTypes
<1> QED
  BY <1>1, <1>3, GoOnKeeps DEF EconTypes, Labels

LEMMA EndTickKeeps ==
    ASSUME PayInv, EndTick
    PROVE  PayInv'
<1>1. /\ EconTypes /\ pc[worker] = "next" /\ worker \in Processes
      /\ UNCHANGED <<storeVars, game, acct, code, client, order, online, todo, ticks, crashes,
                     held, origin, clean>>
      /\ Goto(worker, "idle") /\ \A g \in GameAccounts : todo[g] = 0
  BY RequestOf DEF EndTick, PayInv, Nobody
<1> QED
  BY <1>1, GoOnKeeps DEF EconTypes, Labels

LEMMA ListingType ==
    ASSUME NEW rows \in Listings
    PROVE  rows \in [GameAccounts -> Nat]
  BY EconomyAssumption DEF Listings, EconomyAssumption

LEMMA OnlinePlayersKeeps ==
    ASSUME PayInv, OnlinePlayers
    PROVE  PayInv'
<1>1. /\ EconTypes /\ WorkerFine /\ ticks \in Nat /\ worker \in Processes
      /\ pc[worker] = "idle" /\ ticks' = ticks + 1
      /\ held' = [held EXCEPT ![worker] = Held]
      /\ UNCHANGED <<storeVars, game, acct, code, client, order, crashes, origin>>
  BY RequestOf DEF OnlinePlayers, PayInv, EconTypes
<1>2. /\ online' \in [GameAccounts -> Nat] /\ todo' \in [GameAccounts -> Nat]
      /\ clean' \in BOOLEAN
      /\ pc' = [pc EXCEPT ![worker] = "next"] \/ (pc' = pc /\ todo' = Nobody)
  <2>1. Nobody \in [GameAccounts -> Nat]
    BY DEF Nobody
  <2>2. CASE \E players \in Listings : /\ online' = players /\ todo' = players
                                       /\ Goto(worker, "next") /\ clean' = TRUE
    <3>1. PICK players \in Listings : /\ online' = players /\ todo' = players
                                      /\ Goto(worker, "next") /\ clean' = TRUE
      BY <2>2
    <3>2. players \in [GameAccounts -> Nat]
      BY ListingType
    <3>3. clean' \in BOOLEAN /\ pc' = [pc EXCEPT ![worker] = "next"]
      BY <3>1 DEF Goto
    <3>4. online' \in [GameAccounts -> Nat] /\ todo' \in [GameAccounts -> Nat]
      BY <3>1, <3>2
    <3> QED
      BY <3>3, <3>4
  <2>3. CASE online' = Nobody /\ todo' = Nobody /\ clean' = FALSE /\ UNCHANGED pc
    BY <2>1, <2>3
  <2> QED
    BY <2>2, <2>3 DEF OnlinePlayers
<1>3. Held \subseteq Users \X GameAccounts /\ Held' = Held
  BY <1>1 DEF Held, EconTypes, StoreTypeOK, storeVars
<1>4. EconTypes'
  <2>1. StoreTypeOK'
    BY <1>1 DEF EconTypes, StoreTypeOK, storeVars
  <2>2. pc' \in [Processes -> Labels]
    BY <1>1, <1>2 DEF EconTypes, Labels
  <2>3. held' \in [Processes -> SUBSET (Users \X GameAccounts)]
    BY <1>1, <1>3 DEF EconTypes
  <2> QED
    BY <1>1, <1>2, <2>1, <2>2, <2>3 DEF EconTypes, storeVars
<1>5. /\ \A x \in Processes : x # worker => pc'[x] = pc[x] /\ held'[x] = held[x]
      /\ pc'[worker] \in {"idle", "next"} /\ held'[worker] = Held
      /\ pc'[worker] = "idle" => todo' = Nobody
  BY <1>1, <1>2 DEF EconTypes
<1>6. SentInOrder' /\ LinksSingle' /\ OkIsPaid'
  BY <1>1, PaidKept DEF PayInv, SentInOrder, LinksSingle, storeVars
<1>7. HeldKept'
  BY <1>1, <1>3, <1>5 DEF PayInv, HeldKept, Begun
<1>8. WorkerFine'
  BY <1>1, <1>5 DEF WorkerFine, Nobody
<1>9. ASSUME NEW r \in Requests
      PROVE  Request(r)'
  BY <1>1, <1>5, RequestOf DEF PayInv, Request
<1>10. ASSUME NEW x \in Processes
       PROVE  FoundLinked(x)'
  BY <1>1, <1>5 DEF PayInv, FoundLinked
<1>11. \A n \in Rowids' : RowFine(n)'
  BY <1>1, <1>5, RequestOf, RowsKeep DEF storeVars
<1> QED
  BY <1>4, <1>6, <1>7, <1>8, <1>9, <1>10, <1>11 DEF PayInv

LEMMA RelinkKeeps ==
    ASSUME PayInv, NEW u \in Users, NEW g \in GameAccounts, Relink(u, g)
    PROVE  PayInv'
<1>1. /\ EconTypes /\ LinkAccount(u, g)
      /\ held' = [x \in Processes |-> held[x] \cup {<<u, g>>}]
      /\ UNCHANGED <<pc, game, acct, code, client, order, online, todo, ticks, crashes, origin>>
      /\ UNCHANGED txns
      /\ clean' = FALSE
  BY DEF Relink, LinkAccount, PayInv
<1>2. EconTypes'
  <2>1. StoreTypeOK'
    BY <1>1, LinkAccountType DEF EconTypes
  <2>2. <<u, g>> \in Users \X GameAccounts
    OBVIOUS
  <2>3. held' \in [Processes -> SUBSET (Users \X GameAccounts)]
    BY <1>1, <2>2 DEF EconTypes
  <2> QED
    BY <1>1, <2>1, <2>3 DEF EconTypes
<1>3. \A v \in Users : link'[v] = IF v = u THEN g ELSE link[v]
  BY <1>1 DEF LinkAccount, EconTypes, StoreTypeOK
<1>4. LinksSingle'
  BY <1>1, <1>3 DEF LinkAccount, PayInv, LinksSingle
<1>5. HeldKept'
  <2>1. Held' \subseteq Held \cup {<<u, g>>}
    BY <1>3 DEF Held
  <2> QED
    BY <1>1, <2>1 DEF PayInv, HeldKept, Begun
<1>6. \A x \in Processes : held[x] \subseteq held'[x]
  BY <1>1
<1>7. SentInOrder' /\ WorkerFine' /\ OkIsPaid'
  BY <1>1, PaidKept DEF PayInv, SentInOrder, WorkerFine
<1>8. (\A r \in Requests : Request(r)') /\ \A x \in Processes : FoundLinked(x)'
  BY <1>1, <1>6 DEF PayInv, Request, FoundLinked
<1>9. \A n \in Rowids' : RowFine(n)'
  BY <1>1, <1>6, RequestOf, RowsKeep DEF EconTypes
<1> QED
  BY <1>2, <1>4, <1>5, <1>7, <1>8, <1>9 DEF PayInv

LEMMA CrashKeeps ==
    ASSUME PayInv, Crash
    PROVE  PayInv'
<1>1. /\ EconTypes /\ todo' = Nobody /\ clean' = FALSE
      /\ pc' = [x \in Processes |-> IF x = worker THEN "idle"
                                    ELSE IF pc[x] \in {"idle", "end"} THEN pc[x] ELSE "cut"]
      /\ UNCHANGED <<storeVars, game, acct, code, client, order, online, ticks, held, origin>>
  BY DEF Crash, PayInv
<1>2. /\ pc'[worker] = "idle"
      /\ \A r \in Requests : pc'[r] = IF pc[r] \in {"idle", "end"} THEN pc[r] ELSE "cut"
      /\ pc' \in [Processes -> Labels]
  BY <1>1, RequestOf DEF EconTypes, Labels
<1>3. EconTypes'
  <2>1. StoreTypeOK'
    BY <1>1 DEF EconTypes, StoreTypeOK, storeVars
  <2> QED
    BY <1>1, <1>2, <2>1 DEF EconTypes, storeVars, Nobody
<1>4. ASSUME NEW r \in Requests
      PROVE  Request(r)'
  BY <1>1, <1>2 DEF PayInv, Request
<1>5. ASSUME NEW x \in Processes
      PROVE  FoundLinked(x)'
  BY <1>1, <1>2, RequestOf DEF FoundLinked
<1>6. WorkerFine'
  BY <1>1, <1>2 DEF WorkerFine, Nobody
<1> QED
  BY <1>1, <1>2, <1>3, <1>4, <1>5, <1>6, QuietKeeps

LEMMA PayInvInit == Init => PayInv
<1> SUFFICES ASSUME Init PROVE PayInv
  OBVIOUS
<1>1. StoreTypeOK /\ txns = <<>> /\ link = [u \in Users |-> None]
  BY StoreTypeInit DEF Init, StoreInit
<1>2. EconTypes
  <2>1. origin \in Seq(Origins) /\ Len(origin) = Len(txns)
    BY <1>1 DEF Init
  <2>2. order \in [Payments -> [game : GameAccounts \cup {None}, amount : Nat, sound : BOOLEAN]]
    BY DEF Init
  <2>3. clean \in BOOLEAN /\ ticks \in Nat
    BY DEF Init
  <2> QED
    BY <1>1, <2>1, <2>2, <2>3 DEF Init, EconTypes, Labels, Nobody
<1>3. Rowids = {} /\ Held = {}
  <2>1. Len(txns) = 0
    BY <1>1
  <2> QED
    BY <1>1, <2>1 DEF Rowids, Held
<1>4. SentInOrder
  BY RequestOf DEF Init, SentInOrder
<1>5. HeldKept /\ WorkerFine /\ OkIsPaid /\ LinksSingle
  BY <1>1, <1>3, RequestOf DEF Init, HeldKept, WorkerFine, OkIsPaid, LinksSingle, Nobody
<1>6. /\ \A r \in Requests : Request(r)
      /\ \A x \in Processes : FoundLinked(x)
  BY RequestOf DEF Init, Request, FoundLinked
<1> QED
  BY <1>2, <1>3, <1>4, <1>5, <1>6 DEF PayInv

LEMMA PayInvStep ==
    ASSUME PayInv, [Next]_vars
    PROVE  PayInv'
<1>1. CASE \E p \in Payments, n \in 1..MaxWork : Send(p, n)
  BY <1>1, SendKeeps
<1>2. ASSUME NEW r \in Requests, Handle(r)
      PROVE  PayInv'
  BY <1>2, HandleKeeps
<1>3. ASSUME NEW x \in Processes, Call(x)
      PROVE  PayInv'
  BY <1>3, LookupKeeps, CreditKeeps DEF Call
<1>4. ASSUME NEW r \in Requests, Hear(r)
      PROVE  PayInv'
  <2>1. CASE code[r] = "ok"
    BY <1>4, <2>1, HearKeeps DEF Hear
  <2>2. CASE code[r] # "ok"
    BY <1>4, <2>2, HearKeeps DEF Hear
  <2> QED
    BY <2>1, <2>2
<1>5. ASSUME NEW r \in Requests, HangUp(r)
      PROVE  PayInv'
  BY <1>5, HearKeeps DEF HangUp
<1>6. CASE OnlinePlayers
  BY <1>6, OnlinePlayersKeeps
<1>7. CASE Tick
  BY <1>3, <1>7, NextPlayerKeeps, EndTickKeeps, RequestOf DEF Tick
<1>8. CASE \E u \in Users, g \in GameAccounts : Relink(u, g)
  BY <1>8, RelinkKeeps
<1>9. CASE Crash
  BY <1>9, CrashKeeps
<1>10. CASE UNCHANGED vars
  <2>1. UNCHANGED <<storeVars, pc, game, acct, code, client, order, online, todo, ticks,
                    crashes, held, origin, clean>>
    BY <1>10 DEF vars, econVars
  <2>2. EconTypes'
    <3>1. StoreTypeOK'
      BY <2>1 DEF PayInv, EconTypes, StoreTypeOK, storeVars
    <3> QED
      BY <2>1, <3>1 DEF PayInv, EconTypes, storeVars
  <2>3. /\ \A r \in Requests : Request(r)'
        /\ \A x \in Processes : FoundLinked(x)'
        /\ WorkerFine'
    BY <2>1 DEF PayInv, Request, FoundLinked, WorkerFine
  <2> QED
    BY <2>1, <2>2, <2>3, QuietKeeps
<1>11. CASE \E r \in Requests : Handle(r) \/ Call(r) \/ Hear(r) \/ HangUp(r)
  BY <1>2, <1>3, <1>4, <1>5, <1>11, RequestOf
<1> QED
  BY <1>1, <1>6, <1>7, <1>8, <1>9, <1>10, <1>11 DEF Next

(* Every process, row and request is what the invariant says of it. *)
THEOREM PayInvCorrect == Spec => []PayInv
<1> QED
  BY PayInvInit, PayInvStep, PTL DEF Spec

-----------------------------------------------------------------------------
(* What a provider was told, and what a payment sent again can do *)

(* CreditedIsPaid is a property of the runs: a provider that was told "ok" has
   its row in the ledger, for its sum, on an account that held the game account
   while the handler worked (webhooks.go:98-102). *)
THEOREM CreditedCorrect == Spec => []CreditedIsPaid
<1>1. PayInv => CreditedIsPaid
  <2> SUFFICES ASSUME PayInv, NEW p \in Payments, NEW t \in 1..MaxWork,
                      client[<<p, t>>] = "credited"
               PROVE  \E n \in RowsOf(<<p, t>>) :
                          /\ txns[n].amount = order[p].amount
                          /\ <<txns[n].acct, order[p].game>> \in held[<<p, t>>]
    BY Zenon DEF CreditedIsPaid
  <2> DEFINE r == <<p, t>>
  <2>1. r \in Requests /\ r[1] = p /\ r # worker
    BY RequestOf
  <2>2. PICK n \in RowsOf(r) : TRUE
    BY <2>1 DEF PayInv, Request, OkIsPaid
  <2>3. n \in Rowids /\ origin[n].by = r /\ RowFine(n)
    BY <2>2 DEF RowsOf, PayInv
  <2>4. /\ txns[n].amount = order[p].amount /\ origin[n].game = order[p].game
        /\ <<txns[n].acct, origin[n].game>> \in held[r]
    BY <2>1, <2>3 DEF RowFine
  <2> QED
    BY <2>2, <2>4
<1> QED
  BY PayInvCorrect, <1>1, PTL

LEMMA TwoRows ==
    ASSUME PayInv, NEW p \in Payments, NEW s \in 1..MaxWork, NEW t \in 1..MaxWork, s < t,
           RowsOf(<<p, s>>) # {}, RowsOf(<<p, t>>) # {}
    PROVE  client[<<p, s>>] = "lost" \/ code[<<p, s>>] = "error"
<1> DEFINE q == <<p, s>>
           r == <<p, t>>
<1>1. q \in Requests /\ r \in Requests /\ q # worker /\ r # worker
  BY RequestOf
<1>2. PICK m \in Rowids, n \in Rowids : origin[m].by = q /\ origin[n].by = r
  BY DEF RowsOf
<1>3. code[q] \in {"ok", "error"} /\ pc[r] = "end"
  BY <1>1, <1>2 DEF PayInv, RowFine
<1>4. client[r] # "unsent"
  BY <1>1, <1>3 DEF PayInv, Request
<1>5. s \in 1..(t - 1)
  BY EconomyAssumption DEF EconomyAssumption
<1>6. client[q] \in {"refused", "lost"}
  BY <1>4, <1>5 DEF PayInv, SentInOrder
<1> QED
  BY <1>1, <1>3, <1>6 DEF PayInv, Request

(* TwiceOnlyUnsure is a property of the runs: one payment has two rows only if a
   request of it went without an answer, or was answered "internal error", and
   the provider sent it again (webhooks.go:94,99). *)
THEOREM TwiceUnsureCorrect == Spec => []TwiceOnlyUnsure
<1>1. PayInv => TwiceOnlyUnsure
  <2> SUFFICES ASSUME PayInv, NEW p \in Payments,
                      \A t \in 1..MaxWork : ~(client[<<p, t>>] = "lost" \/ code[<<p, t>>] = "error")
               PROVE  ~(Cardinality(UNION {RowsOf(<<p, t>>) : t \in 1..MaxWork}) > 1)
    BY DEF TwiceOnlyUnsure
  <2> DEFINE S == UNION {RowsOf(<<p, t>>) : t \in 1..MaxWork}
  <2>1. ASSUME NEW m \in S, NEW n \in S
        PROVE  m = n
    <3>1. PICK s \in 1..MaxWork, t \in 1..MaxWork :
            m \in RowsOf(<<p, s>>) /\ n \in RowsOf(<<p, t>>)
      BY <2>1
    <3>2. s \in Int /\ t \in Int /\ ~(s < t) /\ ~(t < s)
      BY <3>1, TwoRows
    <3>3. s = t
      BY <3>2
    <3>4. <<p, s>> # worker /\ m \in Rowids /\ n \in Rowids /\ RowFine(m)
          /\ origin[m].by = <<p, s>> /\ origin[n].by = <<p, s>>
      BY <3>1, <3>3, RequestOf DEF RowsOf, PayInv
    <3> QED
      BY <3>4 DEF RowFine
  <2> SUFFICES Cardinality(S) \in {0, 1}
    OBVIOUS
  <2> HIDE DEF S
  <2>2. CASE S = {}
    BY <2>2, FS_EmptySet
  <2>3. CASE S # {}
    <3>1. PICK n : S = {n}
      BY <2>1, <2>3
    <3> QED
      BY <3>1, FS_Singleton
  <2> QED
    BY <2>2, <2>3
<1> QED
  BY PayInvCorrect, <1>1, PTL

-----------------------------------------------------------------------------
(* The rows of a tick *)

LEMMA PaidFinite ==
    ASSUME EconTypes, NEW g \in GameAccounts
    PROVE  /\ IsFiniteSet(PaidFor(g)) /\ Cardinality(PaidFor(g)) \in Nat
           /\ \A u \in Users : /\ PaidInTick(u, g) \subseteq PaidFor(g)
                               /\ IsFiniteSet(PaidInTick(u, g))
                               /\ Cardinality(PaidInTick(u, g)) \in Nat
                               /\ Cardinality(PaidInTick(u, g)) <= Cardinality(PaidFor(g))
<1>1. IsFiniteSet(Rowids)
  <2>1. Len(txns) \in Nat
    BY DEF EconTypes, StoreTypeOK
  <2> QED
    BY <2>1, FS_Interval DEF Rowids
<1>2. PaidFor(g) \subseteq Rowids
  BY DEF PaidFor, RowsOf
<1>3. IsFiniteSet(PaidFor(g))
  BY <1>1, <1>2, FS_Subset
<1>4. \A u \in Users : PaidInTick(u, g) \subseteq PaidFor(g)
  BY DEF PaidFor, PaidInTick
<1> QED
  BY <1>3, <1>4, FS_Subset, FS_CardinalityType

(* Nothing the requests do changes what the tick has paid. *)
LEMMA PaidSame ==
    ASSUME EconTypes, ticks' = ticks,
           \/ UNCHANGED <<txns, origin>>
           \/ \E r \in Requests : Paid(r),
           NEW g \in GameAccounts
    PROVE  PaidFor(g)' = PaidFor(g) /\ \A u \in Users : PaidInTick(u, g)' = PaidInTick(u, g)
<1>1. CASE UNCHANGED <<txns, origin>>
  BY <1>1 DEF PaidFor, PaidInTick, RowsOf, Rowids
<1>2. ASSUME NEW r \in Requests, Paid(r)
      PROVE  PaidFor(g)' = PaidFor(g) /\ \A u \in Users : PaidInTick(u, g)' = PaidInTick(u, g)
  <2>1. r \in Processes /\ r # worker
    BY RequestOf
  <2>2. PICK N \in Nat :
          /\ N \notin Rowids /\ Rowids' = Rowids \cup {N}
          /\ \A n \in Rowids : txns'[n] = txns[n] /\ origin'[n] = origin[n]
          /\ origin'[N] = [by |-> r, game |-> game[r], tick |-> ticks]
    BY <1>2, <2>1, RowAdded
  <2>3. origin'[N].by # worker
    BY <2>1, <2>2
  <2> QED
    BY <2>2, <2>3 DEF PaidFor, PaidInTick, RowsOf
<1> QED
  BY <1>1, <1>2

(* A credit of the worker is one more row, of the player in hand. *)
LEMMA PaidMore ==
    ASSUME EconTypes, ticks' = ticks, Paid(worker), NEW g \in GameAccounts
    PROVE  /\ Cardinality(PaidFor(g)') =
                Cardinality(PaidFor(g)) + (IF g = game[worker] THEN 1 ELSE 0)
           /\ \A u \in Users : Cardinality(PaidInTick(u, g)') =
                Cardinality(PaidInTick(u, g)) +
                    (IF g = game[worker] /\ u = acct[worker] THEN 1 ELSE 0)
<1>1. PICK N \in Nat :
        /\ N \notin Rowids /\ Rowids' = Rowids \cup {N}
        /\ \A n \in Rowids : txns'[n] = txns[n] /\ origin'[n] = origin[n]
        /\ txns'[N].acct = acct[worker]
        /\ origin'[N] = [by |-> worker, game |-> game[worker], tick |-> ticks]
  BY RowAdded, RequestOf
<1>2. PaidFor(g)' = PaidFor(g) \cup (IF g = game[worker] THEN {N} ELSE {})
  BY <1>1 DEF PaidFor, RowsOf
<1>3. N \notin PaidFor(g) /\ \A u \in Users : N \notin PaidInTick(u, g)
  BY <1>1 DEF PaidFor, PaidInTick, RowsOf
<1>4. \A u \in Users : PaidInTick(u, g)' =
        PaidInTick(u, g) \cup (IF g = game[worker] /\ u = acct[worker] THEN {N} ELSE {})
  BY <1>1 DEF PaidInTick, RowsOf
<1>5. /\ IsFiniteSet(PaidFor(g)) /\ Cardinality(PaidFor(g)) \in Nat
      /\ \A u \in Users : IsFiniteSet(PaidInTick(u, g)) /\ Cardinality(PaidInTick(u, g)) \in Nat
  BY PaidFinite
<1>6. ASSUME NEW S, NEW T, IsFiniteSet(S), Cardinality(S) \in Nat, N \notin S, NEW one \in BOOLEAN,
             T = S \cup (IF one THEN {N} ELSE {})
      PROVE  Cardinality(T) = Cardinality(S) + (IF one THEN 1 ELSE 0)
  <2>1. CASE one
    BY <1>6, <2>1, FS_AddElement
  <2>2. CASE ~one
    <3>1. T = S
      BY <1>6, <2>2
    <3> QED
      BY <1>6, <2>2, <3>1
  <2> QED
    BY <2>1, <2>2
<1>7. Cardinality(PaidFor(g)') = Cardinality(PaidFor(g)) + (IF g = game[worker] THEN 1 ELSE 0)
  BY <1>2, <1>3, <1>5, <1>6
<1>8. ASSUME NEW u \in Users
      PROVE  Cardinality(PaidInTick(u, g)') =
                Cardinality(PaidInTick(u, g)) +
                    (IF g = game[worker] /\ u = acct[worker] THEN 1 ELSE 0)
  BY <1>3, <1>4, <1>5, <1>6
<1> QED
  BY <1>7, <1>8

(* A tick that goes on with the same count. *)
LEMMA TickSame ==
    ASSUME EconTypes, TickInv,
           \A g \in GameAccounts :
                PaidFor(g)' = PaidFor(g) /\ \A u \in Users : PaidInTick(u, g)' = PaidInTick(u, g),
           \A g \in GameAccounts : todo'[g] + InHand(g)' = todo[g] + InHand(g),
           todo' \in [GameAccounts -> Nat], UNCHANGED <<online, link>>, clean' => clean,
           clean' /\ pc'[worker] = "credit" => link[acct'[worker]] = game'[worker]
    PROVE  TickInv'
<1>1. \A g \in GameAccounts : /\ Cardinality(PaidFor(g)) \in Nat
                              /\ \A u \in Users : Cardinality(PaidInTick(u, g)) \in Nat
                              /\ todo[g] \in Nat /\ todo'[g] \in Nat
                              /\ InHand(g) \in Nat /\ InHand(g)' \in Nat
  BY PaidFinite DEF EconTypes, InHand
<1>2. ASSUME NEW g \in GameAccounts
      PROVE  Cardinality(PaidFor(g)') + todo'[g] + InHand(g)' <= online'[g]
  <2>1. Cardinality(PaidFor(g)) + todo[g] + InHand(g) <= online[g]
    BY DEF TickInv
  <2>2. Cardinality(PaidFor(g)') = Cardinality(PaidFor(g)) /\ online'[g] = online[g]
    OBVIOUS
  <2>3. todo'[g] + InHand(g)' = todo[g] + InHand(g)
    OBVIOUS
  <2> QED
    BY <1>1, <2>1, <2>2, <2>3
<1>3. ASSUME clean', NEW u \in Users, NEW g \in GameAccounts, link'[u] = g
      PROVE  Cardinality(PaidInTick(u, g)') + todo'[g] + InHand(g)' = online'[g]
  <2>1. Cardinality(PaidInTick(u, g)) + todo[g] + InHand(g) = online[g]
    BY <1>3 DEF TickInv
  <2>2. Cardinality(PaidInTick(u, g)') = Cardinality(PaidInTick(u, g)) /\ online'[g] = online[g]
    OBVIOUS
  <2>3. todo'[g] + InHand(g)' = todo[g] + InHand(g)
    OBVIOUS
  <2> QED
    BY <1>1, <2>1, <2>2, <2>3
<1> QED
  BY <1>2, <1>3 DEF TickInv

(* A tick in which a call failed or somebody relinked: only the bound is left. *)
LEMMA TickSpoilt ==
    ASSUME EconTypes, TickInv, ~clean', UNCHANGED online, todo' \in [GameAccounts -> Nat],
           \A g \in GameAccounts :
                Cardinality(PaidFor(g)') + todo'[g] + InHand(g)'
                    <= Cardinality(PaidFor(g)) + todo[g] + InHand(g),
           \A g \in GameAccounts : Cardinality(PaidFor(g)') \in Nat
    PROVE  TickInv'
<1>1. ASSUME NEW g \in GameAccounts
      PROVE  Cardinality(PaidFor(g)') + todo'[g] + InHand(g)' <= online'[g]
  <2>1. Cardinality(PaidFor(g)) + todo[g] + InHand(g) <= online[g]
    BY DEF TickInv
  <2>2. /\ Cardinality(PaidFor(g)) \in Nat /\ todo[g] \in Nat /\ todo'[g] \in Nat
        /\ InHand(g) \in Nat /\ InHand(g)' \in Nat /\ online[g] \in Nat
        /\ Cardinality(PaidFor(g)') \in Nat
    BY PaidFinite DEF EconTypes, InHand
  <2>3. Cardinality(PaidFor(g)') + todo'[g] + InHand(g)'
            <= Cardinality(PaidFor(g)) + todo[g] + InHand(g)
    OBVIOUS
  <2> QED
    BY <2>1, <2>2, <2>3
<1> QED
  BY <1>1 DEF TickInv

LEMMA TickStart ==
    ASSUME PayInv, OnlinePlayers
    PROVE  TickInv'
<1>1. /\ EconTypes /\ ticks \in Nat /\ ticks' = ticks + 1 /\ pc[worker] = "idle"
      /\ UNCHANGED <<txns, origin>>
  BY DEF OnlinePlayers, PayInv, EconTypes, storeVars
<1>2. /\ online' \in [GameAccounts -> Nat] /\ todo' = online'
      /\ pc'[worker] \in {"idle", "next"}
  <2>1. Nobody \in [GameAccounts -> Nat] /\ worker \in Processes
    BY RequestOf DEF Nobody
  <2>2. ASSUME NEW players \in Listings, online' = players /\ todo' = players,
               Goto(worker, "next")
        PROVE  /\ online' \in [GameAccounts -> Nat] /\ todo' = online'
               /\ pc'[worker] \in {"idle", "next"}
    BY <1>1, <2>1, <2>2, ListingType DEF Goto, EconTypes
  <2>3. CASE online' = Nobody /\ todo' = Nobody /\ UNCHANGED pc
    BY <1>1, <2>1, <2>3
  <2> QED
    BY <2>2, <2>3 DEF OnlinePlayers
<1>3. \A n \in Rowids' : origin'[n].tick # ticks'
  <2> SUFFICES ASSUME NEW n \in Rowids
               PROVE  origin[n].tick # ticks + 1
    BY <1>1 DEF Rowids
  <2>1. origin[n].tick \in Nat /\ origin[n].tick <= ticks
    BY <1>1, RowTypes DEF PayInv, RowFine
  <2> QED
    BY <1>1, <2>1
<1>4. \A g \in GameAccounts : /\ PaidFor(g)' = {} /\ \A u \in Users : PaidInTick(u, g)' = {}
                              /\ InHand(g)' = 0
  BY <1>2, <1>3 DEF PaidFor, PaidInTick, RowsOf, InHand
<1>5. Cardinality({}) = 0
  BY FS_EmptySet
<1>6. ASSUME NEW g \in GameAccounts
      PROVE  /\ Cardinality(PaidFor(g)') + todo'[g] + InHand(g)' <= online'[g]
             /\ \A u \in Users : Cardinality(PaidInTick(u, g)') + todo'[g] + InHand(g)' = online'[g]
  <2>1. todo'[g] \in Nat /\ online'[g] = todo'[g]
    BY <1>2
  <2>2. Cardinality(PaidFor(g)') = 0 /\ InHand(g)' = 0
    BY <1>4, <1>5
  <2>3. \A u \in Users : Cardinality(PaidInTick(u, g)') = 0
    BY <1>4, <1>5
  <2> QED
    BY <2>1, <2>2, <2>3
<1> QED
  BY <1>2, <1>6 DEF TickInv

LEMMA TickLookup ==
    ASSUME PayInv, TickInv, LinkByGameAccount(worker)
    PROVE  TickInv'
<1>1. /\ EconTypes /\ pc[worker] = "lookup" /\ worker \in Processes /\ game[worker] \in GameAccounts
      /\ UNCHANGED <<storeVars, game, client, order, online, todo, ticks, crashes, held, origin>>
      /\ todo \in [GameAccounts -> Nat] /\ UNCHANGED <<link, txns>>
  BY RequestOf DEF LinkByGameAccount, PayInv, FoundLinked, EconTypes, storeVars
<1>2. \A g \in GameAccounts :
        PaidFor(g)' = PaidFor(g) /\ \A u \in Users : PaidInTick(u, g)' = PaidInTick(u, g)
  BY <1>1, PaidSame
<1>3. CASE \E u \in Users : /\ link[u] = game[worker]
                            /\ acct' = [acct EXCEPT ![worker] = u]
                            /\ Goto(worker, "credit") /\ UNCHANGED <<code, clean>>
  <2>1. /\ link[acct'[worker]] = game[worker] /\ pc'[worker] = "credit" /\ clean' = clean
    BY <1>1, <1>3 DEF EconTypes, Goto
  <2>2. \A g \in GameAccounts : InHand(g)' = InHand(g)
    BY <1>1, <2>1 DEF InHand
  <2> QED
    BY <1>1, <1>2, <2>1, <2>2, TickSame
<1>4. CASE (\A u \in Users : link[u] # game[worker]) /\ Finish(worker, "notLinked")
            /\ UNCHANGED <<acct, clean>>
  <2>1. pc'[worker] = "next" /\ clean' = clean /\ clean \in BOOLEAN
    BY <1>1, <1>4 DEF EconTypes, Finish, Goto
  <2>2. \A g \in GameAccounts : /\ InHand(g)' = 0 /\ InHand(g) \in {0, 1}
                                /\ g # game[worker] => InHand(g) = 0
    BY <2>1 DEF InHand
  <2>3. ASSUME NEW g \in GameAccounts
        PROVE  /\ Cardinality(PaidFor(g)') + todo'[g] + InHand(g)' <= online'[g]
    <3>1. Cardinality(PaidFor(g)) \in Nat /\ todo[g] \in Nat /\ online[g] \in Nat
      BY <1>1, PaidFinite DEF EconTypes
    <3>2. Cardinality(PaidFor(g)) + todo[g] + InHand(g) <= online[g]
      BY DEF TickInv
    <3>3. Cardinality(PaidFor(g)') = Cardinality(PaidFor(g)) /\ todo'[g] = todo[g]
          /\ online'[g] = online[g]
      BY <1>1, <1>2
    <3>4. InHand(g) \in {0, 1} /\ InHand(g)' = 0
      BY <2>2
    <3> QED
      BY <3>1, <3>2, <3>3, <3>4
  <2>4. ASSUME clean', NEW u \in Users, NEW g \in GameAccounts, link'[u] = g
        PROVE  Cardinality(PaidInTick(u, g)') + todo'[g] + InHand(g)' = online'[g]
    <3>1. g = link[u] /\ g # game[worker]
      BY <1>1, <1>4, <2>4
    <3>2. Cardinality(PaidInTick(u, g)) + todo[g] + InHand(g) = online[g]
      BY <2>1, <2>4, <3>1 DEF TickInv
    <3>3. InHand(g) = 0 /\ InHand(g)' = 0
      BY <2>2, <3>1
    <3>4. PaidInTick(u, g)' = PaidInTick(u, g) /\ todo'[g] = todo[g] /\ online'[g] = online[g]
      BY <1>1, <1>2
    <3> QED
      BY <3>2, <3>3, <3>4
  <2> QED
    BY <2>1, <2>3, <2>4 DEF TickInv
<1>5. CASE Failed(worker)
  <2>1. pc'[worker] = "next" /\ ~clean'
    BY <1>1, <1>5 DEF EconTypes, Failed, Finish, Goto
  <2>2. \A g \in GameAccounts : InHand(g)' = 0 /\ InHand(g) \in {0, 1}
    BY <2>1 DEF InHand
  <2>3. ASSUME NEW g \in GameAccounts
        PROVE  /\ Cardinality(PaidFor(g)') + todo'[g] + InHand(g)'
                    <= Cardinality(PaidFor(g)) + todo[g] + InHand(g)
               /\ Cardinality(PaidFor(g)') \in Nat
    <3>1. Cardinality(PaidFor(g)) \in Nat /\ todo[g] \in Nat
      BY <1>1, PaidFinite
    <3>2. Cardinality(PaidFor(g)') = Cardinality(PaidFor(g)) /\ todo'[g] = todo[g]
      BY <1>1, <1>2
    <3> QED
      BY <2>2, <3>1, <3>2
  <2> QED
    BY <1>1, <2>1, <2>3, TickSpoilt
<1> QED
  BY <1>3, <1>4, <1>5 DEF LinkByGameAccount

LEMMA TickCredit ==
    ASSUME PayInv, TickInv, CreditAccount(worker)
    PROVE  TickInv'
<1>1. /\ EconTypes /\ LinksSingle /\ pc[worker] = "credit" /\ worker \in Processes
      /\ game[worker] \in GameAccounts /\ acct[worker] \in Users
      /\ UNCHANGED <<game, acct, client, order, online, todo, ticks, crashes, held>>
      /\ todo \in [GameAccounts -> Nat] /\ clean \in BOOLEAN
  BY RequestOf DEF CreditAccount, PayInv, FoundLinked, EconTypes
<1>2. pc'[worker] = "next"
  BY <1>1 DEF CreditAccount, Failed, Finish, Goto, EconTypes
<1>3. \A g \in GameAccounts : /\ InHand(g)' = 0
                              /\ InHand(g) = IF g = game[worker] THEN 1 ELSE 0
  BY <1>1, <1>2 DEF InHand
<1>4. ASSUME NEW g \in GameAccounts
      PROVE  /\ Cardinality(PaidFor(g)) \in Nat /\ todo[g] \in Nat /\ online[g] \in Nat
             /\ \A u \in Users : Cardinality(PaidInTick(u, g)) \in Nat
  BY <1>1, PaidFinite DEF EconTypes
<1>5. CASE Paid(worker)
  <2>1. ASSUME NEW g \in GameAccounts
        PROVE  /\ Cardinality(PaidFor(g)') = Cardinality(PaidFor(g)) + InHand(g)
               /\ Cardinality(PaidFor(g)') + todo'[g] + InHand(g)'
                      = Cardinality(PaidFor(g)) + todo[g] + InHand(g)
               /\ Cardinality(PaidFor(g)') \in Nat
    <3>1. Cardinality(PaidFor(g)') = Cardinality(PaidFor(g)) + InHand(g)
      BY <1>1, <1>3, <1>5, PaidMore
    <3> QED
      BY <1>1, <1>3, <1>4, <3>1
  <2>2. CASE ~clean'
    <3>1. ASSUME NEW g \in GameAccounts
          PROVE  /\ Cardinality(PaidFor(g)') + todo'[g] + InHand(g)'
                        <= Cardinality(PaidFor(g)) + todo[g] + InHand(g)
                 /\ Cardinality(PaidFor(g)') \in Nat
      BY <1>3, <1>4, <2>1
    <3> QED
      BY <1>1, <2>2, <3>1, TickSpoilt
  <2>3. CASE clean'
    <3>1. clean /\ link[acct[worker]] = game[worker] /\ link' = link
      BY <1>1, <1>5, <2>3 DEF CreditAccount, Failed, TickInv, Paid, Credit
    <3>2. ASSUME NEW g \in GameAccounts
          PROVE  Cardinality(PaidFor(g)') + todo'[g] + InHand(g)' <= online'[g]
      <4>1. Cardinality(PaidFor(g)) + todo[g] + InHand(g) <= online[g]
        BY DEF TickInv
      <4> QED
        BY <1>1, <2>1, <4>1
    <3>3. ASSUME NEW u \in Users, NEW g \in GameAccounts, link'[u] = g
          PROVE  Cardinality(PaidInTick(u, g)') + todo'[g] + InHand(g)' = online'[g]
      <4>1. g = link[u] /\ g # None
        BY <3>1, <3>3, StoreAssumption DEF StoreAssumption
      <4>2. Cardinality(PaidInTick(u, g)) + todo[g] + InHand(g) = online[g]
        BY <3>1, <4>1 DEF TickInv
      <4>3. g = game[worker] <=> (g = game[worker] /\ u = acct[worker])
        BY <1>1, <3>1, <4>1 DEF LinksSingle
      <4>4. Cardinality(PaidInTick(u, g)') = Cardinality(PaidInTick(u, g)) + InHand(g)
        BY <1>1, <1>3, <1>5, <4>3, PaidMore
      <4>5. /\ Cardinality(PaidInTick(u, g)) \in Nat /\ todo[g] \in Nat /\ online[g] \in Nat
            /\ InHand(g) \in {0, 1} /\ InHand(g)' = 0
            /\ todo'[g] = todo[g] /\ online'[g] = online[g]
        BY <1>1, <1>3, <1>4
      <4> QED
        BY <4>2, <4>4, <4>5
    <3> QED
      BY <1>2, <3>2, <3>3 DEF TickInv
  <2> QED
    BY <2>2, <2>3
<1>6. CASE UNCHANGED <<storeVars, origin>> /\ Failed(worker)
  <2>1. ~clean' /\ UNCHANGED <<txns, origin>>
    BY <1>1, <1>6 DEF Failed, storeVars
  <2>2. ASSUME NEW g \in GameAccounts
        PROVE  /\ Cardinality(PaidFor(g)') + todo'[g] + InHand(g)'
                    <= Cardinality(PaidFor(g)) + todo[g] + InHand(g)
               /\ Cardinality(PaidFor(g)') \in Nat
    <3>1. Cardinality(PaidFor(g)') = Cardinality(PaidFor(g))
      BY <1>1, <2>1, PaidSame
    <3> QED
      BY <1>1, <1>3, <1>4, <3>1
  <2> QED
    BY <1>1, <2>1, <2>2, TickSpoilt
<1> QED
  BY <1>5, <1>6 DEF CreditAccount

LEMMA TickNextPlayer ==
    ASSUME PayInv, TickInv, NextPlayer
    PROVE  TickInv'
<1>1. /\ EconTypes /\ pc[worker] = "next" /\ worker \in Processes
      /\ UNCHANGED <<storeVars, acct, code, client, order, online, ticks, crashes, held,
                     origin, clean>>
      /\ UNCHANGED <<link, txns>> /\ Goto(worker, "lookup")
  BY RequestOf DEF NextPlayer, PayInv, storeVars
<1>2. PICK g \in GameAccounts : /\ todo[g] > 0 /\ todo' = [todo EXCEPT ![g] = @ - 1]
                                /\ game' = [game EXCEPT ![worker] = g]
  BY DEF NextPlayer
<1>3. todo' \in [GameAccounts -> Nat] /\ game'[worker] = g /\ pc'[worker] = "lookup"
  BY <1>1, <1>2 DEF EconTypes, Goto
<1>4. ASSUME NEW h \in GameAccounts
      PROVE  todo'[h] + InHand(h)' = todo[h] + InHand(h)
  <2>1. InHand(h) = 0 /\ InHand(h)' = IF h = g THEN 1 ELSE 0
    BY <1>1, <1>3 DEF InHand
  <2>2. todo[h] \in Nat /\ todo'[h] = IF h = g THEN todo[h] - 1 ELSE todo[h]
    BY <1>1, <1>2 DEF EconTypes
  <2> QED
    BY <2>1, <2>2
<1>5. \A h \in GameAccounts :
        PaidFor(h)' = PaidFor(h) /\ \A u \in Users : PaidInTick(u, h)' = PaidInTick(u, h)
  BY <1>1, PaidSame
<1> QED
  BY <1>1, <1>3, <1>4, <1>5, TickSame

(* Whatever leaves the worker where it is. *)
LEMMA TickElsewhere ==
    ASSUME PayInv, TickInv, UNCHANGED <<link, online, todo, ticks>>, clean' => clean,
           \/ UNCHANGED <<txns, origin>>
           \/ \E r \in Requests : Paid(r),
           \/ /\ pc'[worker] = pc[worker] /\ game'[worker] = game[worker]
              /\ acct'[worker] = acct[worker]
           \/ /\ pc[worker] = "next" /\ pc'[worker] = "idle"
    PROVE  TickInv'
<1>1. EconTypes /\ todo' \in [GameAccounts -> Nat]
  BY DEF PayInv, EconTypes
<1>2. \A g \in GameAccounts :
        PaidFor(g)' = PaidFor(g) /\ \A u \in Users : PaidInTick(u, g)' = PaidInTick(u, g)
  BY <1>1, PaidSame
<1>3. \A g \in GameAccounts : InHand(g)' = InHand(g)
  BY DEF InHand
<1>4. \A g \in GameAccounts : todo'[g] + InHand(g)' = todo[g] + InHand(g)
  BY <1>3
<1>5. clean' /\ pc'[worker] = "credit" => link[acct'[worker]] = game'[worker]
  BY DEF TickInv
<1> QED
  BY <1>1, <1>2, <1>4, <1>5, TickSame

LEMMA TickSpoiltStep ==
    ASSUME PayInv, TickInv,
           Crash \/ \E u \in Users, g \in GameAccounts : Relink(u, g)
    PROVE  TickInv'
<1>1. EconTypes /\ worker \in Processes /\ todo \in [GameAccounts -> Nat]
  BY RequestOf DEF PayInv, EconTypes
<1>2. ~clean' /\ UNCHANGED <<txns, origin, online, ticks>>
  BY DEF Crash, Relink, LinkAccount, storeVars
<1>3. /\ todo' \in [GameAccounts -> Nat]
      /\ \A g \in GameAccounts : todo'[g] <= todo[g] /\ InHand(g)' <= InHand(g)
  <2>1. CASE Crash
    <3>1. todo' = [g \in GameAccounts |-> 0] /\ pc'[worker] = "idle"
      BY <1>1, <2>1 DEF Crash, Nobody
    <3> QED
      BY <1>1, <3>1 DEF InHand
  <2>2. CASE \E u \in Users, g \in GameAccounts : Relink(u, g)
    <3>1. todo' = todo /\ pc' = pc /\ game' = game
      BY <2>2 DEF Relink
    <3> QED
      BY <1>1, <3>1 DEF InHand
  <2> QED
    BY <2>1, <2>2
<1>4. ASSUME NEW g \in GameAccounts
      PROVE  /\ Cardinality(PaidFor(g)') + todo'[g] + InHand(g)'
                    <= Cardinality(PaidFor(g)) + todo[g] + InHand(g)
             /\ Cardinality(PaidFor(g)') \in Nat
  <2>1. PaidFor(g)' = PaidFor(g) /\ Cardinality(PaidFor(g)) \in Nat
    BY <1>1, <1>2, PaidSame, PaidFinite
  <2>2. /\ todo[g] \in Nat /\ todo'[g] \in Nat
        /\ InHand(g) \in Nat /\ InHand(g)' \in Nat
    BY <1>1, <1>3 DEF InHand
  <2>3. Cardinality(PaidFor(g)') = Cardinality(PaidFor(g))
    BY <2>1
  <2> QED
    BY <1>3, <2>1, <2>2, <2>3
<1> QED
  BY <1>1, <1>2, <1>3, <1>4, TickSpoilt

LEMMA TickStep ==
    ASSUME PayInv, TickInv, [Next]_vars
    PROVE  TickInv'
<1>1. EconTypes
  BY DEF PayInv
<1>2. ASSUME NEW p \in Payments, NEW n \in 1..MaxWork, Send(p, n)
      PROVE  TickInv'
  <2>1. /\ UNCHANGED <<link, online, todo, ticks, txns, origin, clean, game, acct>>
        /\ pc'[worker] = pc[worker]
    BY <1>1, <1>2, RequestOf DEF Send, Goto, EconTypes, storeVars
  <2> QED
    BY <2>1, TickElsewhere
<1>3. ASSUME NEW r \in Requests, Handle(r)
      PROVE  TickInv'
  <2>1. /\ UNCHANGED <<link, online, todo, ticks, txns, origin, clean, acct>>
        /\ pc'[worker] = pc[worker] /\ game'[worker] = game[worker]
    BY <1>1, <1>3, RequestOf DEF Handle, Finish, Goto, EconTypes, storeVars
  <2> QED
    BY <2>1, TickElsewhere
<1>4. ASSUME NEW r \in Requests, Hear(r) \/ HangUp(r)
      PROVE  TickInv'
  <2>1. UNCHANGED <<link, online, todo, ticks, txns, origin, clean, acct, pc, game>>
    BY <1>4 DEF Hear, HangUp, storeVars
  <2> QED
    BY <2>1, TickElsewhere
<1>5. ASSUME NEW r \in Requests, LinkByGameAccount(r)
      PROVE  TickInv'
  <2>1. UNCHANGED <<link, online, todo, ticks, txns, origin, game>>
    BY <1>5 DEF LinkByGameAccount, storeVars
  <2>2. /\ pc'[worker] = pc[worker] /\ acct'[worker] = acct[worker]
        /\ clean' => clean
    BY <1>1, <1>5, RequestOf DEF LinkByGameAccount, Failed, Finish, Goto, EconTypes
  <2> QED
    BY <2>1, <2>2, TickElsewhere
<1>6. ASSUME NEW r \in Requests, CreditAccount(r)
      PROVE  TickInv'
  <2>1. UNCHANGED <<online, todo, ticks, game, acct>>
    BY <1>6 DEF CreditAccount
  <2>2. pc'[worker] = pc[worker] /\ (clean' => clean)
    BY <1>1, <1>6, RequestOf DEF CreditAccount, Failed, Finish, Goto, EconTypes
  <2>3. link' = link
    BY <1>6 DEF CreditAccount, Paid, Credit, storeVars
  <2>4. UNCHANGED <<txns, origin>> \/ Paid(r)
    BY <1>6 DEF CreditAccount, storeVars
  <2> QED
    BY <2>1, <2>2, <2>3, <2>4, TickElsewhere
<1>7. CASE EndTick
  <2>1. /\ UNCHANGED <<link, online, todo, ticks, txns, origin, clean>>
        /\ pc[worker] = "next" /\ pc'[worker] = "idle"
    BY <1>1, <1>7, RequestOf DEF EndTick, Goto, EconTypes, storeVars
  <2> QED
    BY <2>1, TickElsewhere
<1>8. CASE UNCHANGED vars
  <2>1. UNCHANGED <<link, online, todo, ticks, txns, origin, clean, acct, pc, game>>
    BY <1>8 DEF vars, econVars, storeVars
  <2> QED
    BY <2>1, TickElsewhere
<1>9. CASE Tick
  BY <1>7, <1>9, TickNextPlayer, TickLookup, TickCredit DEF Tick, Call
<1>10. CASE \E r \in Requests : Handle(r) \/ Call(r) \/ Hear(r) \/ HangUp(r)
  BY <1>3, <1>4, <1>5, <1>6, <1>10 DEF Call
<1> QED
  BY <1>2, <1>8, <1>9, <1>10, TickStart, TickSpoiltStep DEF Next

LEMMA TickInit == Init => TickInv
<1> SUFFICES ASSUME Init PROVE TickInv
  OBVIOUS
<1>1. Rowids = {} /\ link = [u \in Users |-> None] /\ pc[worker] = "idle"
  <2>1. txns = <<>> /\ worker \in Processes
    BY RequestOf DEF Init, StoreInit
  <2> QED
    BY <2>1 DEF Init, StoreInit, Rowids
<1>2. \A g \in GameAccounts : PaidFor(g) = {} /\ InHand(g) = 0
  BY <1>1 DEF PaidFor, RowsOf, InHand
<1>3. Cardinality({}) = 0
  BY FS_EmptySet
<1>4. \A u \in Users, g \in GameAccounts : link[u] # g
  BY <1>1, StoreAssumption DEF StoreAssumption
<1>5. \A g \in GameAccounts : todo[g] = 0 /\ online[g] = 0
  BY DEF Init, Nobody
<1>6. \A g \in GameAccounts : Cardinality(PaidFor(g)) + todo[g] + InHand(g) <= online[g]
  BY <1>2, <1>3, <1>5
<1> QED
  BY <1>1, <1>4, <1>6 DEF TickInv

(* The count of a tick holds in every state. *)
THEOREM TickInvCorrect == Spec => []TickInv
<1>1. PayInv /\ TickInv /\ [Next]_vars => TickInv'
  BY TickStep
<1> QED
  BY PayInvCorrect, TickInit, <1>1, PTL DEF Spec

(* OncePerTick is a property of the runs: the accrual loop pays a user for a
   game account no more often than the tick's query listed it, and only a user
   that held it during the tick, though it looks the account up and credits it
   in two calls (economy.go:57-79). *)
THEOREM OncePerTickCorrect == Spec => []OncePerTick
<1>1. PayInv /\ TickInv => OncePerTick
  <2> SUFFICES ASSUME PayInv, TickInv, NEW u \in Users, NEW g \in GameAccounts
               PROVE  /\ Cardinality(PaidInTick(u, g)) <= online[g]
                      /\ PaidInTick(u, g) # {} => <<u, g>> \in held[worker]
    BY Zenon DEF OncePerTick
  <2>1. EconTypes
    BY DEF PayInv
  <2>2. Cardinality(PaidInTick(u, g)) <= online[g]
    <3>1. Cardinality(PaidFor(g)) + todo[g] + InHand(g) <= online[g]
      BY DEF TickInv
    <3>2. /\ Cardinality(PaidFor(g)) \in Nat /\ Cardinality(PaidInTick(u, g)) \in Nat
          /\ Cardinality(PaidInTick(u, g)) <= Cardinality(PaidFor(g))
          /\ todo[g] \in Nat /\ InHand(g) \in Nat /\ online[g] \in Nat
      BY <2>1, PaidFinite DEF EconTypes, InHand
    <3> QED
      BY <3>1, <3>2
  <2>3. ASSUME NEW n \in PaidInTick(u, g)
        PROVE  <<u, g>> \in held[worker]
    <3>1. /\ n \in Rowids /\ origin[n].by = worker /\ origin[n].tick = ticks
          /\ origin[n].game = g /\ txns[n].acct = u
      BY DEF PaidInTick, RowsOf
    <3> QED
      BY <3>1 DEF PayInv, RowFine
  <2> QED
    BY <2>2, <2>3
<1> QED
  BY PayInvCorrect, TickInvCorrect, <1>1, PTL

(* CleanTickPaysAll is a property of the runs: the loop goes on past a player it
   cannot pay, so a tick without a failed call and without a relink has paid
   every player of its query who is linked (economy.go:59-65). *)
THEOREM CleanTickCorrect == Spec => []CleanTickPaysAll
<1>1. PayInv /\ TickInv => CleanTickPaysAll
  <2> SUFFICES ASSUME PayInv, TickInv, clean, pc[worker] = "idle", NEW u \in Users,
                      link[u] # None
               PROVE  Cardinality(PaidInTick(u, link[u])) = online[link[u]]
    BY DEF CleanTickPaysAll
  <2>1. PICK g \in GameAccounts : link[u] = g
    BY DEF PayInv, EconTypes, StoreTypeOK
  <2>2. Cardinality(PaidInTick(u, g)) + todo[g] + InHand(g) = online[g]
    BY <2>1 DEF TickInv
  <2>3. todo[g] = 0 /\ InHand(g) = 0
    BY DEF PayInv, WorkerFine, InHand
  <2>4. Cardinality(PaidInTick(u, g)) \in Nat
    BY PaidFinite DEF PayInv
  <2>5. Cardinality(PaidInTick(u, g)) = online[g]
    BY <2>2, <2>3, <2>4
  <2> QED
    BY <2>1, <2>5
<1> QED
  BY PayInvCorrect, TickInvCorrect, <1>1, PTL

-----------------------------------------------------------------------------
(* What the rewards leave of the store's promises.  A step of Economy credits an
   account, links one, or leaves the tables alone; the worker's reward need not
   be one of the Amounts of a payment. *)
LEMMA StorePart ==
    ASSUME PayInv, [Next]_vars
    PROVE  \/ \E u \in Users, amount \in Nat : Credit(u, amount, "earn")
           \/ \E u \in Users, g \in GameAccounts : LinkAccount(u, g)
           \/ UNCHANGED storeVars
<1>1. ASSUME NEW x \in Processes, Call(x)
      PROVE  UNCHANGED storeVars \/ \E u \in Users, amount \in Nat : Credit(u, amount, "earn")
  <2>1. CASE LinkByGameAccount(x)
    BY <2>1 DEF LinkByGameAccount
  <2>2. CASE CreditAccount(x) /\ Paid(x)
    <3>1. acct[x] \in Users /\ EconTypes
      BY <2>2 DEF CreditAccount, PayInv, FoundLinked
    <3>2. Amount(x) \in Nat
      BY <3>1, RequestOf, EconomyAssumption DEF Amount, EconTypes
    <3> QED
      BY <2>2, <3>1, <3>2 DEF Paid
  <2>3. CASE CreditAccount(x) /\ UNCHANGED storeVars
    BY <2>3
  <2> QED
    BY <1>1, <2>1, <2>2, <2>3 DEF Call, CreditAccount
<1>2. CASE \E n \in 1..MaxWork, q \in Payments : Send(q, n)
  BY <1>2 DEF Send
<1>3. ASSUME NEW r \in Requests, Handle(r) \/ Hear(r) \/ HangUp(r)
      PROVE  UNCHANGED storeVars
  BY <1>3 DEF Handle, Hear, HangUp
<1>4. CASE OnlinePlayers \/ NextPlayer \/ EndTick \/ Crash
  BY <1>4 DEF OnlinePlayers, NextPlayer, EndTick, Crash
<1>5. CASE \E u \in Users, g \in GameAccounts : Relink(u, g)
  BY <1>5 DEF Relink
<1>6. CASE UNCHANGED vars
  BY <1>6 DEF vars
<1>7. Requests \subseteq Processes /\ worker \in Processes
  BY DEF Processes
<1> QED
  BY <1>1, <1>2, <1>3, <1>4, <1>5, <1>6, <1>7 DEF Next, Tick

(* LedgerReconciles is a property of the runs: whatever ticks, payments sent
   again, relinks, failing calls and stops there are, a wallet holds exactly what
   its ledger says (wallet.go, economy.go:57-79, webhooks.go:83-104). *)
THEOREM EconomyLedgerCorrect == Spec => []LedgerReconciles
<1>1. PayInv /\ LedgerInv /\ [Next]_vars => LedgerInv'
  <2> SUFFICES ASSUME PayInv, LedgerInv, [Next]_vars PROVE LedgerInv'
    OBVIOUS
  <2>1. StoreTypeOK
    BY DEF PayInv, EconTypes
  <2>2. CASE \E u \in Users, amount \in Nat : Credit(u, amount, "earn")
    BY <2>1, <2>2, LedgerCredit DEF TxnKinds
  <2>3. CASE \E u \in Users, g \in GameAccounts : LinkAccount(u, g)
    BY <2>3 DEF LinkAccount, LedgerInv
  <2>4. CASE UNCHANGED storeVars
    BY <2>4 DEF storeVars, LedgerInv
  <2> QED
    BY <2>2, <2>3, <2>4, StorePart
<1>2. Init => LedgerInv
  BY LedgerInit DEF Init
<1> QED
  BY <1>1, <1>2, PayInvCorrect, LedgerInvImplies, PTL DEF Spec

(* AccountsSound is a property of the runs: while users relink and rewards are
   paid, no game account has two owners, and no row is without a wallet
   (accounts.go, wallet.go). *)
THEOREM EconomyAccountsCorrect == Spec => []AccountsSound
<1>1. PayInv /\ AccountsSound /\ [Next]_vars => AccountsSound'
  <2> SUFFICES ASSUME PayInv, AccountsSound, [Next]_vars PROVE AccountsSound'
    OBVIOUS
  <2>1. StoreTypeOK
    BY DEF PayInv, EconTypes
  <2>2. CASE \E u \in Users, amount \in Nat : Credit(u, amount, "earn")
    BY <2>1, <2>2, AccountsCredit DEF TxnKinds
  <2>3. CASE \E u \in Users, g \in GameAccounts : LinkAccount(u, g)
    BY <2>1, <2>3, AccountsLink
  <2>4. CASE UNCHANGED storeVars
    BY <2>4 DEF storeVars, AccountsSound, Rowids
  <2> QED
    BY <2>2, <2>3, <2>4, StorePart
<1>2. Init => AccountsSound
  BY DEF Init, StoreInit, AccountsSound, Rowids
<1> QED
  BY <1>1, <1>2, PayInvCorrect, PTL DEF Spec
=============================================================================
