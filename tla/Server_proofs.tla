----------------------------- MODULE Server_proofs -----------------------------
(* Proofs about the server process.  Of its life (Lifecycle): for any number of
   tasks and any size of the pool, no store call is cut off by a signal, and no
   task is taken on too early or too late.  Of the sessions of its dashboard
   (WebSession): for any names, secrets, lifetime and number of restarts, a
   token lasts as long as promised and less than a second longer. *)
EXTENDS Lifecycle, WebSession, SequenceTheorems, TLAPS

-----------------------------------------------------------------------------
(* Lifecycle: the order of main, spelled out *)
LEMMA AfterIs ==
    /\ After("connect") = "migrate" /\ After("migrate") = "deliverer"
    /\ After("deliverer") = "bot" /\ After("bot") = "register"
    /\ After("register") = "worker" /\ After("worker") = "hooks"
    /\ After("hooks") = "web" /\ After("web") = "wait"
    /\ After("wait") = "return" /\ After("return") = "exit"
<1>1. Len(Order) = 11
  BY DEF Order
<1>2. ASSUME NEW i \in 1..10, NEW n \in 1..10, Order[n] = Order[i]
      PROVE  n = i
  BY <1>2 DEF Order
<1>3. ASSUME NEW i \in 1..10
      PROVE  After(Order[i]) = Order[i + 1]
  <2> DEFINE k == CHOOSE n \in 1..(Len(Order) - 1) : Order[n] = Order[i]
  <2>1. i \in 1..(Len(Order) - 1)
    BY <1>1
  <2>2. k \in 1..(Len(Order) - 1) /\ Order[k] = Order[i]
    BY <2>1
  <2> HIDE DEF k
  <2>3. k = i
    BY <1>1, <1>2, <2>2
  <2>4. After(Order[i]) = Order[1 + k]
    BY DEF After, k
  <2> QED
    BY <2>3, <2>4
<1> QED
  <2>1. /\ After(Order[1]) = Order[2] /\ After(Order[2]) = Order[3]
        /\ After(Order[3]) = Order[4] /\ After(Order[4]) = Order[5]
        /\ After(Order[5]) = Order[6] /\ After(Order[6]) = Order[7]
        /\ After(Order[7]) = Order[8] /\ After(Order[8]) = Order[9]
        /\ After(Order[9]) = Order[10] /\ After(Order[10]) = Order[11]
    BY <1>3
  <2> QED
    BY <2>1 DEF Order

-----------------------------------------------------------------------------
(* The calls main may have deferred, the next one to run first. *)

StoreOnly == <<"closeStore">>

BotToo == <<"stopBot", "closeStore">>

HooksToo == <<"closeHooks", "closeStore">>

BothToo == <<"closeHooks", "stopBot", "closeStore">>

LEMMA Pushed ==
    ASSUME NEW S, NEW call \in S, NEW s \in Seq(S), NEW l \in Seq(S),
           Len(l) = Len(s) + 1, l[1] = call, \A i \in 1..Len(s) : l[i + 1] = s[i]
    PROVE  <<call>> \o s = l
<1>1. <<call>> \in Seq(S) /\ Len(<<call>>) = 1 /\ <<call>>[1] = call
  OBVIOUS
<1>2. /\ <<call>> \o s \in Seq(S) /\ Len(<<call>> \o s) = 1 + Len(s)
      /\ \A i \in 1..(1 + Len(s)) : (<<call>> \o s)[i] = IF i <= 1 THEN <<call>>[i] ELSE s[i - 1]
  BY <1>1, ConcatProperties
<1>3. ASSUME NEW i \in 1..(1 + Len(s))
      PROVE  (<<call>> \o s)[i] = l[i]
  <2>1. CASE i = 1
    BY <1>1, <1>2, <2>1
  <2>2. CASE i # 1
    <3>1. i - 1 \in 1..Len(s) /\ (i - 1) + 1 = i /\ ~(i <= 1)
      BY <2>2
    <3> QED
      BY <1>2, <3>1
  <2> QED
    BY <2>1, <2>2
<1> QED
  BY <1>2, <1>3, SeqEqual

LEMMA ListsAre ==
    /\ Head(StoreOnly) = "closeStore" /\ Tail(StoreOnly) = <<>>
    /\ Head(BotToo) = "stopBot" /\ Tail(BotToo) = StoreOnly
    /\ Head(HooksToo) = "closeHooks" /\ Tail(HooksToo) = StoreOnly
    /\ Head(BothToo) = "closeHooks" /\ Tail(BothToo) = BotToo
    /\ <<"closeStore">> \o <<>> = StoreOnly
    /\ <<"stopBot">> \o StoreOnly = BotToo
    /\ <<"closeHooks">> \o StoreOnly = HooksToo
    /\ <<"closeHooks">> \o BotToo = BothToo
<1>1. Tail(StoreOnly) = <<>> /\ Tail(BotToo) = StoreOnly /\ Tail(HooksToo) = StoreOnly
      /\ Tail(BothToo) = BotToo
  BY DEF StoreOnly, BotToo, HooksToo, BothToo
<1>2. /\ Head(StoreOnly) = "closeStore" /\ Head(BotToo) = "stopBot"
      /\ Head(HooksToo) = "closeHooks" /\ Head(BothToo) = "closeHooks"
  BY DEF StoreOnly, BotToo, HooksToo, BothToo
<1>3. <<"closeStore">> \o <<>> = StoreOnly
  BY DEF StoreOnly
<1> DEFINE S == {"closeStore", "stopBot", "closeHooks"}
<1>4. <<"stopBot">> \o StoreOnly = BotToo
  <2>1. /\ StoreOnly \in Seq(S) /\ Len(StoreOnly) = 1 /\ StoreOnly[1] = "closeStore"
        /\ BotToo \in Seq(S) /\ Len(BotToo) = 2
        /\ BotToo[1] = "stopBot" /\ BotToo[2] = "closeStore"
    BY DEF StoreOnly, BotToo
  <2>2. \A i \in 1..1 : BotToo[i + 1] = StoreOnly[i]
    BY <2>1
  <2> QED
    BY <2>1, <2>2, Pushed
<1>5. <<"closeHooks">> \o StoreOnly = HooksToo
  <2>1. /\ StoreOnly \in Seq(S) /\ Len(StoreOnly) = 1 /\ StoreOnly[1] = "closeStore"
        /\ HooksToo \in Seq(S) /\ Len(HooksToo) = 2
        /\ HooksToo[1] = "closeHooks" /\ HooksToo[2] = "closeStore"
    BY DEF StoreOnly, HooksToo
  <2>2. \A i \in 1..Len(StoreOnly) : HooksToo[i + 1] = StoreOnly[i]
    BY <2>1
  <2>3. "closeHooks" \in S /\ Len(HooksToo) = Len(StoreOnly) + 1
    BY <2>1
  <2> HIDE DEF S
  <2> QED
    BY <2>1, <2>2, <2>3, Pushed
<1>6. <<"closeHooks">> \o BotToo = BothToo
  <2>1. /\ BotToo \in Seq(S) /\ Len(BotToo) = 2
        /\ BotToo[1] = "stopBot" /\ BotToo[2] = "closeStore"
    BY DEF BotToo
  <2>2. /\ BothToo \in Seq(S) /\ Len(BothToo) = 3 /\ BothToo[1] = "closeHooks"
        /\ BothToo[2] = "stopBot" /\ BothToo[3] = "closeStore"
    BY DEF BothToo
  <2>3. \A i \in 1..Len(BotToo) : BothToo[i + 1] = BotToo[i]
    BY <2>1, <2>2
  <2>4. "closeHooks" \in S /\ Len(BothToo) = Len(BotToo) + 1
    BY <2>1, <2>2
  <2> HIDE DEF S
  <2> QED
    BY <2>1, <2>2, <2>3, <2>4, Pushed
<1> QED
  BY <1>1, <1>2, <1>3, <1>4, <1>5, <1>6

LEMMA ListsDiffer ==
    /\ StoreOnly # <<>> /\ BotToo # <<>> /\ HooksToo # <<>> /\ BothToo # <<>>
    /\ StoreOnly # BotToo /\ StoreOnly # HooksToo /\ StoreOnly # BothToo
    /\ BotToo # HooksToo /\ BotToo # BothToo /\ HooksToo # BothToo
<1>1. /\ Len(<<>>) = 0 /\ Len(StoreOnly) = 1 /\ Len(BotToo) = 2 /\ Len(HooksToo) = 2
      /\ Len(BothToo) = 3 /\ Head(BotToo) = "stopBot" /\ Head(HooksToo) = "closeHooks"
  BY DEF StoreOnly, BotToo, HooksToo, BothToo
<1>2. StoreOnly # <<>> /\ BotToo # <<>> /\ HooksToo # <<>> /\ BothToo # <<>>
  BY <1>1
<1>3. StoreOnly # BotToo /\ StoreOnly # HooksToo /\ StoreOnly # BothToo
  BY <1>1
<1>4. BotToo # HooksToo /\ BotToo # BothToo /\ HooksToo # BothToo
  BY <1>1
<1> QED
  BY <1>2, <1>3, <1>4

-----------------------------------------------------------------------------
(* The inductive invariant *)

LifeTypes ==
    /\ configured \in SUBSET Parts
    /\ main \in {"connect", "migrate", "deliverer", "bot", "register", "worker", "hooks",
                 "web", "wait", "return", "exit", "fatal"}
    /\ deferred \in {<<>>, StoreOnly, BotToo, HooksToo, BothToo}
    /\ serving \in [Parts -> {"off", "starting", "on", "closed"}]
    /\ pool \in {"none", "open", "closing", "closed"}
    /\ part \in [Tasks -> Parts \cup {"none"}]
    /\ task \in [Tasks -> {"none", "new", "call", "between", "done"}]

(* Until the commands are registered only the bot may be at work, and nothing
   before the gateway is open; a failed start leaves it so. *)
Starting ==
    /\ main \in {"connect", "migrate", "deliverer", "bot", "register", "fatal"} =>
        /\ \A x \in Parts : x # "bot" => serving[x] = "off"
        /\ \A t \in Tasks : task[t] # "none" => part[t] = "bot"
    /\ main \in {"connect", "migrate", "deliverer", "bot"} => serving["bot"] = "off"
    /\ serving["bot"] \in {"starting", "on"} => "bot" \in configured
    /\ \A x \in Parts : serving[x] # "off" => migrated
    /\ main \notin {"connect", "migrate", "fatal"} => migrated

(* Where main is says what it has deferred. *)
Deferring ==
    /\ main = "connect" => deferred = <<>>
    /\ main \in {"migrate", "deliverer", "bot", "register"} => deferred = StoreOnly
    /\ main \in {"worker", "hooks"} => deferred \in {StoreOnly, BotToo}
    /\ main \in {"migrate", "deliverer", "bot", "register", "worker", "hooks", "web", "wait"} =>
        pool = "open" /\ deferred # <<>>
    /\ main = "return" => pool # "none" /\ (pool = "closed" <=> deferred = <<>>)
    /\ main = "exit" => pool = "closed"

(* The store is closed after the bot and the webhooks, and not under a call. *)
Closing ==
    /\ serving["bot"] \in {"starting", "on"} /\ main \notin {"register", "fatal"} =>
        deferred \in {BotToo, BothToo}
    /\ serving["hooks"] \in {"starting", "on"} => deferred \in {HooksToo, BothToo}
    /\ pool \in {"closing", "closed"} =>
        main \in {"return", "exit"} /\ deferred \in {StoreOnly, <<>>}
    /\ pool = "closed" => Busy = {}

LifeInv == LifeTypes /\ Starting /\ Deferring /\ Closing

LEMMA LifeInvInit == Init => LifeInv
  BY ListsDiffer
     DEF Init, LifeInv, LifeTypes, Starting, Deferring, Closing, Busy, Parts

(* The steps of main. *)
LEMMA MainKeeps ==
    ASSUME LifeInv, Main \/ Fatal
    PROVE  LifeInv'
<1> USE DEF LifeInv
<1>1. CASE Fatal
  BY <1>1 DEF Fatal, LifeTypes, Starting, Deferring, Closing, Busy, Parts
<1>2. CASE Connect
  <2>1. main = "connect" /\ main' = "migrate" /\ pool' = "open" /\ deferred' = StoreOnly
        /\ UNCHANGED <<configured, signalled, migrated, serving, part, task>>
    BY <1>2, AfterIs, ListsAre DEF Connect, GoOn, Defer, Deferring
  <2> QED
    BY <2>1, ListsDiffer DEF LifeTypes, Starting, Deferring, Closing, Busy, Parts
<1>3. CASE Migrate
  <2>1. main = "migrate" /\ main' = "deliverer" /\ migrated' = TRUE
        /\ UNCHANGED <<configured, deferred, signalled, serving, pool, part, task>>
    BY <1>3, AfterIs DEF Migrate, GoOn
  <2> QED
    BY <2>1 DEF LifeTypes, Starting, Deferring, Closing, Busy, Parts
<1>4. CASE NewDeliverer
  <2>1. main = "deliverer" /\ main' = "bot"
        /\ UNCHANGED <<configured, deferred, signalled, migrated, serving, pool, part, task>>
    BY <1>4, AfterIs DEF NewDeliverer, GoOn
  <2> QED
    BY <2>1 DEF LifeTypes, Starting, Deferring, Closing, Busy, Parts
<1>5. CASE OpenGateway
  <2>1. main = "bot" /\ main' = "register"
        /\ UNCHANGED <<configured, deferred, signalled, migrated, pool, part, task>>
    BY <1>5, AfterIs DEF OpenGateway, GoOn
  <2>2. /\ serving' \in [Parts -> {"off", "starting", "on", "closed"}]
        /\ serving'["bot"] \in {"starting", "on"} => "bot" \in configured
        /\ \A x \in Parts : x # "bot" => serving'[x] = serving[x]
    BY <1>5, <2>1 DEF OpenGateway, LifeTypes, Starting, Parts
  <2> QED
    BY <2>1, <2>2 DEF LifeTypes, Starting, Deferring, Closing, Busy, Parts
<1>6. CASE RegisterCommands
  <2>1. main = "register" /\ main' = "worker" /\ deferred = StoreOnly
        /\ UNCHANGED <<configured, signalled, migrated, serving, pool, part, task>>
    BY <1>6, AfterIs DEF RegisterCommands, GoOn, Deferring
  <2>2. deferred' = IF "bot" \in configured THEN BotToo ELSE StoreOnly
    BY <1>6, <2>1, ListsAre DEF RegisterCommands, Defer
  <2> QED
    BY <2>1, <2>2, ListsDiffer DEF LifeTypes, Starting, Deferring, Closing, Busy, Parts
<1>7. ASSUME NEW x \in {"worker", "web"}, Spawn(x)
      PROVE  LifeInv'
  <2>1. /\ main = x /\ main' \in {"hooks", "wait"} /\ (x = "worker" => main' = "hooks")
        /\ (x = "web" => main' = "wait")
        /\ UNCHANGED <<configured, deferred, signalled, migrated, pool, part, task>>
    BY <1>7, AfterIs DEF Spawn, GoOn
  <2>2. /\ serving' \in [Parts -> {"off", "starting", "on", "closed"}]
        /\ \A y \in Parts : y # x => serving'[y] = serving[y]
    BY <1>7 DEF Spawn, LifeTypes, Parts
  <2> QED
    BY <2>1, <2>2 DEF LifeTypes, Starting, Deferring, Closing, Busy, Parts
<1>8. CASE Spawn("hooks")
  <2>1. /\ main = "hooks" /\ main' = "web" /\ deferred \in {StoreOnly, BotToo}
        /\ UNCHANGED <<configured, signalled, migrated, pool, part, task>>
    BY <1>8, AfterIs DEF Spawn, GoOn, Deferring
  <2>2. /\ serving' \in [Parts -> {"off", "starting", "on", "closed"}]
        /\ \A y \in Parts : y # "hooks" => serving'[y] = serving[y]
    BY <1>8 DEF Spawn, LifeTypes, Parts
  <2>3. /\ deferred' \in {deferred, HooksToo, BothToo}
        /\ deferred = BotToo => deferred' \in {BotToo, BothToo}
        /\ serving'["hooks"] # serving["hooks"] => deferred' \in {HooksToo, BothToo}
    <3>1. CASE "hooks" \in configured
      <4>1. deferred' = <<"closeHooks">> \o deferred
        BY <1>8, <3>1 DEF Spawn, Defer
      <4> QED
        BY <2>1, <4>1, ListsAre, ListsDiffer
    <3>2. CASE "hooks" \notin configured
      BY <1>8, <3>2 DEF Spawn
    <3> QED
      BY <3>1, <3>2
  <2>4. serving["hooks"] \notin {"starting", "on"}
    BY <2>1, ListsDiffer DEF Closing
  <2> QED
    BY <2>1, <2>2, <2>3, <2>4, ListsDiffer
       DEF LifeTypes, Starting, Deferring, Closing, Busy, Parts
<1>9. CASE Wait
  <2>1. main = "wait" /\ main' = "return"
        /\ UNCHANGED <<configured, deferred, signalled, migrated, serving, pool, part, task>>
    BY <1>9, AfterIs DEF Wait, GoOn
  <2> QED
    BY <2>1 DEF LifeTypes, Starting, Deferring, Closing, Busy, Parts
<1>10. CASE CloseStore
  <2>1. /\ main = "return" /\ deferred = StoreOnly
        /\ UNCHANGED <<configured, main, signalled, migrated, serving, part, task>>
    BY <1>10, ListsAre DEF CloseStore, LifeTypes
  <2>2. serving["bot"] \notin {"starting", "on"} /\ serving["hooks"] \notin {"starting", "on"}
    BY <2>1, ListsDiffer DEF Closing
  <2>3. \/ pool = "open" /\ pool' = "closing" /\ deferred' = deferred
        \/ pool = "closing" /\ Busy = {} /\ pool' = "closed" /\ deferred' = <<>>
    BY <1>10, <2>1, ListsAre DEF CloseStore
  <2> QED
    BY <2>1, <2>2, <2>3, ListsDiffer
       DEF LifeTypes, Starting, Deferring, Closing, Busy, Parts
<1>11. CASE ClosePart
  <2>0. CloseOf["stopBot"] = "bot" /\ CloseOf["closeHooks"] = "hooks"
    BY DEF CloseOf
  <2>1. /\ main = "return" /\ deferred \in {BotToo, HooksToo, BothToo}
        /\ UNCHANGED <<configured, main, signalled, migrated, pool, part, task>>
    BY <1>11, ListsAre DEF ClosePart, LifeTypes
  <2>2. CASE deferred = BotToo
    <3>0. serving["hooks"] \notin {"starting", "on"}
      BY <2>2, ListsDiffer DEF Closing
    <3>1. deferred' = StoreOnly /\ serving' = [serving EXCEPT !["bot"] = "closed"]
      BY <1>11, <2>2, <2>0, ListsAre DEF ClosePart
    <3> QED
      BY <2>1, <2>2, <3>0, <3>1, ListsDiffer
         DEF LifeTypes, Starting, Deferring, Closing, Busy, Parts
  <2>3. CASE deferred = HooksToo
    <3>0. serving["bot"] \notin {"starting", "on"}
      BY <2>1, <2>3, ListsDiffer DEF Closing
    <3>1. deferred' = StoreOnly /\ serving' = [serving EXCEPT !["hooks"] = "closed"]
      BY <1>11, <2>3, <2>0, ListsAre DEF ClosePart
    <3> QED
      BY <2>1, <2>3, <3>0, <3>1, ListsDiffer
         DEF LifeTypes, Starting, Deferring, Closing, Busy, Parts
  <2>4. CASE deferred = BothToo
    <3>1. deferred' = BotToo /\ serving' = [serving EXCEPT !["hooks"] = "closed"]
      BY <1>11, <2>4, <2>0, ListsAre DEF ClosePart
    <3> QED
      BY <2>1, <2>4, <3>1, ListsDiffer
         DEF LifeTypes, Starting, Deferring, Closing, Busy, Parts
  <2> QED
    BY <2>1, <2>2, <2>3, <2>4
<1>12. CASE Exit
  <2>1. main = "return" /\ main' = "exit" /\ deferred = <<>>
        /\ UNCHANGED <<configured, deferred, signalled, migrated, serving, pool, part, task>>
    BY <1>12, AfterIs DEF Exit, GoOn
  <2> QED
    BY <2>1 DEF LifeTypes, Starting, Deferring, Closing, Busy, Parts
<1> QED
  BY <1>1, <1>2, <1>3, <1>4, <1>5, <1>6, <1>7, <1>8, <1>9, <1>10, <1>11, <1>12 DEF Main

-----------------------------------------------------------------------------
(* The steps of the goroutines. *)
LEMMA PartsKeep ==
    ASSUME LifeInv, NEW x \in Parts, Listen(x) \/ Watch(x)
    PROVE  LifeInv'
<1>1. /\ serving[x] \in {"starting", "on"}
      /\ UNCHANGED <<configured, main, deferred, signalled, migrated, pool, part, task>>
      /\ \/ serving' = [serving EXCEPT ![x] = "on"]
         \/ serving' = [serving EXCEPT ![x] = "closed"]
  BY DEF Listen, Watch
<1>2. /\ serving' \in [Parts -> {"off", "starting", "on", "closed"}]
      /\ serving'[x] \in {"on", "closed"}
      /\ \A y \in Parts : y # x => serving'[y] = serving[y]
  BY <1>1 DEF LifeInv, LifeTypes
<1> QED
  BY <1>1, <1>2 DEF LifeInv, LifeTypes, Starting, Deferring, Closing, Busy, Parts

LEMMA TasksKeep ==
    ASSUME LifeInv, NEW t \in Tasks,
           \/ CallStore(t) \/ CallReturns(t) \/ EndTask(t)
           \/ \E x \in Parts : Arrive(t, x)
    PROVE  LifeInv'
<1>1. /\ UNCHANGED <<configured, main, deferred, signalled, migrated, serving, pool>>
      /\ main \notin {"exit", "fatal"}
  BY DEF CallStore, CallReturns, EndTask, Arrive, Up
<1>2. CASE CallStore(t) \/ CallReturns(t) \/ EndTask(t)
  <2>1. PICK at \in {"call", "between", "done"} : task' = [task EXCEPT ![t] = at]
    BY <1>2 DEF CallStore, CallReturns, EndTask
  <2>2. /\ task[t] # "none" /\ part' = part
        /\ CallStore(t) => pool = "open" /\ (at = "call" => CallStore(t))
    BY <1>2 DEF CallStore, CallReturns, EndTask
  <2>3. pool = "closed" => Busy' = {}
    <3>1. CASE pool = "closed"
      <4>1. Busy = {} /\ ~CallStore(t)
        BY <2>2, <3>1 DEF LifeInv, Closing
      <4>2. task' = [task EXCEPT ![t] = "between"] \/ task' = [task EXCEPT ![t] = "done"]
        BY <1>2, <4>1 DEF CallReturns, EndTask
      <4> QED
        BY <4>1, <4>2 DEF Busy, LifeInv, LifeTypes
    <3> QED
      BY <3>1
  <2>4. Starting'
    BY <1>1, <2>1, <2>2 DEF LifeInv, LifeTypes, Starting
  <2> QED
    BY <1>1, <2>1, <2>2, <2>3, <2>4 DEF LifeInv, LifeTypes, Deferring, Closing
<1>3. ASSUME NEW x \in Parts, Arrive(t, x)
      PROVE  LifeInv'
  <2>1. /\ serving[x] = "on" /\ task[t] = "none"
        /\ part' = [part EXCEPT ![t] = x] /\ task' = [task EXCEPT ![t] = "new"]
    BY <1>3 DEF Arrive
  <2>2. Busy' = Busy
    BY <2>1 DEF Busy, LifeInv, LifeTypes
  <2>3. Starting'
    BY <1>1, <2>1 DEF LifeInv, LifeTypes, Starting
  <2> QED
    BY <1>1, <2>1, <2>2, <2>3 DEF LifeInv, LifeTypes, Deferring, Closing
<1> QED
  BY <1>2, <1>3

LEMMA LifeInvStep ==
    ASSUME LifeInv, [Next]_vars
    PROVE  LifeInv'
<1>1. CASE Signal
  BY <1>1 DEF Signal, LifeInv, LifeTypes, Starting, Deferring, Closing, Busy
<1>2. CASE UNCHANGED vars
  BY <1>2 DEF vars, LifeInv, LifeTypes, Starting, Deferring, Closing, Busy
<1> QED
  BY <1>1, <1>2, MainKeeps, PartsKeep, TasksKeep DEF Next

(* The deferred calls of main are those of the steps it has passed, the last
   one first, so that the bot is closed before the pool and nothing starts once
   main is on its way out (main.go:65-145). *)
THEOREM LifeInvCorrect == Spec => []LifeInv
<1> QED
  BY LifeInvInit, LifeInvStep, PTL DEF Spec

-----------------------------------------------------------------------------
(* NoCallCutOff is a property of the runs: an exit on a signal cuts off no
   store call, for the deferred close of the pool waits for those that run, and
   is the last deferred call; a failed start can only cut off calls of the bot
   (main.go:69, 97-99; bot.go:51-56). *)
THEOREM NoCutOffCorrect == Spec => []NoCallCutOff
<1>1. LifeInv => NoCallCutOff
  <2> SUFFICES ASSUME LifeInv, main \in {"exit", "fatal"}, Busy # {}
               PROVE  main = "fatal" /\ \A t \in Tasks : task[t] = "call" => part[t] = "bot"
    BY DEF NoCallCutOff, Up
  <2>1. main = "fatal"
    BY DEF LifeInv, Deferring, Closing
  <2> QED
    BY <2>1 DEF LifeInv, Starting
<1> QED
  BY <1>1, LifeInvCorrect, PTL

(* TakesOnOnlyWhatItCanServe is a property of the runs: a task arrives only
   after the migration, and for the bot and the webhooks only while the store
   is open, by the order of main's steps and of its deferred calls
   (main.go:65-73,97,100,113,127,133,142). *)
THEOREM TakesOnCorrect == Spec => TakesOnOnlyWhatItCanServe
<1>1. ASSUME LifeInv, [Next]_vars
      PROVE  [\A t \in Tasks : task[t] = "none" /\ task'[t] = "new" =>
                migrated /\ (part'[t] \in {"bot", "hooks"} => pool = "open")]_vars
  <2> SUFFICES ASSUME NEW t \in Tasks, task[t] = "none", task'[t] = "new"
               PROVE  migrated /\ (part'[t] \in {"bot", "hooks"} => pool = "open")
    OBVIOUS
  <2>1. PICK x \in Parts : Arrive(t, x)
    <3>1. ~(Main \/ Fatal \/ Signal)
      BY DEF Main, Fatal, Signal, Connect, Migrate, NewDeliverer, OpenGateway,
             RegisterCommands, Spawn, Wait, CloseStore, ClosePart, Exit
    <3>2. ~(\E x \in Parts : Listen(x) \/ Watch(x)) /\ ~UNCHANGED vars
      BY DEF Listen, Watch, vars
    <3>3. ~\E o \in Tasks : CallStore(o) \/ CallReturns(o) \/ EndTask(o)
      BY <1>1 DEF CallStore, CallReturns, EndTask, LifeInv, LifeTypes
    <3>4. PICK o \in Tasks, x \in Parts : Arrive(o, x)
      BY <1>1, <3>1, <3>2, <3>3 DEF Next
    <3>5. o = t
      BY <1>1, <3>4 DEF Arrive, LifeInv, LifeTypes
    <3> QED
      BY <3>4, <3>5
  <2>2. /\ serving[x] = "on" /\ part'[t] = x /\ main \notin {"exit", "fatal"}
    BY <1>1, <2>1 DEF Arrive, Up, LifeInv, LifeTypes
  <2>3. migrated
    BY <1>1, <2>2 DEF LifeInv, Starting
  <2>4. ASSUME x \in {"bot", "hooks"}
        PROVE  pool = "open"
    <3>1. pool \notin {"closing", "closed"}
      <4>1. main = "register" \/ deferred \in {BotToo, BothToo, HooksToo}
        BY <1>1, <2>2, <2>4 DEF LifeInv, Closing
      <4> QED
        BY <1>1, <4>1, ListsDiffer DEF LifeInv, Closing
    <3>2. main # "connect"
      BY <1>1, <2>2, <2>4 DEF LifeInv, Starting, Parts
    <3> QED
      BY <1>1, <2>2, <3>1, <3>2 DEF LifeInv, LifeTypes, Deferring
  <2> QED
    BY <2>2, <2>3, <2>4
<1> QED
  BY <1>1, LifeInvCorrect, PTL DEF Spec, TakesOnOnlyWhatItCanServe

-----------------------------------------------------------------------------
(* WebSession: the lifetime is in whole seconds, the clock in halves *)
LEMMA UnixType ==
    ASSUME NEW time \in Nat
    PROVE  Unix(time) \in Nat /\ 2 * Unix(time) <= time /\ time <= 2 * Unix(time) + 1
  BY DEF Unix

(* The inductive invariant.  A token expires with the second its lifetime ends
   in, and one since which the secret is the same is signed with the secret of
   the configuration. *)

Sound(t) == t.at \in Nat /\ t.exp = Unix(t.at + 2 * SessionTTL)

SessionInv ==
    /\ now \in Nat
    /\ \A t \in tokens : Sound(t)
    /\ \A t \in unbroken : Sound(t) /\ t.key = config.secret

LEMMA LoginKeeps ==
    ASSUME SessionInv, Login
    PROVE  SessionInv'
<1> DEFINE t == [user |-> config.user, exp |-> Unix(now + 2 * SessionTTL),
                 key |-> config.secret, at |-> now]
<1>1. Sound(t) /\ t.key = config.secret
  BY DEF SessionInv, Sound
<1>2. tokens' = tokens \cup {t} /\ unbroken' = unbroken \cup {t}
  BY DEF Login
<1>3. UNCHANGED <<config, now>>
  BY DEF Login
<1> QED
  BY <1>1, <1>2, <1>3 DEF SessionInv, Sound

LEMMA SessionInvStep ==
    ASSUME SessionInv, [SessionNext]_sessionVars
    PROVE  SessionInv'
<1>1. CASE Login
  BY <1>1, LoginKeeps
<1>2. CASE Pass
  BY <1>2 DEF Pass, SessionInv, Sound
<1>3. ASSUME NEW file \in Files, NEW env \in Secrets \cup {Unset}, Restart(file, env)
      PROVE  SessionInv'
  BY <1>3 DEF Restart, SessionInv, Sound
<1>4. CASE UNCHANGED sessionVars
  BY <1>4 DEF sessionVars, SessionInv, Sound
<1> QED
  BY <1>1, <1>2, <1>3, <1>4 DEF SessionNext

LEMMA SessionInvariant == SessionSpec => []SessionInv
<1>1. SessionInit => SessionInv
  BY DEF SessionInit, SessionInv
<1> QED
  BY <1>1, SessionInvStep, PTL DEF SessionSpec

-----------------------------------------------------------------------------
(* The expiry in half seconds lies at most one before the end of the lifetime. *)
LEMMA ExpiryBounds ==
    ASSUME NEW t, Sound(t)
    PROVE  /\ t.exp \in Nat /\ t.at + 2 * SessionTTL \in Nat
           /\ 2 * t.exp <= t.at + 2 * SessionTTL
           /\ t.at + 2 * SessionTTL <= 2 * t.exp + 1
<1>1. SessionTTL \in Nat
  BY WebSessionAssumption DEF WebSessionAssumption
<1>2. t.at + 2 * SessionTTL \in Nat
  BY <1>1 DEF Sound
<1> QED
  BY <1>2, UnixType DEF Sound

(* SessionLasts is a property of the runs: verify accepts a token for as long as
   issue promised, whatever is restarted under the same secret, whoever is the
   admin by then (auth.go:46-67). *)
THEOREM LastsCorrect == SessionSpec => []SessionLasts
<1>1. SessionInv => SessionLasts
  <2> SUFFICES ASSUME SessionInv, NEW t \in unbroken, t.user \notin Barred,
                      now <= t.at + 2 * SessionTTL
               PROVE  Unix(now) <= t.exp
    BY DEF SessionLasts, SessionInv, Verify
  <2>1. Unix(now) \in Nat /\ 2 * Unix(now) <= now
    BY UnixType DEF SessionInv
  <2>2. t.exp \in Nat /\ t.at + 2 * SessionTTL \in Nat /\ t.at + 2 * SessionTTL <= 2 * t.exp + 1
    BY ExpiryBounds DEF SessionInv
  <2>3. 2 * Unix(now) <= 2 * t.exp + 1
    BY <2>1, <2>2 DEF SessionInv
  <2> QED
    BY <2>1, <2>2, <2>3
<1> QED
  BY <1>1, SessionInvariant, PTL

(* SessionEnds is a property of the runs: no process accepts a token a second
   after its lifetime, whichever process issued it (auth.go:48, 64). *)
THEOREM EndsCorrect == SessionSpec => []SessionEnds
<1>1. SessionInv => SessionEnds
  <2> SUFFICES ASSUME SessionInv, NEW t \in tokens, Unix(now) <= t.exp
               PROVE  now < t.at + 2 * SessionTTL + 2
    BY DEF SessionEnds, Verify
  <2>1. Unix(now) \in Nat /\ now <= 2 * Unix(now) + 1
    BY UnixType DEF SessionInv
  <2>2. t.exp \in Nat /\ t.at + 2 * SessionTTL \in Nat /\ 2 * t.exp <= t.at + 2 * SessionTTL
    BY ExpiryBounds DEF SessionInv
  <2>3. now <= 2 * t.exp + 1
    BY <2>1, <2>2 DEF SessionInv
  <2> QED
    BY <2>2, <2>3 DEF SessionInv
<1> QED
  BY <1>1, SessionInvariant, PTL
=============================================================================
