------------------------------ MODULE Lifecycle ------------------------------
(***************************************************************************)
(* One life of the server process: main starts the configured parts one    *)
(* after the other, waits for the signal, and runs its deferred calls.     *)
(* The parts work on tasks meanwhile: the bot on interactions, the worker  *)
(* on a tick, the two HTTP servers on requests.  A task makes store calls, *)
(* each on a connection of the pool.  Nothing waits for a task: the exit   *)
(* of main ends it wherever it is.                                         *)
(***************************************************************************)
EXTENDS Integers, Sequences, FiniteSets

CONSTANTS
    Tasks,          \* what the parts work on, each runs once
    MaxConns        \* size of the connection pool

Parts == {"bot", "worker", "hooks", "web"}

ASSUME LifecycleAssumption == MaxConns \in Nat \ {0}

VARIABLES
    configured, \* the parts that are enabled
    main,       \* the next step of main
    deferred,   \* its deferred calls, the last one first
    signalled,  \* is the context of the signals cancelled?
    migrated,
    serving,    \* is each part taking on tasks?
    pool,       \* is the pool of the store open?
    part,       \* the part each task belongs to
    task        \* where each task is

vars == <<configured, main, deferred, signalled, migrated, serving, pool, part, task>>

Order == <<"connect", "migrate", "deliverer", "bot", "register", "worker", "hooks",
           "web", "wait", "return", "exit">>

After(label) == Order[1 + CHOOSE n \in 1..(Len(Order) - 1) : Order[n] = label]

Busy == {t \in Tasks : task[t] = "call"}

Init ==
    /\ configured \in SUBSET Parts
    /\ main = "connect" /\ deferred = <<>>
    /\ signalled = FALSE /\ migrated = FALSE
    /\ serving = [x \in Parts |-> "off"]
    /\ pool = "none"
    /\ part = [t \in Tasks |-> "none"]
    /\ task = [t \in Tasks |-> "none"]

-----------------------------------------------------------------------------
(* main *)

GoOn(label) == main = label /\ main' = After(label)

Defer(call) == deferred' = <<call>> \o deferred

(* log.Fatalf ends the process and runs no deferred call. *)
Fatal ==
    /\ main \in {"connect", "migrate", "deliverer", "bot", "register"}
    /\ main \in {"bot", "register"} => "bot" \in configured
    /\ main' = "fatal"
    /\ UNCHANGED <<configured, deferred, signalled, migrated, serving, pool, part, task>>

Connect ==
    /\ GoOn("connect")
    /\ pool' = "open" /\ Defer("closeStore")
    /\ UNCHANGED <<configured, signalled, migrated, serving, part, task>>

Migrate ==
    /\ GoOn("migrate")
    /\ migrated' = TRUE
    /\ UNCHANGED <<configured, deferred, signalled, serving, pool, part, task>>

NewDeliverer ==
    /\ GoOn("deliverer")
    /\ UNCHANGED <<configured, deferred, signalled, migrated, serving, pool, part, task>>

(* The gateway is open, and commands of an earlier life are known to Discord,
   before the commands are registered. *)
OpenGateway ==
    /\ GoOn("bot")
    /\ serving' = IF "bot" \in configured THEN [serving EXCEPT !["bot"] = "on"] ELSE serving
    /\ UNCHANGED <<configured, deferred, signalled, migrated, pool, part, task>>

(* Mutant: the deferred calls run in the order they were written. *)
RegisterInOrder ==
    /\ GoOn("register")
    /\ deferred' = IF "bot" \in configured THEN Append(deferred, "stopBot") ELSE deferred
    /\ UNCHANGED <<configured, signalled, migrated, serving, pool, part, task>>

RegisterCommands ==
    /\ GoOn("register")
    /\ IF "bot" \in configured THEN Defer("stopBot") ELSE UNCHANGED deferred
    /\ UNCHANGED <<configured, signalled, migrated, serving, pool, part, task>>

(* go worker.Run, go srv.ListenAndServe: they start when they are scheduled. *)
Spawn(x) ==
    /\ GoOn(x)
    /\ serving' = IF x \in configured THEN [serving EXCEPT ![x] = "starting"] ELSE serving
    /\ IF x = "hooks" /\ x \in configured THEN Defer("closeHooks") ELSE UNCHANGED deferred
    /\ UNCHANGED <<configured, signalled, migrated, pool, part, task>>

(* <-ctx.Done() *)
Wait ==
    /\ GoOn("wait") /\ signalled
    /\ UNCHANGED <<configured, deferred, signalled, migrated, serving, pool, part, task>>

CloseOf == [stopBot |-> "bot", closeHooks |-> "hooks"]

(* Mutant: the deferred call that closes the store does not wait. *)
CloseStoreAtOnce ==
    /\ main = "return" /\ deferred # <<>> /\ Head(deferred) = "closeStore"
    /\ deferred' = Tail(deferred) /\ pool' = "closed"
    /\ UNCHANGED <<configured, main, signalled, migrated, serving, part, task>>

(* Mutant: the store waits for every task that was begun. *)
CloseStoreAfterTasks ==
    /\ main = "return" /\ deferred # <<>> /\ Head(deferred) = "closeStore"
    /\ \A t \in Tasks : task[t] \in {"none", "done"}
    /\ deferred' = Tail(deferred) /\ pool' = "closed"
    /\ UNCHANGED <<configured, main, signalled, migrated, serving, part, task>>

(* pgxpool's Close takes back what is acquired before it returns. *)
CloseStore ==
    /\ main = "return" /\ deferred # <<>> /\ Head(deferred) = "closeStore"
    /\ \/ /\ pool = "open" /\ pool' = "closing"
          /\ UNCHANGED deferred
       \/ /\ pool = "closing" /\ Busy = {} /\ pool' = "closed"
          /\ deferred' = Tail(deferred)
    /\ UNCHANGED <<configured, main, signalled, migrated, serving, part, task>>

(* srv.Close and session.Close return without waiting for a handler. *)
ClosePart ==
    /\ main = "return" /\ deferred # <<>> /\ Head(deferred) # "closeStore"
    /\ serving' = [serving EXCEPT ![CloseOf[Head(deferred)]] = "closed"]
    /\ deferred' = Tail(deferred)
    /\ UNCHANGED <<configured, main, signalled, migrated, pool, part, task>>

Exit ==
    /\ GoOn("return") /\ deferred = <<>>
    /\ UNCHANGED <<configured, deferred, signalled, migrated, serving, pool, part, task>>

Main == \/ Connect \/ Migrate \/ NewDeliverer \/ OpenGateway \/ RegisterCommands
        \/ Spawn("worker") \/ Spawn("hooks") \/ Spawn("web")
        \/ Wait \/ CloseStore \/ ClosePart \/ Exit

-----------------------------------------------------------------------------
(* The goroutines *)

Up == main \notin {"exit", "fatal"}

(* The first SIGTERM or interrupt; further ones change nothing. *)
Signal ==
    /\ Up /\ ~signalled /\ signalled' = TRUE
    /\ UNCHANGED <<configured, main, deferred, migrated, serving, pool, part, task>>

Listen(x) ==
    /\ Up /\ serving[x] = "starting"
    /\ serving' = [serving EXCEPT ![x] = "on"]
    /\ UNCHANGED <<configured, main, deferred, signalled, migrated, pool, part, task>>

(* The dashboard and the worker watch the context themselves; the worker is in
   no tick when it returns. *)
Watch(x) ==
    /\ Up /\ x \in {"web", "worker"} /\ signalled /\ serving[x] \in {"starting", "on"}
    /\ x = "worker" => \A t \in Tasks : part[t] = x => task[t] = "done"
    /\ serving' = [serving EXCEPT ![x] = "closed"]
    /\ UNCHANGED <<configured, main, deferred, signalled, migrated, pool, part, task>>

(* An interaction, a request or a tick; ticks follow one another. *)
Arrive(t, x) ==
    /\ Up /\ serving[x] = "on" /\ task[t] = "none"
    /\ x = "worker" => \A o \in Tasks : part[o] = x => task[o] = "done"
    /\ part' = [part EXCEPT ![t] = x]
    /\ task' = [task EXCEPT ![t] = "new"]
    /\ UNCHANGED <<configured, main, deferred, signalled, migrated, serving, pool>>

CallStore(t) ==
    /\ Up /\ task[t] \in {"new", "between"}
    /\ pool = "open" /\ Cardinality(Busy) < MaxConns
    /\ task' = [task EXCEPT ![t] = "call"]
    /\ UNCHANGED <<configured, main, deferred, signalled, migrated, serving, pool, part>>

CallReturns(t) ==
    /\ Up /\ task[t] = "call"
    /\ task' = [task EXCEPT ![t] = "between"]
    /\ UNCHANGED <<configured, main, deferred, signalled, migrated, serving, pool, part>>

(* Its last call returned, or one failed: a pool that closes takes no call. *)
EndTask(t) ==
    /\ Up
    /\ task[t] = "between" \/ (task[t] = "new" /\ pool # "open")
    /\ task' = [task EXCEPT ![t] = "done"]
    /\ UNCHANGED <<configured, main, deferred, signalled, migrated, serving, pool, part>>

Next ==
    \/ Main \/ Fatal \/ Signal
    \/ \E x \in Parts : Listen(x) \/ Watch(x)
    \/ \E t \in Tasks, x \in Parts : Arrive(t, x)
    \/ \E t \in Tasks : CallStore(t) \/ CallReturns(t) \/ EndTask(t)

(* main is scheduled, and the database answers. *)
Spec == Init /\ [][Next]_vars /\ WF_vars(Main) /\ \A t \in Tasks : WF_vars(CallReturns(t))

-----------------------------------------------------------------------------
(* Properties *)

(* The process leaves no store call half done when it exits on a signal: only
   a failed registration of the commands cuts calls off, those of interactions
   the open gateway brought in (main.go:69, 97-99; bot.go:51-56). *)
NoCallCutOff ==
    ~Up /\ Busy # {} => main = "fatal" /\ \A t \in Tasks : task[t] = "call" => part[t] = "bot"

(* No part takes on a task before the schema is migrated; and the bot and the
   webhooks, which are closed before the store, none that the store would
   refuse (main.go:65-73,97,100,113,127,133,142). *)
TakesOnOnlyWhatItCanServe ==
    [][\A t \in Tasks : task[t] = "none" /\ task'[t] = "new" =>
            migrated /\ (part'[t] \in {"bot", "hooks"} => pool = "open")]_vars

(* A signal ends the process, if store calls return, whatever goes on
   (main.go:62, 150). *)
SignalEnds == signalled ~> main \in {"exit", "fatal"}
=============================================================================
