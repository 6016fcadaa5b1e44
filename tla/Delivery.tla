------------------------------- MODULE Delivery -------------------------------
(***************************************************************************)
(* internal/delivery: one Deliver call tries the engines of the configured *)
(* mode in their order.  FLS is a request to a web service, RMQ a command  *)
(* run in the game's container that publishes a message.  What an engine   *)
(* sent lives on without it: it may take effect before the engine learns   *)
(* of it, after the call was answered, after the process stopped, or never.*)
(***************************************************************************)
EXTENDS Integers, Sequences

CONSTANTS
    Calls,          \* the Deliver calls, each runs once
    Mode            \* delivery.mode of the configuration

Kinds == {"fls", "rmq"}

ASSUME DeliveryAssumption == Mode \in {"", "fls", "rmq", "both"}

VARIABLES
    configured, \* the engines whose settings are complete, fixed at the start
    pc,         \* where each call is
    named,      \* does its request carry the ids of player and item?
    try,        \* the position of the engine it is at
    wire,       \* what became of what the engine at each position sent
    heard,      \* what the engine at each position answered
    told,       \* what the call answered
    grants      \* how often the goods reached the game

vars == <<configured, pc, named, try, wire, heard, told, grants>>

(* New.  Only "both" is a Multi, but a single engine is a Multi of one. *)
Engines == IF Mode = "both" THEN <<"fls", "rmq">>
           ELSE IF Mode = "rmq" THEN <<"rmq">> ELSE <<"fls">>

Positions == 1..Len(Engines)

Engine(c) == Engines[try[c]]

Running == {"try", "wait"}

Init ==
    /\ configured \in SUBSET Kinds
    /\ pc = [c \in Calls |-> "idle"]
    /\ named = [c \in Calls |-> FALSE]
    /\ try = [c \in Calls |-> 1]
    /\ wire = [c \in Calls |-> [n \in Positions |-> "none"]]
    /\ heard = [c \in Calls |-> [n \in Positions |-> "none"]]
    /\ told = [c \in Calls |-> "none"]
    /\ grants = [c \in Calls |-> 0]

-----------------------------------------------------------------------------
(* The caller's side *)

(* Buy and BuyKit give both engines the same id of the player and of the item,
   so a request lacks an id for both or for none. *)
Deliver(c, complete) ==
    /\ pc[c] = "idle"
    /\ pc' = [pc EXCEPT ![c] = "try"]
    /\ named' = [named EXCEPT ![c] = complete]
    /\ UNCHANGED <<configured, try, wire, heard, told, grants>>

Note(c, answer) == heard' = [heard EXCEPT ![c][try[c]] = answer]

Return(c, answer) ==
    /\ pc' = [pc EXCEPT ![c] = "end"]
    /\ told' = [told EXCEPT ![c] = answer]
    /\ UNCHANGED try

(* The engine at this position returned an error: go on to the next one, or
   return the last error. *)
NextEngine(c) ==
    /\ Note(c, "error")
    /\ \/ /\ try[c] < Len(Engines)
          /\ try' = [try EXCEPT ![c] = @ + 1]
          /\ pc' = [pc EXCEPT ![c] = "try"]
          /\ UNCHANGED told
       \/ try[c] = Len(Engines) /\ Return(c, "error")

CanSend(c) == named[c] /\ Engine(c) \in configured

(* A setting or an id is missing: an error before anything is sent. *)
Refuse(c) ==
    /\ pc[c] = "try" /\ ~CanSend(c)
    /\ NextEngine(c)
    /\ UNCHANGED <<configured, named, wire, grants>>

Send(c) ==
    /\ pc[c] = "try" /\ CanSend(c)
    /\ pc' = [pc EXCEPT ![c] = "wait"]
    /\ wire' = [wire EXCEPT ![c][try[c]] = "sent"]
    /\ UNCHANGED <<configured, named, try, heard, told, grants>>

(* Mutant: an answer other than 200 is taken for one. *)
ConfirmedUnread(c) == wire[c][try[c]] # "none"

(* What lets an engine return nil: FLS a 200 for a request that was carried
   out, RMQ a publish that went through, whoever receives the message. *)
Confirmed(c) == Engine(c) = "rmq" \/ wire[c][try[c]] = "taken"

(* Mutant: Multi does not stop at the engine that succeeded. *)
SucceedAndGoOn(c) ==
    /\ pc[c] = "wait" /\ Confirmed(c)
    /\ Note(c, "nil")
    /\ \/ /\ try[c] < Len(Engines)
          /\ try' = [try EXCEPT ![c] = @ + 1]
          /\ pc' = [pc EXCEPT ![c] = "try"]
          /\ UNCHANGED told
       \/ try[c] = Len(Engines) /\ Return(c, "nil")
    /\ UNCHANGED <<configured, named, wire, grants>>

Succeed(c) ==
    /\ pc[c] = "wait" /\ Confirmed(c)
    /\ Note(c, "nil") /\ Return(c, "nil")
    /\ UNCHANGED <<configured, named, wire, grants>>

(* The connection breaks, the status is not 200, or the command exits with an
   error: whatever was sent may have taken effect, or may still do so. *)
Fail(c) ==
    /\ pc[c] = "wait"
    /\ NextEngine(c)
    /\ UNCHANGED <<configured, named, wire, grants>>

-----------------------------------------------------------------------------
(* The world's side *)

(* PlayFab carries the request out, or the player's server the command. *)
Take(c, n) ==
    /\ wire[c][n] = "sent"
    /\ wire' = [wire EXCEPT ![c][n] = "taken"]
    /\ grants' = [grants EXCEPT ![c] = @ + 1]
    /\ UNCHANGED <<configured, pc, named, try, heard, told>>

(* The request is rejected or does not arrive; the message was not published,
   or reached no queue (publish_at_most_once), or its player was offline. *)
Drop(c, n) ==
    /\ wire[c][n] = "sent"
    /\ wire' = [wire EXCEPT ![c][n] = "dropped"]
    /\ UNCHANGED <<configured, pc, named, try, heard, told, grants>>

Crash ==
    /\ \E c \in Calls : pc[c] \in Running
    /\ pc' = [c \in Calls |-> IF pc[c] \in Running THEN "lost" ELSE pc[c]]
    /\ UNCHANGED <<configured, named, try, wire, heard, told, grants>>

Next ==
    \/ \E c \in Calls :
        \/ \E complete \in BOOLEAN : Deliver(c, complete)
        \/ Refuse(c) \/ Send(c) \/ Succeed(c) \/ Fail(c)
        \/ \E n \in Positions : Take(c, n) \/ Drop(c, n)
    \/ Crash

(* No fairness: no engine sets a timeout, so a call may never return. *)
Spec == Init /\ [][Next]_vars

-----------------------------------------------------------------------------
(* Properties *)

(* Every variable keeps its type. *)
TypeOK ==
    /\ pc \in [Calls -> Running \cup {"idle", "end", "lost"}]
    /\ configured \subseteq Kinds
    /\ named \in [Calls -> BOOLEAN]
    /\ try \in [Calls -> Positions]
    /\ wire \in [Calls -> [Positions -> {"none", "sent", "taken", "dropped"}]]
    /\ heard \in [Calls -> [Positions -> {"none", "nil", "error"}]]
    /\ told \in [Calls -> {"none", "nil", "error"}]
    /\ grants \in [Calls -> Nat]

(* The engines keep the promise: FLS answers nil once the goods were granted,
   RMQ once they were sent, and no call grants more often than it has
   engines. *)
Promise == INSTANCE Grants WITH
    Most <- Len(Engines),
    told <- [c \in Calls |-> IF told[c] # "nil" THEN told[c]
                             ELSE IF Engine(c) = "fls" THEN "granted" ELSE "sent"]

KeepsPromise == Promise!GrantsSpec

(* A purchase is granted twice only when the first engine granted and its
   answer was an error, whenever the grants happen (delivery.go:88-95). *)
TwiceOnlyAfterLostAnswer ==
    \A c \in Calls : grants[c] > 1 =>
        \E n \in Positions : heard[c][n] = "error" /\ wire[c][n] = "taken"

(* "... so a single purchase is never granted twice" (delivery.go:55-57). *)
NeverGrantedTwice == \A c \in Calls : grants[c] <= 1
=============================================================================
