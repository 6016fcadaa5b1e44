-------------------------------- MODULE Grants --------------------------------
(***************************************************************************)
(* What a Deliver call promises its caller, whatever engines are behind    *)
(* it: it answers once; the goods come at most Most times, before the      *)
(* answer or any time after it.  Success is "granted" if the engine knows  *)
(* that the goods are there, or else "sent".                               *)
(***************************************************************************)
EXTENDS Naturals

CONSTANTS
    Calls,      \* the Deliver calls, one per item line of a purchase
    Most        \* how often one call may grant

VARIABLES
    told,       \* the answer of each call
    grants      \* how often each call reached the game

Answers == {"granted", "sent", "error"}

GrantsInit ==
    /\ told = [c \in Calls |-> "none"]
    /\ grants = [c \in Calls |-> 0]

Grant(c) ==
    /\ grants[c] < Most
    /\ grants' = [grants EXCEPT ![c] = @ + 1]
    /\ UNCHANGED told

Answer(c, a) ==
    /\ told[c] = "none"
    /\ a = "granted" => grants[c] > 0
    /\ told' = [told EXCEPT ![c] = a]
    /\ UNCHANGED grants

GrantsNext ==
    \E c \in Calls : Grant(c) \/ \E a \in Answers : Answer(c, a)

GrantsSpec == GrantsInit /\ [][GrantsNext]_<<told, grants>>
=============================================================================
