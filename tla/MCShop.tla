-------------------------------- MODULE MCShop --------------------------------
(* Shop for TLC.  What one Deliver call may do is taken from the engines:
   FLS grants when it answers nil and may have granted when it answers an
   error; RMQ may answer nil for a message nobody received. *)
EXTENDS Shop, TLC

Ack == [ok |-> TRUE, grants |-> 1]
Nack == [ok |-> FALSE, grants |-> 0]
AckLost == [ok |-> TRUE, grants |-> 0]
NackGranted == [ok |-> FALSE, grants |-> 1]

Reliable == {Ack, Nack}
AnyOutcome == {Ack, Nack, AckLost, NackGranted}

(* The API stores any number it is sent as the stock of an item. *)
AnyStock == {-1, 0, 1}

(* No liveness is checked under it, and no property names a session. *)
SessionSymmetry == Permutations(Sessions)
=============================================================================
