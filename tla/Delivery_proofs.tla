---------------------------- MODULE Delivery_proofs ----------------------------
(* Proofs about Delivery: for any number of calls and every mode, a call grants
   twice only after an answer of an engine was lost, and the engines keep the
   promise of Grants. *)
EXTENDS Delivery, FiniteSetTheorems, TLAPS

-----------------------------------------------------------------------------
(* The engines of a mode are one or two. *)
LEMMA EnginesOfMode ==
    /\ Len(Engines) \in Nat /\ Len(Engines) >= 1
    /\ Positions = 1..Len(Engines)
    /\ Positions \subseteq Nat
    /\ 1 \in Positions
<1>1. Len(Engines) = 1 \/ Len(Engines) = 2
  BY DEF Engines
<1> QED
  BY <1>1 DEF Positions

LEMMA NextEngineType ==
    ASSUME TypeOK, NEW c \in Calls, pc[c] \in Running, NextEngine(c)
    PROVE  /\ pc' \in [Calls -> Running \cup {"idle", "end", "lost"}]
           /\ try' \in [Calls -> Positions]
           /\ heard' \in [Calls -> [Positions -> {"none", "nil", "error"}]]
           /\ told' \in [Calls -> {"none", "nil", "error"}]
<1>1. try[c] \in Positions
  BY DEF TypeOK
<1>2. heard' \in [Calls -> [Positions -> {"none", "nil", "error"}]]
  BY <1>1 DEF NextEngine, Note, TypeOK
<1>3. try[c] < Len(Engines) => try[c] + 1 \in Positions
  BY <1>1, EnginesOfMode
<1> QED
  BY <1>2, <1>3 DEF NextEngine, Return, TypeOK, Running

LEMMA TypeStep ==
    ASSUME TypeOK, [Next]_vars
    PROVE  TypeOK'
<1>1. ASSUME NEW c \in Calls, NEW complete \in BOOLEAN, Deliver(c, complete)
      PROVE  TypeOK'
  BY <1>1 DEF Deliver, TypeOK, Running
<1>2. ASSUME NEW c \in Calls, Refuse(c)
      PROVE  TypeOK'
  BY <1>2, NextEngineType DEF Refuse, TypeOK, Running
<1>3. ASSUME NEW c \in Calls, Send(c)
      PROVE  TypeOK'
  BY <1>3 DEF Send, TypeOK, Running
<1>4. ASSUME NEW c \in Calls, Succeed(c)
      PROVE  TypeOK'
  BY <1>4 DEF Succeed, Note, Return, TypeOK, Running
<1>5. ASSUME NEW c \in Calls, Fail(c)
      PROVE  TypeOK'
  BY <1>5, NextEngineType DEF Fail, TypeOK, Running
<1>6. ASSUME NEW c \in Calls, NEW n \in Positions, Take(c, n)
      PROVE  TypeOK'
  BY <1>6 DEF Take, TypeOK
<1>7. ASSUME NEW c \in Calls, NEW n \in Positions, Drop(c, n)
      PROVE  TypeOK'
  BY <1>7 DEF Drop, TypeOK
<1>8. CASE Crash
  BY <1>8 DEF Crash, TypeOK, Running
<1>9. CASE UNCHANGED vars
  BY <1>9 DEF vars, TypeOK
<1> QED
  BY <1>1, <1>2, <1>3, <1>4, <1>5, <1>6, <1>7, <1>8, <1>9 DEF Next

LEMMA TypeInit == Init => TypeOK
  BY EnginesOfMode DEF Init, TypeOK, Running

(* Every variable keeps its type: the loop of Multi never looks past its last
   engine. *)
THEOREM DeliveryTypeCorrect == Spec => []TypeOK
  BY TypeInit, TypeStep, PTL DEF Spec

-----------------------------------------------------------------------------
(* The inductive invariant.  An engine the call has not come to sent nothing,
   one it has left behind answered with an error, and the goods were granted
   once for each request that was taken. *)

Taken(c) == {n \in Positions : wire[c][n] = "taken"}

LeftBehind == \A c \in Calls : \A n \in Positions : n < try[c] => heard[c][n] = "error"

NotYetSent ==
    \A c \in Calls : \A n \in Positions :
        /\ n > try[c] => wire[c][n] = "none"
        /\ n = try[c] /\ pc[c] \in {"idle", "try"} => wire[c][n] = "none"

GrantsTaken == \A c \in Calls : grants[c] = Cardinality(Taken(c))

ToldAtEnd == \A c \in Calls : told[c] # "none" => pc[c] = "end"

DeliveryInv == TypeOK /\ LeftBehind /\ NotYetSent /\ GrantsTaken /\ ToldAtEnd

LEMMA TakenFinite ==
    ASSUME NEW c
    PROVE  /\ IsFiniteSet(Taken(c))
           /\ Cardinality(Taken(c)) \in Nat
           /\ Cardinality(Taken(c)) <= Len(Engines)
           /\ \A n \in Positions \ Taken(c) : Cardinality(Taken(c)) < Len(Engines)
<1>1. IsFiniteSet(Positions) /\ Cardinality(Positions) = Len(Engines)
  BY EnginesOfMode, FS_Interval
<1>2. Taken(c) \subseteq Positions
  BY DEF Taken
<1> QED
  BY <1>1, <1>2, FS_Subset, FS_CardinalityType

(* A call that moves on keeps what was said of its engines. *)
LEMMA NextEngineInv ==
    ASSUME DeliveryInv, NEW c \in Calls, pc[c] \in Running, NextEngine(c),
           UNCHANGED <<configured, named, wire, grants>>
    PROVE  LeftBehind' /\ NotYetSent' /\ GrantsTaken' /\ ToldAtEnd'
<1>1. try[c] \in Positions /\ Positions \subseteq Nat
  BY EnginesOfMode DEF DeliveryInv, TypeOK
<1>2. \A d \in Calls : try[d] \in Nat
  BY <1>1, EnginesOfMode DEF DeliveryInv, TypeOK
<1>3. heard' = [heard EXCEPT ![c][try[c]] = "error"]
  BY DEF NextEngine, Note
<1>4. LeftBehind'
  <2> SUFFICES ASSUME NEW d \in Calls, NEW n \in Positions, n < try'[d]
               PROVE  heard'[d][n] = "error"
    BY DEF LeftBehind
  <2>1. CASE d # c
    BY <2>1, <1>3 DEF NextEngine, Return, DeliveryInv, TypeOK, LeftBehind
  <2>2. CASE d = c
    <3>1. n \in Nat /\ try[c] \in Nat
      BY <1>1
    <3>2. try'[c] = try[c] + 1 \/ try'[c] = try[c]
      BY DEF NextEngine, Return, DeliveryInv, TypeOK
    <3>3. n < try[c] \/ n = try[c]
      BY <2>2, <3>1, <3>2
    <3> QED
      BY <3>3, <2>2, <1>3 DEF DeliveryInv, TypeOK, LeftBehind
  <2> QED
    BY <2>1, <2>2
<1>5. NotYetSent'
  <2> SUFFICES ASSUME NEW d \in Calls, NEW n \in Positions
               PROVE  /\ n > try'[d] => wire[d][n] = "none"
                      /\ n = try'[d] /\ pc'[d] \in {"idle", "try"} => wire[d][n] = "none"
    BY DEF NotYetSent
  <2>1. CASE d # c
    BY <2>1 DEF NextEngine, Return, DeliveryInv, TypeOK, NotYetSent
  <2>2. CASE d = c /\ try[c] < Len(Engines) /\ try' = [try EXCEPT ![c] = @ + 1]
    <3>1. n \in Nat /\ try[c] \in Nat
      BY <1>1
    <3>2. try'[d] = try[c] + 1
      BY <2>2 DEF DeliveryInv, TypeOK
    <3>3. n >= try'[d] => n > try[c]
      BY <3>1, <3>2
    <3>4. n > try'[d] \/ n = try'[d] => n >= try'[d]
      BY <3>1, <3>2
    <3> QED
      BY <2>2, <3>3, <3>4 DEF DeliveryInv, NotYetSent
  <2>3. CASE d = c /\ Return(c, "error")
    BY <2>3, <1>1 DEF Return, DeliveryInv, TypeOK, NotYetSent
  <2> QED
    BY <2>1, <2>2, <2>3 DEF NextEngine
<1>6. GrantsTaken'
  BY DEF DeliveryInv, GrantsTaken, Taken
<1>7. ToldAtEnd'
  BY DEF NextEngine, Return, DeliveryInv, TypeOK, ToldAtEnd, Running
<1> QED
  BY <1>4, <1>5, <1>6, <1>7

LEMMA DeliveryInvStep ==
    ASSUME DeliveryInv, [Next]_vars
    PROVE  DeliveryInv'
<1> USE DEF DeliveryInv
<1>t. TypeOK'
  BY TypeStep
<1>p. Positions \subseteq Nat /\ \A d \in Calls : try[d] \in Nat
  BY EnginesOfMode DEF TypeOK
<1>g. UNCHANGED <<wire, grants>> => GrantsTaken'
  BY DEF GrantsTaken, Taken
<1>1. ASSUME NEW c \in Calls, NEW complete \in BOOLEAN, Deliver(c, complete)
      PROVE  DeliveryInv'
  BY <1>1, <1>t, <1>g DEF Deliver, TypeOK, LeftBehind, NotYetSent, ToldAtEnd
<1>2. ASSUME NEW c \in Calls, Refuse(c)
      PROVE  DeliveryInv'
  BY <1>2, <1>t, NextEngineInv DEF Refuse, Running
<1>3. ASSUME NEW c \in Calls, Send(c)
      PROVE  DeliveryInv'
  <2>1. wire' = [wire EXCEPT ![c][try[c]] = "sent"] /\ try[c] \in Positions
    BY <1>3 DEF Send, TypeOK
  <2>2. LeftBehind' /\ ToldAtEnd'
    BY <1>3 DEF Send, TypeOK, LeftBehind, ToldAtEnd
  <2>3. NotYetSent'
    BY <1>3, <2>1, <1>p DEF Send, TypeOK, NotYetSent
  <2>4. ASSUME NEW d \in Calls PROVE Taken(d)' = Taken(d)
    <3>1. wire[c][try[c]] = "none"
      BY <1>3, <2>1 DEF Send, NotYetSent
    <3> QED
      BY <3>1, <2>1 DEF TypeOK, Taken
  <2>5. GrantsTaken'
    BY <1>3, <2>4 DEF Send, GrantsTaken
  <2> QED
    BY <1>t, <2>2, <2>3, <2>5
<1>4. ASSUME NEW c \in Calls, Succeed(c)
      PROVE  DeliveryInv'
  <2>1. heard' = [heard EXCEPT ![c][try[c]] = "nil"] /\ try[c] \in Positions /\ try' = try
    BY <1>4 DEF Succeed, Note, Return, TypeOK
  <2>2. LeftBehind'
    BY <2>1, <1>p DEF TypeOK, LeftBehind
  <2>3. NotYetSent' /\ ToldAtEnd' /\ GrantsTaken'
    BY <1>4, <1>g DEF Succeed, Return, TypeOK, NotYetSent, ToldAtEnd
  <2> QED
    BY <1>t, <2>2, <2>3
<1>5. ASSUME NEW c \in Calls, Fail(c)
      PROVE  DeliveryInv'
  BY <1>5, <1>t, NextEngineInv DEF Fail, Running
<1>6. ASSUME NEW c \in Calls, NEW n \in Positions, Take(c, n)
      PROVE  DeliveryInv'
  <2>1. LeftBehind' /\ NotYetSent' /\ ToldAtEnd'
    BY <1>6 DEF Take, TypeOK, LeftBehind, NotYetSent, ToldAtEnd
  <2>2. ASSUME NEW d \in Calls
        PROVE  grants'[d] = Cardinality(Taken(d)')
    <3>1. CASE d # c
      <4>1. Taken(d)' = Taken(d)
        BY <3>1, <1>6 DEF Take, TypeOK, Taken
      <4> QED
        BY <3>1, <4>1, <1>6 DEF Take, TypeOK, GrantsTaken
    <3>2. CASE d = c
      <4>1. Taken(c)' = Taken(c) \cup {n} /\ n \notin Taken(c)
        BY <1>6 DEF Take, TypeOK, Taken
      <4>2. Cardinality(Taken(c)') = Cardinality(Taken(c)) + 1
        BY <4>1, TakenFinite, FS_AddElement
      <4> QED
        BY <3>2, <4>2, <1>6 DEF Take, TypeOK, GrantsTaken
    <3> QED
      BY <3>1, <3>2
  <2> QED
    BY <1>t, <2>1, <2>2 DEF GrantsTaken
<1>7. ASSUME NEW c \in Calls, NEW n \in Positions, Drop(c, n)
      PROVE  DeliveryInv'
  <2>1. LeftBehind' /\ NotYetSent' /\ ToldAtEnd'
    BY <1>7 DEF Drop, TypeOK, LeftBehind, NotYetSent, ToldAtEnd
  <2>2. ASSUME NEW d \in Calls PROVE Taken(d)' = Taken(d)
    BY <1>7 DEF Drop, TypeOK, Taken
  <2> QED
    BY <1>7, <1>t, <2>1, <2>2 DEF Drop, GrantsTaken
<1>8. CASE Crash
  BY <1>8, <1>t, <1>g DEF Crash, TypeOK, LeftBehind, NotYetSent, ToldAtEnd, Running
<1>9. CASE UNCHANGED vars
  BY <1>9, <1>t, <1>g DEF vars, LeftBehind, NotYetSent, ToldAtEnd
<1> QED
  BY <1>1, <1>2, <1>3, <1>4, <1>5, <1>6, <1>7, <1>8, <1>9 DEF Next

LEMMA DeliveryInvInit == Init => DeliveryInv
<1> SUFFICES ASSUME Init PROVE DeliveryInv
  OBVIOUS
<1>1. \A n \in Positions : ~(n < 1)
  BY EnginesOfMode
<1>2. LeftBehind /\ NotYetSent /\ ToldAtEnd
  BY <1>1 DEF Init, LeftBehind, NotYetSent, ToldAtEnd
<1>3. ASSUME NEW c \in Calls PROVE Taken(c) = {}
  BY DEF Init, Taken
<1>4. GrantsTaken
  BY <1>3, FS_EmptySet DEF Init, GrantsTaken
<1> QED
  BY <1>2, <1>4, TypeInit DEF DeliveryInv

LEMMA DeliveryInvariant == Spec => []DeliveryInv
  BY DeliveryInvInit, DeliveryInvStep, PTL DEF Spec

-----------------------------------------------------------------------------
(* Two grants need two engines that took the request, and the call had left the
   first of them behind. *)
LEMMA TwiceMeansLeftBehind == DeliveryInv => TwiceOnlyAfterLostAnswer
<1> SUFFICES ASSUME DeliveryInv, NEW c \in Calls, grants[c] > 1
             PROVE  \E n \in Positions : heard[c][n] = "error" /\ wire[c][n] = "taken"
  BY DEF TwiceOnlyAfterLostAnswer
<1>1. Cardinality(Taken(c)) > 1 /\ IsFiniteSet(Taken(c))
  BY TakenFinite DEF DeliveryInv, GrantsTaken
<1>2. PICK n \in Taken(c) : TRUE
  BY <1>1, FS_EmptySet
<1>3. PICK m \in Taken(c) : m # n
  <2>1. CASE Taken(c) = {n}
    BY <2>1, <1>1, FS_Singleton
  <2> QED
    BY <2>1, <1>2
<1>4. n \in Positions /\ m \in Positions /\ Positions \subseteq Nat /\ try[c] \in Nat
  BY <1>2, <1>3, EnginesOfMode DEF Taken, DeliveryInv, TypeOK
<1>5. ~(n > try[c]) /\ ~(m > try[c])
  BY <1>2, <1>3, <1>4 DEF Taken, DeliveryInv, NotYetSent
<1>6. n < try[c] \/ m < try[c]
  BY <1>3, <1>4, <1>5
<1> QED
  BY <1>2, <1>3, <1>4, <1>6 DEF Taken, DeliveryInv, LeftBehind

(* A purchase reaches the game twice only when an engine granted and its answer
   was an error, whatever the mode and however many calls run. *)
THEOREM TwiceCorrect == Spec => []TwiceOnlyAfterLostAnswer
  BY DeliveryInvariant, TwiceMeansLeftBehind, PTL

-----------------------------------------------------------------------------
(* The refinement *)

Answered(c) == IF told[c] # "nil" THEN told[c]
               ELSE IF Engine(c) = "fls" THEN "granted" ELSE "sent"

Heard == [c \in Calls |-> Answered(c)]

(* A step that leaves the answers and the grants alone is a stutter. *)
LEMMA Unnoticed ==
    ASSUME UNCHANGED grants, \A c \in Calls : Answered(c)' = Answered(c)
    PROVE  UNCHANGED <<Heard, grants>>
  BY DEF Heard

(* A step that answers a call. *)
LEMMA AnswerStep ==
    ASSUME NEW c \in Calls, NEW a \in Promise!Answers,
           Answered(c) = "none", a = "granted" => grants[c] > 0,
           Answered(c)' = a, UNCHANGED grants,
           \A d \in Calls \ {c} : Answered(d)' = Answered(d)
    PROVE  Promise!GrantsNext
<1>1. Heard' = [Heard EXCEPT ![c] = a]
  BY DEF Heard
<1>2. Heard[c] = "none"
  BY DEF Heard
<1>3. Promise!Answer(c, a)
  BY <1>1, <1>2 DEF Promise!Answer, Heard, Answered
<1> QED
  BY <1>3 DEF Promise!GrantsNext

(* A call that moves on says nothing, or it answers with the last error. *)
LEMMA NextEngineMaps ==
    ASSUME DeliveryInv, NEW c \in Calls, pc[c] \in Running, NextEngine(c), UNCHANGED grants
    PROVE  Promise!GrantsNext \/ UNCHANGED <<Heard, grants>>
<1>1. told[c] = "none" /\ Answered(c) = "none"
  BY DEF DeliveryInv, ToldAtEnd, Running, Answered
<1>2. ASSUME NEW d \in Calls \ {c}
      PROVE  Answered(d)' = Answered(d)
  BY DEF NextEngine, Return, Answered, Engine, DeliveryInv, TypeOK
<1>3. CASE UNCHANGED told
  BY <1>1, <1>2, <1>3, Unnoticed DEF Answered
<1>4. CASE Return(c, "error")
  <2>1. Answered(c)' = "error"
    BY <1>4 DEF Return, Answered, DeliveryInv, TypeOK
  <2> QED
    BY <1>1, <1>2, <2>1, AnswerStep DEF Promise!Answers
<1> QED
  BY <1>3, <1>4 DEF NextEngine

LEMMA SucceedMaps ==
    ASSUME DeliveryInv, NEW c \in Calls, Succeed(c)
    PROVE  Promise!GrantsNext
<1>1. told[c] = "none" /\ Answered(c) = "none"
  BY DEF Succeed, DeliveryInv, ToldAtEnd, Answered
<1>2. ASSUME NEW d \in Calls \ {c}
      PROVE  Answered(d)' = Answered(d)
  BY DEF Succeed, Return, Answered, Engine, DeliveryInv, TypeOK
<1>3. Answered(c)' = IF Engine(c) = "fls" THEN "granted" ELSE "sent"
  BY DEF Succeed, Return, Answered, Engine, DeliveryInv, TypeOK
<1>4. Engine(c) = "fls" => grants[c] > 0
  <2> SUFFICES ASSUME Engine(c) = "fls" PROVE grants[c] > 0
    OBVIOUS
  <2>1. try[c] \in Taken(c)
    BY DEF Succeed, Confirmed, DeliveryInv, TypeOK, Taken
  <2>2. Cardinality(Taken(c)) # 0
    BY <2>1, TakenFinite, FS_EmptySet
  <2> QED
    BY <2>2, TakenFinite DEF DeliveryInv, GrantsTaken
<1> QED
  BY <1>1, <1>2, <1>3, <1>4, AnswerStep DEF Succeed, Promise!Answers

LEMMA PromiseStep ==
    ASSUME DeliveryInv, [Next]_vars
    PROVE  Promise!GrantsNext \/ UNCHANGED <<Heard, grants>>
<1>1. ASSUME NEW c \in Calls, NEW complete \in BOOLEAN, Deliver(c, complete)
      PROVE  UNCHANGED <<Heard, grants>>
  BY <1>1 DEF Deliver, Heard, Answered, Engine
<1>2. ASSUME NEW c \in Calls, Refuse(c) \/ Fail(c)
      PROVE  Promise!GrantsNext \/ UNCHANGED <<Heard, grants>>
  BY <1>2, NextEngineMaps DEF Refuse, Fail, Running
<1>3. ASSUME NEW c \in Calls, Send(c)
      PROVE  UNCHANGED <<Heard, grants>>
  BY <1>3 DEF Send, Heard, Answered, Engine
<1>4. ASSUME NEW c \in Calls, Succeed(c)
      PROVE  Promise!GrantsNext
  BY <1>4, SucceedMaps
<1>5. ASSUME NEW c \in Calls, NEW n \in Positions, Take(c, n)
      PROVE  Promise!GrantsNext
  <2>1. n \in Positions \ Taken(c)
    BY <1>5 DEF Take, Taken
  <2>2. grants[c] < Len(Engines)
    BY <2>1, TakenFinite DEF DeliveryInv, GrantsTaken
  <2>3. UNCHANGED Heard
    BY <1>5 DEF Take, Heard, Answered, Engine
  <2>4. Promise!Grant(c)
    BY <1>5, <2>2, <2>3 DEF Take, Promise!Grant, Heard, Answered
  <2> QED
    BY <2>4 DEF Promise!GrantsNext
<1>6. ASSUME NEW c \in Calls, NEW n \in Positions, Drop(c, n)
      PROVE  UNCHANGED <<Heard, grants>>
  BY <1>6 DEF Drop, Heard, Answered, Engine
<1>7. CASE Crash
  BY <1>7 DEF Crash, Heard, Answered, Engine
<1>8. CASE UNCHANGED vars
  BY <1>8 DEF vars, Heard, Answered, Engine
<1> QED
  BY <1>1, <1>2, <1>3, <1>4, <1>5, <1>6, <1>7, <1>8 DEF Next

(* The engines keep their promise: an FLS success means that the goods are
   there, and no call grants more often than the mode has engines. *)
THEOREM PromiseCorrect == Spec => KeepsPromise
<1>1. Init => Promise!GrantsInit
  BY DEF Init, Promise!GrantsInit
<1>2. DeliveryInv /\ [Next]_vars => [Promise!GrantsNext]_<<Heard, grants>>
  BY PromiseStep
<1>3. Heard = [c \in Calls |-> IF told[c] # "nil" THEN told[c]
                               ELSE IF Engine(c) = "fls" THEN "granted" ELSE "sent"]
  BY DEF Heard, Answered
<1> QED
  BY <1>1, <1>2, <1>3, DeliveryInvariant, PTL DEF Spec, KeepsPromise, Promise!GrantsSpec, Heard, Answered
=============================================================================
