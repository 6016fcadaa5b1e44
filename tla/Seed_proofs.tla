------------------------------ MODULE Seed_proofs ------------------------------
(* Proofs about Migrate and about Seed, which composes it with the seed command:
   for any number of processes, versions and files, however they race and
   wherever they are cut off. *)
EXTENDS Seed, FiniteSetTheorems, TLAPS

-----------------------------------------------------------------------------
(* Migrate: the types *)

LEMMA NextVersionType ==
    ASSUME MigrateTypeOK, NEW p \in Procs, NextVersion(p)
    PROVE  /\ version' \in [Procs -> Versions]
           /\ pc' \in [Procs -> Working \cup {"off", "failed", "ready"}]
<1>1. version[p] \in 1..Last /\ Last \in Nat
  BY MigrateAssumption DEF MigrateTypeOK, Versions
<1>2. version[p] < Last => version[p] + 1 \in Versions
  BY <1>1 DEF Versions
<1> QED
  BY <1>2 DEF NextVersion, Goto, MigrateTypeOK, Working

LEMMA MigrateTypeStep ==
    ASSUME MigrateTypeOK, [MigrateNext]_schemaVars
    PROVE  MigrateTypeOK'
<1>0. 1 \in Versions
  BY MigrateAssumption DEF Versions
<1>1. ASSUME NEW p \in Procs, Start(p)
      PROVE  MigrateTypeOK'
  BY <1>0, <1>1 DEF Start, Goto, MigrateTypeOK, Working
<1>2. ASSUME NEW p \in Procs, MakeTable(p)
      PROVE  MigrateTypeOK'
  BY <1>2 DEF MakeTable, Exit, Goto, MigrateTypeOK, Working
<1>3. ASSUME NEW p \in Procs, Check(p)
      PROVE  MigrateTypeOK'
  BY <1>3, NextVersionType DEF Check, Goto, MigrateTypeOK, Working
<1>4. ASSUME NEW p \in Procs, RunSql(p)
      PROVE  MigrateTypeOK'
  BY <1>4 DEF RunSql, Exit, Goto, MigrateTypeOK, Working, InTransaction
<1>5. ASSUME NEW p \in Procs, InsertVersion(p)
      PROVE  MigrateTypeOK'
  BY <1>5 DEF InsertVersion, Exit, Goto, MigrateTypeOK, Working, InTransaction
<1>6. ASSUME NEW p \in Procs, Commit(p)
      PROVE  MigrateTypeOK'
  <2>1. version[p] \in Versions
    BY DEF MigrateTypeOK
  <2>2. effects' \in [Versions -> Nat] /\ recorded' \subseteq Versions
    BY <1>6, <2>1 DEF Commit, MigrateTypeOK
  <2> QED
    BY <1>6, <2>2, NextVersionType DEF Commit, MigrateTypeOK
<1>7. ASSUME NEW p \in Procs, Crash(p)
      PROVE  MigrateTypeOK'
  BY <1>7 DEF Crash, Exit, Goto, MigrateTypeOK
<1>8. ASSUME NEW p \in Procs, Leave(p)
      PROVE  MigrateTypeOK'
  BY <1>8 DEF Leave, Goto, MigrateTypeOK
<1>9. CASE UNCHANGED schemaVars
  BY <1>9 DEF schemaVars, MigrateTypeOK
<1> QED
  BY <1>1, <1>2, <1>3, <1>4, <1>5, <1>6, <1>7, <1>8, <1>9 DEF MigrateNext, Step

LEMMA MigrateTypeInit == MigrateInit => MigrateTypeOK
<1> SUFFICES ASSUME MigrateInit PROVE MigrateTypeOK
  OBVIOUS
<1>1. PICK k \in 0..Last : recorded = 1..k
  BY DEF MigrateInit
<1>2. recorded \subseteq Versions /\ 1 \in Versions
  BY <1>1, MigrateAssumption DEF Versions
<1> QED
  BY <1>2 DEF MigrateInit, MigrateTypeOK, Versions

-----------------------------------------------------------------------------
(* Migrate: the schema.  A process that is at a version has seen those before it
   recorded; two that are in a transaction are at different versions, because
   the SQL of one waits for the other; so what a process is about to commit is
   not recorded yet. *)

PastTable == {"check", "sql"} \cup InTransaction

SeenBefore ==
    \A p \in Procs : pc[p] \in PastTable =>
        \A v \in Versions : v < version[p] => v \in recorded

StartsAtFirst == \A p \in Procs : pc[p] = "table" => version[p] = 1

OnePerVersion ==
    \A p, q \in Procs :
        p # q /\ pc[p] \in InTransaction /\ pc[q] \in InTransaction => version[p] # version[q]

AboutToCommit == \A p \in Procs : pc[p] = "commit" => version[p] \notin recorded

SchemaInv ==
    MigrateTypeOK /\ SchemaSound /\ StartsAtFirst /\ SeenBefore /\ OnePerVersion /\ AboutToCommit

(* Going on to the next version, or returning, once the one at hand is
   recorded. *)
LEMMA NextVersionKeeps ==
    ASSUME SchemaInv, NEW p \in Procs, pc[p] \in PastTable, NextVersion(p),
           recorded \subseteq recorded', version[p] \in recorded', recorded' \subseteq Versions
    PROVE  StartsAtFirst' /\ SeenBefore' /\ OnePerVersion' /\ ReadyMeansMigrated'
<1>0. StartsAtFirst'
  BY DEF SchemaInv, MigrateTypeOK, StartsAtFirst, NextVersion, Goto
<1>1. version[p] \in Nat /\ version[p] \in Versions /\ Last \in Nat /\ Versions \subseteq Nat
  BY MigrateAssumption DEF SchemaInv, MigrateTypeOK, Versions
<1>2. \A v \in Versions : v <= version[p] => v \in recorded'
  <2> SUFFICES ASSUME NEW v \in Versions, v <= version[p]
               PROVE  v \in recorded'
    OBVIOUS
  <2>1. v \in Nat /\ (v < version[p] \/ v = version[p])
    BY <1>1
  <2> QED
    BY <2>1 DEF SchemaInv, SeenBefore
<1>3. CASE version[p] < Last
  <2>1. version' = [version EXCEPT ![p] = @ + 1] /\ pc' = [pc EXCEPT ![p] = "check"]
    BY <1>3 DEF NextVersion, Goto
  <2>2. SeenBefore'
    <3> SUFFICES ASSUME NEW q \in Procs, pc'[q] \in PastTable, NEW v \in Versions, v < version'[q]
                 PROVE  v \in recorded'
      BY DEF SeenBefore
    <3>1. CASE q = p
      <4>1. v < version[p] + 1
        BY <3>1, <2>1 DEF SchemaInv, MigrateTypeOK
      <4>2. v <= version[p]
        BY <4>1, <1>1
      <4> QED
        BY <4>2, <1>2
    <3>2. CASE q # p
      BY <3>2, <2>1 DEF SchemaInv, MigrateTypeOK, SeenBefore
    <3> QED
      BY <3>1, <3>2
  <2>3. OnePerVersion'
    BY <2>1 DEF SchemaInv, MigrateTypeOK, OnePerVersion, InTransaction
  <2>4. ReadyMeansMigrated'
    <3> SUFFICES ASSUME NEW q \in Procs, pc'[q] = "ready"
                 PROVE  recorded' = Versions
      BY DEF ReadyMeansMigrated
    <3>1. pc[q] = "ready"
      BY <2>1 DEF SchemaInv, MigrateTypeOK
    <3> QED
      BY <3>1 DEF SchemaInv, SchemaSound, ReadyMeansMigrated
  <2> QED
    BY <1>0, <2>2, <2>3, <2>4
<1>4. CASE ~(version[p] < Last)
  <2>1. version' = version /\ pc' = [pc EXCEPT ![p] = "ready"]
    BY <1>4 DEF NextVersion, Goto
  <2>2. \A v \in Versions : v <= version[p]
    BY <1>1, <1>4 DEF Versions
  <2>3. recorded' = Versions
    BY <2>2, <1>2
  <2>4. SeenBefore' /\ ReadyMeansMigrated'
    BY <2>3 DEF SeenBefore, ReadyMeansMigrated
  <2>5. OnePerVersion'
    BY <2>1 DEF SchemaInv, MigrateTypeOK, OnePerVersion, InTransaction
  <2> QED
    BY <1>0, <2>4, <2>5
<1> QED
  BY <1>0, <1>3, <1>4

(* A process that exits, starts or leaves is past nothing and in no
   transaction. *)
LEMMA OutKeeps ==
    ASSUME SchemaInv, NEW p \in Procs,
           NEW label \in {"off", "failed", "table"}, pc' = [pc EXCEPT ![p] = label],
           label = "table" => version'[p] = 1,
           \A q \in Procs \ {p} : version'[q] = version[q],
           UNCHANGED <<recorded, effects>>
    PROVE  /\ SchemaSound' /\ StartsAtFirst'
           /\ SeenBefore' /\ OnePerVersion' /\ AboutToCommit'
<1>1. pc'[p] = label /\ \A q \in Procs \ {p} : pc'[q] = pc[q]
  BY DEF SchemaInv, MigrateTypeOK
<1>2. label \notin PastTable \cup {"ready"}
  BY DEF PastTable, InTransaction
<1>3. StartsAtFirst' /\ SeenBefore' /\ OnePerVersion' /\ AboutToCommit'
  BY <1>1, <1>2 DEF SchemaInv, StartsAtFirst, SeenBefore, OnePerVersion, AboutToCommit, PastTable
<1>4. SchemaSound'
  BY <1>1, <1>2 DEF SchemaInv, SchemaSound, AppliedOnce, InOrder, ReadyMeansMigrated
<1> QED
  BY <1>3, <1>4

LEMMA ExitKeeps ==
    ASSUME SchemaInv, NEW p \in Procs, Exit(p)
    PROVE  /\ SchemaSound' /\ StartsAtFirst'
           /\ SeenBefore' /\ OnePerVersion' /\ AboutToCommit'
  BY OutKeeps DEF Exit, Goto

(* A step inside of the loop body, which records nothing. *)
LEMMA SchemaKeeps ==
    ASSUME SchemaInv, NEW p \in Procs,
           pc[p] # "ready", pc' = [pc EXCEPT ![p] = "check"] \/ pc' = [pc EXCEPT ![p] = "sql"]
                \/ pc' = [pc EXCEPT ![p] = "insert"] \/ pc' = [pc EXCEPT ![p] = "commit"],
           UNCHANGED <<recorded, effects>>
    PROVE  SchemaSound'
<1>1. \A q \in Procs : pc'[q] = "ready" => pc[q] = "ready"
  BY DEF SchemaInv, MigrateTypeOK
<1> QED
  BY <1>1 DEF SchemaInv, SchemaSound, AppliedOnce, InOrder, ReadyMeansMigrated

LEMMA CommitKeeps ==
    ASSUME SchemaInv, NEW p \in Procs, Commit(p)
    PROVE  /\ SchemaSound' /\ StartsAtFirst'
           /\ SeenBefore' /\ OnePerVersion' /\ AboutToCommit'
<1> DEFINE v == version[p]
<1>1. v \in Versions /\ v \notin recorded /\ recorded' = recorded \cup {v}
  BY DEF SchemaInv, MigrateTypeOK, Commit, AboutToCommit
<1>2. recorded' \subseteq Versions
  BY <1>1 DEF SchemaInv, MigrateTypeOK
<1>3. StartsAtFirst' /\ SeenBefore' /\ OnePerVersion' /\ ReadyMeansMigrated'
  BY <1>1, <1>2, NextVersionKeeps DEF Commit, PastTable, InTransaction
<1>4. AppliedOnce'
  <2> SUFFICES ASSUME NEW w \in Versions
               PROVE  effects'[w] = IF w \in recorded' THEN 1 ELSE 0
    BY DEF AppliedOnce
  <2>1. effects[w] = IF w \in recorded THEN 1 ELSE 0
    BY DEF SchemaInv, SchemaSound, AppliedOnce
  <2>2. CASE w = v
    BY <2>1, <2>2, <1>1 DEF Commit, SchemaInv, MigrateTypeOK
  <2>3. CASE w # v
    BY <2>1, <2>3, <1>1 DEF Commit, SchemaInv, MigrateTypeOK
  <2> QED
    BY <2>2, <2>3
<1>5. InOrder'
  <2>1. v \in 1..Last /\ Last \in Nat /\ recorded \subseteq 1..Last
    BY <1>1, MigrateAssumption DEF Versions, SchemaInv, MigrateTypeOK
  <2>2. \A w \in 1..v : w \in Versions /\ (w < v \/ w = v)
    BY <2>1 DEF Versions
  <2>3. 1..v \subseteq recorded'
    BY <2>2, <1>1 DEF SchemaInv, SeenBefore, Commit, PastTable, InTransaction
  <2> QED
    BY <2>3, <1>1 DEF SchemaInv, SchemaSound, InOrder
<1>6. AboutToCommit'
  <2> SUFFICES ASSUME NEW q \in Procs, pc'[q] = "commit"
               PROVE  version'[q] \notin recorded'
    BY DEF AboutToCommit
  <2>1. q # p /\ pc[q] = "commit" /\ version'[q] = version[q]
    BY DEF Commit, NextVersion, Goto, SchemaInv, MigrateTypeOK
  <2>2. version[q] # v
    BY <2>1 DEF SchemaInv, OnePerVersion, InTransaction, Commit
  <2> QED
    BY <2>1, <2>2, <1>1 DEF SchemaInv, AboutToCommit
<1> QED
  BY <1>3, <1>4, <1>5, <1>6 DEF SchemaSound

LEMMA SchemaInvStep ==
    ASSUME SchemaInv, [MigrateNext]_schemaVars
    PROVE  SchemaInv'
<1>t. MigrateTypeOK'
  BY MigrateTypeStep DEF SchemaInv
<1>1. ASSUME NEW p \in Procs, Start(p)
      PROVE  SchemaInv'
  <2>1. version'[p] = 1 /\ \A q \in Procs \ {p} : version'[q] = version[q]
    BY <1>1 DEF Start, SchemaInv, MigrateTypeOK
  <2> QED
    BY <1>1, <2>1, <1>t, OutKeeps DEF Start, Goto, SchemaInv
<1>2. ASSUME NEW p \in Procs, Leave(p) \/ Crash(p)
      PROVE  SchemaInv'
  <2>1. CASE Leave(p)
    BY <2>1, <1>t, OutKeeps DEF Leave, Goto, SchemaInv
  <2>2. CASE Crash(p)
    BY <2>2, <1>t, ExitKeeps DEF Crash, SchemaInv
  <2> QED
    BY <1>2, <2>1, <2>2
<1>3. ASSUME NEW p \in Procs, MakeTable(p)
      PROVE  SchemaInv'
  <2>1. CASE Exit(p)
    BY <2>1, <1>t, ExitKeeps DEF SchemaInv
  <2>2. CASE Goto(p, "check") /\ UNCHANGED <<recorded, effects, version>>
    <3>1. pc' = [pc EXCEPT ![p] = "check"] /\ version[p] = 1
      BY <1>3, <2>2 DEF MakeTable, Goto, SchemaInv, StartsAtFirst
    <3>2. SchemaSound'
      BY <1>3, <2>2, <3>1, SchemaKeeps DEF MakeTable
    <3>3. \A v \in Versions : ~(v < 1)
      BY MigrateAssumption DEF Versions
    <3>4. SeenBefore'
      BY <2>2, <3>1, <3>3 DEF SchemaInv, MigrateTypeOK, SeenBefore
    <3>5. StartsAtFirst' /\ OnePerVersion' /\ AboutToCommit'
      BY <2>2, <3>1 DEF SchemaInv, MigrateTypeOK, StartsAtFirst, OnePerVersion,
         AboutToCommit, InTransaction
    <3> QED
      BY <1>t, <3>2, <3>4, <3>5 DEF SchemaInv
  <2> QED
    BY <1>3, <2>1, <2>2 DEF MakeTable
<1>4. ASSUME NEW p \in Procs, Check(p)
      PROVE  SchemaInv'
  <2>1. CASE version[p] \in recorded /\ NextVersion(p)
    <3>1. StartsAtFirst' /\ SeenBefore' /\ OnePerVersion' /\ ReadyMeansMigrated'
      BY <1>4, <2>1, NextVersionKeeps DEF Check, PastTable, SchemaInv, MigrateTypeOK
    <3>2. AppliedOnce' /\ InOrder'
      BY <1>4 DEF Check, SchemaInv, SchemaSound, AppliedOnce, InOrder
    <3>3. AboutToCommit'
      BY <1>4, <2>1 DEF Check, NextVersion, Goto, SchemaInv, MigrateTypeOK, AboutToCommit
    <3> QED
      BY <1>t, <3>1, <3>2, <3>3 DEF SchemaInv, SchemaSound
  <2>2. CASE Goto(p, "sql") /\ UNCHANGED version
    <3>1. SchemaSound'
      BY <1>4, <2>2, SchemaKeeps DEF Check, Goto
    <3>2. StartsAtFirst' /\ SeenBefore' /\ OnePerVersion' /\ AboutToCommit'
      BY <1>4, <2>2 DEF Check, Goto, SchemaInv, MigrateTypeOK, StartsAtFirst, SeenBefore,
         OnePerVersion, AboutToCommit, PastTable, InTransaction
    <3> QED
      BY <1>t, <3>1, <3>2 DEF SchemaInv
  <2> QED
    BY <1>4, <2>1, <2>2 DEF Check
<1>5. ASSUME NEW p \in Procs, RunSql(p)
      PROVE  SchemaInv'
  <2>1. CASE Exit(p)
    BY <2>1, <1>t, ExitKeeps DEF SchemaInv
  <2>2. CASE Goto(p, "insert") /\ UNCHANGED <<recorded, effects, version>>
    <3>1. SchemaSound'
      BY <1>5, <2>2, SchemaKeeps DEF RunSql, Goto
    <3>2. \A q \in Procs \ {p} : pc[q] \in InTransaction => version[q] # version[p]
      BY <1>5 DEF RunSql, Contended
    <3>3. OnePerVersion'
      BY <2>2, <3>2 DEF Goto, SchemaInv, MigrateTypeOK, OnePerVersion, InTransaction
    <3>4. StartsAtFirst' /\ SeenBefore' /\ AboutToCommit'
      BY <1>5, <2>2 DEF RunSql, Goto, SchemaInv, MigrateTypeOK, StartsAtFirst, SeenBefore,
         AboutToCommit, PastTable, InTransaction
    <3> QED
      BY <1>t, <3>1, <3>3, <3>4 DEF SchemaInv
  <2> QED
    BY <1>5, <2>1, <2>2 DEF RunSql
<1>6. ASSUME NEW p \in Procs, InsertVersion(p)
      PROVE  SchemaInv'
  <2>1. CASE Exit(p)
    BY <2>1, <1>t, ExitKeeps DEF SchemaInv
  <2>2. CASE /\ version[p] \notin recorded
             /\ Goto(p, "commit") /\ UNCHANGED <<recorded, effects, version>>
    <3>1. SchemaSound'
      BY <1>6, <2>2, SchemaKeeps DEF InsertVersion, Goto
    <3>2. StartsAtFirst' /\ SeenBefore' /\ OnePerVersion' /\ AboutToCommit'
      BY <1>6, <2>2 DEF InsertVersion, Goto, SchemaInv, MigrateTypeOK, StartsAtFirst,
         SeenBefore, OnePerVersion, AboutToCommit, PastTable, InTransaction
    <3> QED
      BY <1>t, <3>1, <3>2 DEF SchemaInv
  <2> QED
    BY <1>6, <2>1, <2>2 DEF InsertVersion
<1>7. ASSUME NEW p \in Procs, Commit(p)
      PROVE  SchemaInv'
  BY <1>7, <1>t, CommitKeeps DEF SchemaInv
<1>8. CASE UNCHANGED schemaVars
  BY <1>8, <1>t DEF schemaVars, SchemaInv, SchemaSound, AppliedOnce, InOrder,
     ReadyMeansMigrated, StartsAtFirst, SeenBefore, OnePerVersion, AboutToCommit
<1> QED
  BY <1>1, <1>2, <1>3, <1>4, <1>5, <1>6, <1>7, <1>8 DEF MigrateNext, Step

LEMMA SchemaInvInit == MigrateInit => SchemaInv
<1> SUFFICES ASSUME MigrateInit PROVE SchemaInv
  OBVIOUS
<1>1. PICK k \in 0..Last : recorded = 1..k
  BY DEF MigrateInit
<1>2. AppliedOnce /\ ReadyMeansMigrated /\ StartsAtFirst /\ SeenBefore /\ OnePerVersion
      /\ AboutToCommit
  BY DEF MigrateInit, AppliedOnce, ReadyMeansMigrated, StartsAtFirst, SeenBefore,
     OnePerVersion, AboutToCommit, PastTable, InTransaction
<1>3. InOrder
  BY <1>1, MigrateAssumption DEF InOrder
<1> QED
  BY <1>2, <1>3, MigrateTypeInit DEF SchemaInv, SchemaSound

(* Whoever exits without a crash was overtaken. *)
LEMMA ExitOvertaken ==
    ASSUME MigrateTypeOK, [MigrateNext]_schemaVars, NEW p \in Procs,
           pc[p] # "failed", pc'[p] = "failed", crashes' = crashes
    PROVE  IF pc[p] = "table" THEN tracked ELSE version[p] \in recorded
<1>1. PICK q \in Procs : Start(q) \/ Step(q) \/ Crash(q) \/ Leave(q)
  BY DEF MigrateNext, schemaVars
<1>2. ~Crash(q)
  BY DEF Crash, MigrateTypeOK
<1>3. ~(Start(q) \/ Leave(q) \/ Check(q) \/ Commit(q))
  BY DEF Start, Leave, Check, Commit, NextVersion, Goto, MigrateTypeOK
<1>4. CASE MakeTable(q)
  <2>1. q = p /\ pc[p] = "table"
    BY <1>4 DEF MakeTable, Exit, Goto, MigrateTypeOK
  <2> QED
    BY <1>4, <2>1 DEF MakeTable, Goto, MigrateTypeOK
<1>5. CASE RunSql(q) \/ InsertVersion(q)
  <2>1. q = p /\ pc[p] # "table"
    BY <1>5 DEF RunSql, InsertVersion, Exit, Goto, MigrateTypeOK
  <2> QED
    BY <1>5, <2>1 DEF RunSql, InsertVersion, Goto, MigrateTypeOK
<1> QED
  BY <1>1, <1>2, <1>3, <1>4, <1>5 DEF Step

-----------------------------------------------------------------------------
(* Seed: every step of the composition is one of Migrate or leaves the schema
   alone. *)

LEMMA SeedStepMigrates ==
    ASSUME [Next]_vars
    PROVE  [MigrateNext]_schemaVars
<1>0. seed \in Procs
  BY SeedAssumption DEF SeedAssumption
<1>1. CASE \E p \in Procs : Migrating(p) \/ (Crash(p) /\ UNCHANGED seedVars)
  BY <1>1 DEF Migrating, MigrateNext
<1>2. CASE \E p \in Servers : Restart(p)
  BY <1>2 DEF Restart, Servers, MigrateNext
<1>3. CASE \E f \in Files : Run(f)
  BY <1>0, <1>3 DEF Run, MigrateNext
<1>4. CASE ListItems \/ ListKits \/ Skip \/ Insert
  BY <1>4 DEF ListItems, ListKits, Skip, Insert, AtEntry, Seeding
<1>5. CASE Done
  BY <1>0, <1>5 DEF Done, MigrateNext
<1>6. CASE \E n \in Names : AdminAdd(n)
  BY <1>6 DEF AdminAdd
<1>7. CASE UNCHANGED vars
  BY <1>7 DEF vars
<1> QED
  BY <1>1, <1>2, <1>3, <1>4, <1>5, <1>6, <1>7 DEF Next

LEMMA SeedSchema == Spec => []SchemaInv
<1>1. Init => SchemaInv
  BY SchemaInvInit DEF Init
<1>2. SchemaInv /\ [Next]_vars => SchemaInv'
  BY SchemaInvStep, SeedStepMigrates
<1> QED
  BY <1>1, <1>2, PTL DEF Spec

(* With servers and seed runs migrating one database, in any number, whoever
   races or is cut off where: each recorded version took effect once, none
   before those it builds on, and whoever is through finds all of them. *)
THEOREM SchemaCorrect == Spec => []SchemaSound
<1>1. SchemaInv => SchemaSound
  BY DEF SchemaInv
<1> QED
  BY <1>1, SeedSchema, PTL

(* Losing the race costs a start: a process that exits without a crash was
   overtaken by one that did its work. *)
THEOREM OvertakenCorrect == Spec => FailsOnlyOvertaken
<1>1. SchemaInv /\ [Next]_vars =>
        [\A p \in Procs : pc[p] # "failed" /\ pc'[p] = "failed" /\ crashes' = crashes =>
            IF pc[p] = "table" THEN tracked ELSE version[p] \in recorded]_schemaVars
  BY ExitOvertaken, SeedStepMigrates DEF SchemaInv
<1> QED
  BY <1>1, SeedSchema, PTL DEF Spec, FailsOnlyOvertaken

-----------------------------------------------------------------------------
(* Seed: the types.  A run fails to read two lists at most. *)

Active == pc[seed] \in Working \cup {"ready"}

BlindBudget ==
    /\ blind <= 2 * runs
    /\ Active /\ at = "items" => blind + 2 <= 2 * runs
    /\ Active /\ at = "kits" => blind + 1 <= 2 * runs

SeedTypeInv == SchemaInv /\ TypeOK /\ BlindBudget

LEMMA FileType ==
    ASSUME TypeOK
    PROVE  /\ file \in Seq(Names)
           /\ Len(file) \in Nat
           /\ \A k \in 1..Len(file) : file[k] \in Names
<1>1. file \in Files \/ file = <<>>
  BY DEF TypeOK
<1>2. CASE file \in Files
  BY <1>2, SeedAssumption DEF SeedAssumption
<1>3. CASE file = <<>>
  BY <1>3
<1> QED
  BY <1>1, <1>2, <1>3

LEMMA AddType ==
    ASSUME TypeOK, NEW n \in Names, Add(n)
    PROVE  rows' \in [Names -> Nat]
  BY DEF Add, TypeOK

LEMMA SeedTypeStep ==
    ASSUME SeedTypeInv, [Next]_vars
    PROVE  TypeOK' /\ BlindBudget'
<1> USE SeedAssumption DEF SeedTypeInv
<1>s. seed \in Procs /\ MaxRuns \in Nat /\ MaxAdds \in Nat
  BY DEF SeedAssumption
<1>t. MigrateTypeOK'
  BY SchemaInvStep, SeedStepMigrates DEF SchemaInv
<1>n. blind \in Nat /\ runs \in Nat /\ runs <= MaxRuns /\ Len(file) \in Nat /\ pos \in Nat
  BY FileType DEF TypeOK
<1>1. ASSUME NEW p \in Procs, Step(p) \/ Crash(p) \/ (p # seed /\ Start(p)), UNCHANGED seedVars
      PROVE  TypeOK' /\ BlindBudget'
  <2>1. TypeOK'
    BY <1>1, <1>t DEF seedVars, TypeOK
  <2>2. Active' => Active
    BY <1>1, <1>s DEF Active, Step, Start, Crash, MakeTable, Check, NextVersion, RunSql,
       InsertVersion, Commit, Exit, Goto, SchemaInv, MigrateTypeOK, Working, InTransaction
  <2> QED
    BY <1>1, <2>1, <2>2 DEF seedVars, BlindBudget
<1>2. ASSUME NEW f \in Files, Run(f)
      PROVE  TypeOK' /\ BlindBudget'
  <2>1. f \in Seq(Names) /\ Len(f) \in Nat
    BY DEF SeedAssumption
  <2>2. runs' = runs + 1 /\ runs < MaxRuns /\ blind' = blind
    BY <1>2 DEF Run
  <2>3. TypeOK'
    BY <1>2, <1>t, <1>s, <2>1, <2>2 DEF Run, TypeOK, Present
  <2>4. blind' + 2 <= 2 * runs'
    BY <1>n, <2>2 DEF BlindBudget
  <2> QED
    BY <2>3, <2>4, <1>n, <2>2 DEF BlindBudget
<1>3. ASSUME ListItems
      PROVE  TypeOK' /\ BlindBudget'
  <2>1. Active /\ at = "items" /\ at' = "kits" /\ runs' = runs
        /\ (blind' = blind \/ blind' = blind + 1)
    BY <1>3 DEF ListItems, ListNames, Seeding, Active
  <2>2. blind + 2 <= 2 * runs
    BY <2>1 DEF BlindBudget
  <2>3. blind' \in Nat /\ blind' + 1 <= 2 * runs' /\ blind' <= 2 * runs'
    BY <2>1, <2>2, <1>n
  <2>4. blind' \in 0..(2 * MaxRuns)
    BY <2>1, <2>3, <1>n, <1>s
  <2>5. TypeOK'
    BY <1>3, <1>t, <2>4 DEF ListItems, ListNames, TypeOK, Names
  <2> QED
    BY <2>1, <2>3, <2>5, <1>n DEF BlindBudget
<1>4. ASSUME ListKits
      PROVE  TypeOK' /\ BlindBudget'
  <2>1. Active /\ at = "kits" /\ at' = "entries" /\ runs' = runs
        /\ (blind' = blind \/ blind' = blind + 1)
    BY <1>4 DEF ListKits, ListNames, Seeding, Active
  <2>2. blind + 1 <= 2 * runs
    BY <2>1 DEF BlindBudget
  <2>3. blind' \in Nat /\ blind' <= 2 * runs'
    BY <2>1, <2>2, <1>n
  <2>4. blind' \in 0..(2 * MaxRuns)
    BY <2>1, <2>3, <1>n, <1>s
  <2>5. TypeOK'
    BY <1>4, <1>t, <2>4 DEF ListKits, ListNames, TypeOK, Names
  <2> QED
    BY <2>1, <2>3, <2>5, <1>n DEF BlindBudget
<1>5. ASSUME Skip \/ Insert
      PROVE  TypeOK' /\ BlindBudget'
  <2>1. pos' = pos + 1 /\ pos <= Len(file) /\ Entry \in Names
    BY <1>5, <1>n, FileType DEF Skip, Insert, AtEntry, Entry, TypeOK
  <2>2. UNCHANGED <<schemaVars, at, file, have, blind, adds, runs>>
    BY <1>5 DEF Skip, Insert, AtEntry, Seeding
  <2>3. rows' \in [Names -> Nat] /\ clean' \in BOOLEAN
    BY <1>5, <2>1, AddType DEF Skip, Insert, TypeOK
  <2>4. pos' \in 1..(Len(file) + 1)
    BY <2>1, <1>n DEF TypeOK
  <2>5. TypeOK'
    BY <1>t, <2>2, <2>3, <2>4 DEF TypeOK
  <2> QED
    BY <2>2, <2>5 DEF BlindBudget, Active, schemaVars
<1>6. ASSUME Done
      PROVE  TypeOK' /\ BlindBudget'
  <2>1. ~Active'
    BY <1>6, <1>s DEF Done, Leave, Goto, Active, SchemaInv, MigrateTypeOK, Working, InTransaction
  <2> QED
    BY <1>6, <1>t, <2>1 DEF Done, seedVars, TypeOK, BlindBudget
<1>7. ASSUME NEW n \in Names, AdminAdd(n)
      PROVE  TypeOK' /\ BlindBudget'
  <2>1. rows' \in [Names -> Nat]
    BY <1>7, AddType DEF AdminAdd
  <2>2. adds' \in 0..MaxAdds
    BY <1>7, <1>s DEF AdminAdd, TypeOK
  <2>3. TypeOK'
    BY <1>7, <1>t, <2>1, <2>2 DEF AdminAdd, TypeOK
  <2> QED
    BY <1>7, <2>3 DEF AdminAdd, BlindBudget, Active, schemaVars
<1>8. CASE UNCHANGED vars
  BY <1>8, <1>t DEF vars, seedVars, schemaVars, TypeOK, BlindBudget, Active
<1> QED
  BY <1>1, <1>2, <1>3, <1>4, <1>5, <1>6, <1>7, <1>8
     DEF Next, Migrating, Restart, Servers

LEMMA SeedTypeInit == Init => SeedTypeInv
<1> SUFFICES ASSUME Init PROVE SeedTypeInv
  OBVIOUS
<1>1. seed \in Procs /\ MaxRuns \in Nat /\ MaxAdds \in Nat
  BY SeedAssumption DEF SeedAssumption
<1>2. ~Active
  BY <1>1 DEF Init, MigrateInit, Active, Working, InTransaction
<1>3. TypeOK
  BY <1>1, MigrateTypeInit DEF Init, TypeOK
<1>4. BlindBudget
  BY <1>2 DEF Init, BlindBudget
<1> QED
  BY <1>3, <1>4, SchemaInvInit DEF Init, SeedTypeInv

LEMMA SeedTyped == Spec => []SeedTypeInv
<1>1. SeedTypeInv /\ [Next]_vars => SeedTypeInv'
  BY SeedTypeStep, SchemaInvStep, SeedStepMigrates DEF SeedTypeInv
<1> QED
  BY <1>1, SeedTypeInit, PTL DEF Spec

(* Every variable keeps its type: the loop never looks past the file, and a run
   misses two lists at most. *)
THEOREM SeedTypeCorrect == Spec => []TypeOK
<1>1. SeedTypeInv => TypeOK
  BY DEF SeedTypeInv
<1> QED
  BY <1>1, SeedTyped, PTL

-----------------------------------------------------------------------------
(* Seed: what a run has entered.  What is in the skip set, and what a clean run
   has come past, is in the catalogue; and only a run that came to the end of
   its file is through. *)

CleanInv ==
    /\ \A n \in have : rows[n] > 0
    /\ clean => \A k \in 1..Len(file) : k < pos => rows[file[k]] > 0
    /\ pc[seed] = "off" => pos > Len(file)

LEMMA CleanInvStep ==
    ASSUME SeedTypeInv, CleanInv, [Next]_vars
    PROVE  CleanInv'
<1> USE DEF SeedTypeInv
<1>s. seed \in Procs
  BY SeedAssumption DEF SeedAssumption
<1>n. /\ Len(file) \in Nat /\ pos \in Nat /\ have \subseteq Names
      /\ \A k \in 1..Len(file) : file[k] \in Names
      /\ \A n \in Names : rows[n] \in Nat
  BY FileType DEF TypeOK
<1>1. ASSUME UNCHANGED seedVars, pc'[seed] = "off" => pc[seed] = "off" \/ pos > Len(file)
      PROVE  CleanInv'
  BY <1>1 DEF CleanInv, seedVars
<1>2. ASSUME NEW p \in Procs, Step(p) \/ Crash(p) \/ (p # seed /\ Start(p)), UNCHANGED seedVars
      PROVE  CleanInv'
  <2>1. pc'[seed] = "off" => pc[seed] = "off"
    BY <1>2, <1>s DEF Step, Start, Crash, MakeTable, Check, NextVersion, RunSql,
       InsertVersion, Commit, Exit, Goto, SchemaInv, MigrateTypeOK
  <2> QED
    BY <1>1, <1>2, <2>1
<1>3. ASSUME NEW f \in Files, Run(f)
      PROVE  CleanInv'
  <2>1. pc'[seed] # "off" /\ have' = {} /\ pos' = 1
    BY <1>3, <1>s DEF Run, Start, Goto, SchemaInv, MigrateTypeOK
  <2>2. \A k \in 1..Len(file') : ~(k < 1)
    OBVIOUS
  <2> QED
    BY <2>1, <2>2 DEF CleanInv
<1>4. ASSUME ListItems \/ ListKits
      PROVE  CleanInv'
  <2>1. UNCHANGED <<pc, rows, file, pos, clean>> /\ have' \subseteq have \cup Present
    BY <1>4 DEF ListItems, ListKits, ListNames, Seeding, schemaVars
  <2> QED
    BY <2>1 DEF CleanInv, Present
<1>5. ASSUME Skip \/ Insert
      PROVE  CleanInv'
  <2>1. /\ UNCHANGED <<file, have>> /\ pc' = pc /\ pc[seed] = "ready"
        /\ pos <= Len(file) /\ pos' = pos + 1 /\ Entry = file[pos]
    BY <1>5 DEF Skip, Insert, AtEntry, Seeding, Entry, schemaVars
  <2>2. pos \in 1..Len(file) /\ Entry \in Names
    BY <2>1, <1>n DEF TypeOK
  <2>3. \A n \in Names : rows[n] > 0 => rows'[n] > 0
    BY <1>5, <2>2, <1>n DEF Skip, Insert, Add, TypeOK
  <2>4. clean' => clean /\ rows'[Entry] > 0
    <3>1. CASE Skip
      BY <3>1 DEF Skip, CleanInv
    <3>2. CASE Insert
      <4>1. clean' => clean /\ Add(Entry)
        BY <3>2 DEF Insert
      <4>2. Add(Entry) => rows'[Entry] = rows[Entry] + 1
        BY <2>2 DEF Add, TypeOK
      <4> QED
        BY <4>1, <4>2, <2>2, <1>n
    <3> QED
      BY <1>5, <3>1, <3>2
  <2>5. \A k \in 1..Len(file) : k < pos + 1 => k < pos \/ k = pos
    BY <1>n
  <2>6. clean' => \A k \in 1..Len(file) : k < pos' => rows'[file[k]] > 0
    BY <2>1, <2>3, <2>4, <2>5, <1>n DEF CleanInv
  <2> QED
    BY <2>1, <2>3, <2>6, <1>n DEF CleanInv
<1>6. ASSUME Done
      PROVE  CleanInv'
  BY <1>1, <1>6 DEF Done
<1>7. ASSUME NEW n \in Names, AdminAdd(n)
      PROVE  CleanInv'
  <2>1. \A m \in Names : rows[m] > 0 => rows'[m] > 0
    BY <1>7, <1>n DEF AdminAdd, Add, TypeOK
  <2> QED
    BY <1>7, <2>1, <1>n DEF AdminAdd, CleanInv, schemaVars
<1>8. CASE UNCHANGED vars
  BY <1>1, <1>8 DEF vars, schemaVars
<1> QED
  BY <1>2, <1>3, <1>4, <1>5, <1>6, <1>7, <1>8 DEF Next, Migrating, Restart, Servers

LEMMA CleanInvInit == Init => CleanInv
<1> SUFFICES ASSUME Init PROVE CleanInv
  OBVIOUS
<1>1. have = {} /\ pos = 1 /\ Len(file) = 0
  BY DEF Init
<1> QED
  BY <1>1 DEF CleanInv

(* After a run that reported no error everything in its file is in the
   catalogue, whatever earlier runs left undone, for any number of runs and any
   files. *)
THEOREM CleanRunCorrect == Spec => []CleanRunCompletes
<1>1. SeedTypeInv /\ CleanInv => CleanRunCompletes
  <2> SUFFICES ASSUME SeedTypeInv, CleanInv, pc[seed] = "off", clean, NEW k \in 1..Len(file)
               PROVE  rows[file[k]] > 0
    BY DEF CleanRunCompletes
  <2>1. Len(file) \in Nat /\ pos \in Nat
    BY FileType DEF SeedTypeInv, TypeOK
  <2> QED
    BY <2>1 DEF CleanInv
<1> QED
  BY <1>1, SeedTyped, CleanInvInit, CleanInvStep, PTL DEF Spec

-----------------------------------------------------------------------------
(* Seed: how often a name is entered.  Some file names n as often as the file at
   hand, and bounds the rows of n: before the names of its kind were read by
   what earlier runs may have done; after it, unless n is skipped, by the copies
   this run has come past, since either there was no n or a list was missed. *)

CountTo(f, m, n) == Cardinality({k \in 1..m : f[k] = n})

CopiesPast(n) == CountTo(file, pos - 1, n)

Listed(n) == at = "entries" \/ (at = "kits" /\ n \in ItemNames)

BoundedBy(n, c) ==
    /\ Copies(file, n) <= c
    /\ rows[n] <= adds + c * (1 + blind)
    /\ Listed(n) /\ n \notin have => rows[n] <= adds + c * blind + CopiesPast(n)

CountInv == \A n \in Names : \E f \in Files : BoundedBy(n, Copies(f, n))

(* A product with a natural number grows with its factors. *)
LEMMA Product ==
    ASSUME NEW b \in Nat, NEW c \in Nat, NEW d \in Nat, c <= d
    PROVE  /\ c * b \in Nat
           /\ c * b <= d * b
           /\ c * (1 + b) = c + c * b
           /\ c * (1 + b) <= d * (1 + b)
  OBVIOUS

LEMMA CopiesType ==
    ASSUME NEW f \in Seq(Names), NEW n
    PROVE  Copies(f, n) \in Nat
<1>1. Len(f) \in Nat
  OBVIOUS
<1>2. IsFiniteSet(1..Len(f))
  BY <1>1, FS_Interval
<1>3. IsFiniteSet({k \in 1..Len(f) : f[k] = n})
  BY <1>2, FS_Subset
<1> QED
  BY <1>3, FS_CardinalityType DEF Copies

LEMMA CountToType ==
    ASSUME NEW f \in Seq(Names), NEW m \in Nat, m <= Len(f), NEW n
    PROVE  /\ IsFiniteSet({k \in 1..m : f[k] = n})
           /\ CountTo(f, m, n) \in Nat
           /\ CountTo(f, m, n) <= Copies(f, n)
<1>1. Len(f) \in Nat
  OBVIOUS
<1>2. IsFiniteSet({k \in 1..Len(f) : f[k] = n})
  <2>1. IsFiniteSet(1..Len(f))
    BY <1>1, FS_Interval
  <2> QED
    BY <2>1, FS_Subset
<1>3. {k \in 1..m : f[k] = n} \subseteq {k \in 1..Len(f) : f[k] = n}
  BY <1>1
<1> QED
  BY <1>2, <1>3, FS_Subset, FS_CardinalityType DEF CountTo, Copies

LEMMA CopiesPastType ==
    ASSUME TypeOK, NEW n
    PROVE  CopiesPast(n) \in Nat
<1>1. file \in Seq(Names) /\ pos - 1 \in Nat /\ pos - 1 <= Len(file)
  BY FileType DEF TypeOK
<1> QED
  BY <1>1, CountToType DEF CopiesPast

(* Coming past an entry. *)
LEMMA CopiesPastEntry ==
    ASSUME TypeOK, pos <= Len(file), pos' = pos + 1, file' = file, NEW n
    PROVE  /\ CopiesPast(n)' = CopiesPast(n) + (IF Entry = n THEN 1 ELSE 0)
           /\ CopiesPast(n)' <= Copies(file, n)
<1> DEFINE past == {k \in 1..(pos - 1) : file[k] = n}
<1>1. pos \in Nat /\ pos >= 1 /\ pos' - 1 = pos /\ Len(file) \in Nat
  BY FileType DEF TypeOK
<1>2. file \in Seq(Names) /\ pos - 1 \in Nat /\ pos - 1 <= Len(file)
  BY <1>1, FileType
<1>3. pos \notin past /\ IsFiniteSet(past)
  <2>1. pos \notin past
    BY <1>1
  <2>2. IsFiniteSet(past)
    BY <1>2, CountToType
  <2> QED
    BY <2>1, <2>2
<1>4. CopiesPast(n)' = CountTo(file, pos, n)
  BY <1>1 DEF CopiesPast
<1>5. \A k \in 1..pos : k \in 1..(pos - 1) \/ k = pos
  BY <1>1
<1>6. CASE Entry = n
  <2>1. {k \in 1..pos : file[k] = n} = past \cup {pos}
    BY <1>1, <1>5, <1>6 DEF Entry
  <2>2. Cardinality(past \cup {pos}) = Cardinality(past) + 1
    BY <1>3, FS_AddElement
  <2> QED
    BY <1>1, <1>2, <1>4, <1>6, <2>1, <2>2, CountToType DEF CopiesPast, CountTo
<1>7. CASE Entry # n
  <2>1. {k \in 1..pos : file[k] = n} = past
    BY <1>1, <1>5, <1>7 DEF Entry
  <2>2. CountTo(file, pos, n) = CountTo(file, pos - 1, n)
    BY <2>1 DEF CountTo
  <2>3. CountTo(file, pos, n) \in Nat /\ CountTo(file, pos, n) <= Copies(file, n)
    BY <1>1, <1>2, CountToType
  <2> QED
    BY <1>4, <1>7, <2>2, <2>3 DEF CopiesPast
<1> QED
  BY <1>6, <1>7

(* Steps that read a list of names: c stays a bound. *)
LEMMA ListBound ==
    ASSUME TypeOK, NEW kind, ListNames(kind), UNCHANGED <<rows, file, pos, adds>>,
           NEW n \in Names, NEW c \in Nat, BoundedBy(n, c),
           Listed(n)' => Listed(n) \/ n \in kind
    PROVE  BoundedBy(n, c)'
<1>0. CopiesPast(n) \in Nat /\ CopiesPast(n)' = CopiesPast(n)
  BY CopiesPastType DEF CopiesPast
<1>1. /\ rows[n] \in Nat /\ adds \in Nat /\ blind \in Nat
      /\ CopiesPast(n) \in Nat /\ CopiesPast(n)' = CopiesPast(n)
  BY <1>0 DEF TypeOK
<1>2. c * blind \in Nat /\ c * (1 + blind) = c + c * blind
      /\ c * (1 + (blind + 1)) = c + c * blind + c /\ c * (blind + 1) = c * blind + c
  BY <1>1, Product
<1>3. rows[n] <= adds + (c + c * blind)
  BY <1>2 DEF BoundedBy
<1>4. CASE blind' = blind /\ have' = have \cup (Present \cap kind)
  <2>1. Listed(n)' /\ n \notin have' => rows[n] <= adds + c * blind + CopiesPast(n)
    <3> SUFFICES ASSUME Listed(n)', n \notin have'
                 PROVE  rows[n] <= adds + c * blind + CopiesPast(n)
      OBVIOUS
    <3>1. CASE Listed(n)
      BY <3>1, <1>4 DEF BoundedBy
    <3>2. CASE n \in kind
      <4>1. rows[n] = 0
        BY <3>2, <1>1, <1>4 DEF Present
      <4> QED
        BY <4>1, <1>1, <1>2
    <3> QED
      BY <3>1, <3>2
  <2> QED
    BY <1>1, <1>4, <2>1 DEF BoundedBy, Copies
<1>5. CASE blind' = blind + 1 /\ have' = have
  <2>1. rows[n] <= adds + (c + c * blind + c)
    BY <1>1, <1>2, <1>3
  <2>2. rows[n] <= adds + (c * blind + c) + CopiesPast(n)
    BY <1>1, <1>2, <1>3
  <2> QED
    BY <1>1, <1>2, <1>5, <2>1, <2>2 DEF BoundedBy, Copies
<1> QED
  BY <1>4, <1>5 DEF ListNames

(* An entry passed over or inserted: c stays a bound. *)
LEMMA EntryBound ==
    ASSUME TypeOK, Skip \/ Insert, NEW n \in Names, NEW c \in Nat, BoundedBy(n, c)
    PROVE  BoundedBy(n, c)'
<1>1. /\ at = "entries" /\ at' = at /\ pos <= Len(file) /\ pos' = pos + 1
      /\ UNCHANGED <<file, have, blind, adds>>
  BY DEF Skip, Insert, AtEntry, Seeding
<1>2. CopiesPast(n)' = CopiesPast(n) + (IF Entry = n THEN 1 ELSE 0)
  BY <1>1, CopiesPastEntry
<1>3. Copies(file, n)' = Copies(file, n) /\ Copies(file, n) <= c
  BY <1>1 DEF Copies, BoundedBy
<1>4. CopiesPast(n) \in Nat /\ CopiesPast(n)' \in Nat /\ CopiesPast(n)' <= Copies(file, n)'
  BY <1>1, <1>2, <1>3, CopiesPastType, CopiesPastEntry
<1>5. rows[n] \in Nat /\ adds \in Nat /\ blind \in Nat
  BY DEF TypeOK
<1>6. Copies(file, n) \in Nat
  BY FileType, CopiesType
<1>7. c * blind \in Nat /\ c * (1 + blind) = c + c * blind
  BY <1>5, Product
<1>8. Listed(n) /\ Listed(n)'
  BY <1>1 DEF Listed
<1>9. CASE rows'[n] = rows[n]
  <2>1. CopiesPast(n) <= CopiesPast(n)'
    BY <1>2, <1>4
  <2>2. n \notin have => rows[n] <= adds + c * blind + CopiesPast(n)'
    BY <1>4, <1>5, <1>7, <1>8, <2>1 DEF BoundedBy
  <2> QED
    BY <1>1, <1>3, <1>9, <2>2 DEF BoundedBy
<1>10. CASE rows'[n] # rows[n]
  <2>1. Entry = n /\ n \notin have /\ rows'[n] = rows[n] + 1
    <3>1. Insert /\ Add(Entry)
      BY <1>10 DEF Skip, Insert
    <3> QED
      BY <3>1, <1>10, <1>5 DEF Insert, Add, TypeOK
  <2>2. rows[n] <= adds + c * blind + CopiesPast(n)
    BY <1>8, <2>1 DEF BoundedBy
  <2>3. rows'[n] <= adds + c * blind + CopiesPast(n)'
    BY <1>2, <1>4, <1>5, <1>7, <2>1, <2>2
  <2>4. CopiesPast(n)' <= c
    BY <1>3, <1>4, <1>6
  <2>5. rows'[n] <= adds + c * (1 + blind)
    BY <1>4, <1>5, <1>7, <2>1, <2>3, <2>4
  <2> QED
    BY <1>1, <1>3, <2>3, <2>5 DEF BoundedBy
<1> QED
  BY <1>9, <1>10

(* A new run, with a file that names n more often or less. *)
LEMMA RunBound ==
    ASSUME TypeOK, NEW f \in Files, Run(f), NEW n \in Names,
           NEW c \in Nat, BoundedBy(n, c), NEW d \in Nat, c <= d, Copies(f, n) <= d
    PROVE  BoundedBy(n, d)'
<1>1. /\ UNCHANGED <<rows, adds, blind>> /\ file' = f /\ at' = "items"
  BY DEF Run
<1>2. ~Listed(n)'
  BY <1>1 DEF Listed
<1>3. rows[n] \in Nat /\ adds \in Nat /\ blind \in Nat
  BY DEF TypeOK
<1>4. c * (1 + blind) <= d * (1 + blind) /\ 1 + blind \in Nat
  BY <1>3, Product
<1>5. c * (1 + blind) \in Nat /\ d * (1 + blind) \in Nat
  BY <1>4, Product
<1>6. rows[n] <= adds + d * (1 + blind)
  BY <1>3, <1>4, <1>5 DEF BoundedBy
<1> QED
  BY <1>1, <1>2, <1>6 DEF BoundedBy, Copies

LEMMA CountInvStep ==
    ASSUME SeedTypeInv, CountInv, [Next]_vars
    PROVE  CountInv'
<1>t. TypeOK /\ TypeOK'
  BY SeedTypeStep DEF SeedTypeInv
<1>f. \A f \in Files : \A n \in Names : Copies(f, n) \in Nat
  BY CopiesType, SeedAssumption DEF SeedAssumption
<1>k. \A f \in Files : \A n \in Names : Copies(f, n)' = Copies(f, n)
  BY DEF Copies
<1> SUFFICES ASSUME NEW n \in Names
             PROVE  \E f \in Files : BoundedBy(n, Copies(f, n))'
  BY <1>k DEF CountInv
<1>1. PICK g \in Files : BoundedBy(n, Copies(g, n))
  BY DEF CountInv
<1> DEFINE c == Copies(g, n)
<1>2. c \in Nat
  BY <1>f
<1> HIDE DEF c
<1>b. BoundedBy(n, c)
  BY <1>1 DEF c
<1>g. ASSUME BoundedBy(n, c)'
      PROVE  \E f \in Files : BoundedBy(n, Copies(f, n))'
  BY <1>g DEF c
<1>3. ASSUME UNCHANGED seedVars
      PROVE  BoundedBy(n, c)'
  BY <1>b, <1>3 DEF seedVars, BoundedBy, Copies, CopiesPast, Listed
<1>4. ASSUME NEW f \in Files, Run(f)
      PROVE  \E h \in Files : BoundedBy(n, Copies(h, n))'
  <2> DEFINE d == Copies(f, n)
  <2>1. d \in Nat
    BY <1>f
  <2>2. CASE c <= d
    <3>1. BoundedBy(n, d)'
      BY <1>2, <1>4, <1>b, <1>t, <2>1, <2>2, RunBound
    <3> QED
      BY <3>1
  <2>3. CASE ~(c <= d)
    <3>1. c <= c /\ d <= c
      BY <1>2, <2>1, <2>3
    <3>2. BoundedBy(n, c)'
      BY <1>2, <1>4, <1>b, <1>t, <3>1, RunBound
    <3> QED
      BY <3>2, <1>g
  <2> QED
    BY <2>2, <2>3
<1>5. ASSUME ListItems
      PROVE  BoundedBy(n, c)'
  <2>1. ListNames(ItemNames) /\ UNCHANGED <<rows, file, pos, adds>>
    BY <1>5 DEF ListItems
  <2>2. Listed(n)' => n \in ItemNames
    BY <1>5 DEF ListItems, Listed
  <2> QED
    BY <1>2, <1>b, <1>t, <2>1, <2>2, ListBound
<1>6. ASSUME ListKits
      PROVE  BoundedBy(n, c)'
  <2>1. ListNames(KitNames) /\ UNCHANGED <<rows, file, pos, adds>>
    BY <1>6 DEF ListKits
  <2>2. Listed(n)' => Listed(n) \/ n \in KitNames
    BY <1>6 DEF ListKits, Seeding, Listed, Names
  <2> QED
    BY <1>2, <1>b, <1>t, <2>1, <2>2, ListBound
<1>7. ASSUME Skip \/ Insert
      PROVE  BoundedBy(n, c)'
  BY <1>2, <1>7, <1>b, <1>t, EntryBound
<1>8. ASSUME NEW m \in Names, AdminAdd(m)
      PROVE  BoundedBy(n, c)'
  <2>1. /\ UNCHANGED <<at, file, have, pos, blind>> /\ adds' = adds + 1
        /\ (rows'[n] = rows[n] \/ rows'[n] = rows[n] + 1)
    BY <1>8, <1>t DEF AdminAdd, Add, TypeOK
  <2>6. rows[n] \in Nat /\ adds \in Nat /\ blind \in Nat
    BY <1>t DEF TypeOK
  <2>2. /\ rows[n] \in Nat /\ adds \in Nat /\ blind \in Nat /\ CopiesPast(n) \in Nat
        /\ c * blind \in Nat /\ c * (1 + blind) = c + c * blind
    BY <1>2, <1>t, <2>6, CopiesPastType, Product
  <2>3. CopiesPast(n)' = CopiesPast(n) /\ Listed(n)' = Listed(n)
    BY <2>1 DEF CopiesPast, Listed
  <2>4. rows'[n] <= adds' + c * (1 + blind)
    BY <1>2, <1>b, <2>1, <2>2 DEF BoundedBy
  <2>5. Listed(n)' /\ n \notin have' => rows'[n] <= adds' + c * blind + CopiesPast(n)'
    BY <1>b, <2>1, <2>2, <2>3 DEF BoundedBy
  <2> QED
    BY <1>b, <2>1, <2>4, <2>5 DEF BoundedBy, Copies
<1>9. CASE UNCHANGED vars
  BY <1>3, <1>9, <1>g DEF vars
<1> QED
  BY <1>3, <1>4, <1>5, <1>6, <1>7, <1>8, <1>9, <1>g DEF Next, Migrating, Restart, Done

LEMMA CountInvInit == Init => CountInv
<1> SUFFICES ASSUME Init, NEW n \in Names
             PROVE  \E f \in Files : BoundedBy(n, Copies(f, n))
  BY DEF CountInv
<1>1. PICK f \in Files : f \in Seq(Names)
  BY SeedAssumption DEF SeedAssumption
<1>2. Copies(f, n) \in Nat
  BY <1>1, CopiesType
<1>3. rows[n] = 0 /\ adds = 0 /\ blind = 0 /\ file = <<>> /\ ~Listed(n)
  BY DEF Init, Listed
<1>4. {k \in 1..Len(file) : file[k] = n} = {}
  BY <1>3
<1>5. Copies(file, n) = 0
  BY <1>4, FS_EmptySet DEF Copies
<1>6. Copies(f, n) * (1 + blind) \in Nat
  BY <1>2, <1>3
<1> QED
  BY <1>2, <1>3, <1>5, <1>6 DEF BoundedBy

(* However often the seed command is cut off and run again, with whatever files
   and failing inserts, it enters a name no more often than one file names it,
   and once more in each run that could not read the names. *)
THEOREM NeverTwiceCorrect == Spec => []NeverTwiceAlone
<1>1. CountInv => NeverTwiceAlone
  BY DEF CountInv, BoundedBy, NeverTwiceAlone
<1> QED
  BY <1>1, SeedTyped, CountInvInit, CountInvStep, PTL DEF Spec
=============================================================================
