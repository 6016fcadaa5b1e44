-------------------------------- MODULE Migrate --------------------------------
(***************************************************************************)
(* Store.Migrate, run at the start of every process of the program: the    *)
(* server, a second server, the seed command.  Nothing keeps two of them   *)
(* from migrating one database at once.  Each version is applied in a      *)
(* transaction of its own: its SQL, then its row in schema_migrations,     *)
(* whose primary key is the version.  A process that meets an error exits. *)
(***************************************************************************)
EXTENDS Integers

CONSTANTS
    Procs,      \* processes that start on this database
    Last,       \* the last version among the embedded migrations
    MaxCrashes  \* bound: how often a process stops or loses the database

ASSUME MigrateAssumption == Last \in Nat \ {0} /\ MaxCrashes \in Nat

VARIABLES
    tracked,    \* does the table schema_migrations exist?
    recorded,   \* its versions
    effects,    \* how often the SQL of each version was committed
    pc,         \* the next statement of each process
    version,    \* the version it is at
    saw,        \* did the table exist when the process started?
    crashes     \* crashes so far

schemaVars == <<tracked, recorded, effects, pc, version, saw, crashes>>

Versions == 1..Last

InTransaction == {"insert", "commit"}
Working == {"table", "check", "sql"} \cup InTransaction

(* The database was made by an older version of the program, or is new. *)
MigrateInit ==
    /\ \E k \in 0..Last : recorded = 1..k
    /\ tracked = (recorded # {})
    /\ effects = [v \in Versions |-> IF v \in recorded THEN 1 ELSE 0]
    /\ pc = [p \in Procs |-> "off"]
    /\ version = [p \in Procs |-> 1]
    /\ saw = [p \in Procs |-> FALSE]
    /\ crashes = 0

-----------------------------------------------------------------------------
Goto(p, label) == pc' = [pc EXCEPT ![p] = label]

(* The error is returned, and main or seed exits; its transaction is undone. *)
Exit(p) ==
    /\ Goto(p, "failed")
    /\ UNCHANGED <<tracked, recorded, effects, version, saw>>

(* A service manager starts a process again that failed. *)
Start(p) ==
    /\ pc[p] \in {"off", "failed"}
    /\ Goto(p, "table")
    /\ version' = [version EXCEPT ![p] = 1]
    /\ saw' = [saw EXCEPT ![p] = tracked]
    /\ UNCHANGED <<tracked, recorded, effects, crashes>>

(* CREATE ... IF NOT EXISTS fails all the same when the object appears while it
   runs. *)
MakeTable(p) ==
    /\ pc[p] = "table"
    /\ \/ /\ Goto(p, "check")
          /\ tracked' = TRUE
          /\ UNCHANGED <<recorded, effects, version, saw, crashes>>
       \/ tracked /\ ~saw[p] /\ Exit(p) /\ UNCHANGED crashes

(* The loop goes on to the next file, or Migrate returns. *)
NextVersion(p) ==
    IF version[p] < Last
    THEN version' = [version EXCEPT ![p] = @ + 1] /\ Goto(p, "check")
    ELSE Goto(p, "ready") /\ UNCHANGED version

(* SELECT EXISTS, outside of the transaction that follows. *)
Check(p) ==
    /\ pc[p] = "check"
    /\ \/ version[p] \in recorded /\ NextVersion(p)
       \/ version[p] \notin recorded /\ Goto(p, "sql") /\ UNCHANGED version
    /\ UNCHANGED <<tracked, recorded, effects, saw, crashes>>

(* Another transaction has created the same objects and is not over yet. *)
Contended(p) ==
    \E q \in Procs \ {p} : pc[q] \in InTransaction /\ version[q] = version[p]

(* The SQL of the version: waits for a transaction that creates the same
   objects, and may collide with one that has just committed them. *)
RunSql(p) ==
    /\ pc[p] = "sql" /\ ~Contended(p)
    /\ \/ Goto(p, "insert") /\ UNCHANGED <<tracked, recorded, effects, version, saw>>
       \/ version[p] \in recorded /\ Exit(p)
    /\ UNCHANGED crashes

(* Mutant: INSERT ... ON CONFLICT DO NOTHING. *)
InsertAnyway(p) ==
    /\ pc[p] = "insert"
    /\ Goto(p, "commit")
    /\ UNCHANGED <<tracked, recorded, effects, version, saw, crashes>>

(* Mutant: any error of the insert is taken for a reason to exit. *)
InsertFails(p) ==
    /\ pc[p] = "insert"
    /\ Goto(p, "commit") \/ Goto(p, "failed")
    /\ UNCHANGED <<tracked, recorded, effects, version, saw, crashes>>

(* INSERT INTO schema_migrations, whose primary key is the version. *)
InsertVersion(p) ==
    /\ pc[p] = "insert"
    /\ \/ version[p] \in recorded /\ Exit(p)
       \/ /\ version[p] \notin recorded
          /\ Goto(p, "commit")
          /\ UNCHANGED <<tracked, recorded, effects, version, saw>>
    /\ UNCHANGED crashes

Commit(p) ==
    /\ pc[p] = "commit"
    /\ recorded' = recorded \cup {version[p]}
    /\ effects' = [effects EXCEPT ![version[p]] = @ + 1]
    /\ NextVersion(p)
    /\ UNCHANGED <<tracked, saw, crashes>>

(* The process stops, or the database does not answer it. *)
Crash(p) ==
    /\ pc[p] \in Working \cup {"ready"} /\ crashes < MaxCrashes
    /\ crashes' = crashes + 1
    /\ Exit(p)

Step(p) ==
    MakeTable(p) \/ Check(p) \/ RunSql(p) \/ InsertVersion(p) \/ Commit(p)

(* The command that is through with its work ends (main.go:35-37,
   seed.go:104-106); Seed has it of the seed command alone. *)
Leave(p) ==
    /\ pc[p] = "ready"
    /\ Goto(p, "off")
    /\ UNCHANGED <<tracked, recorded, effects, version, saw, crashes>>

MigrateNext == \E p \in Procs : Start(p) \/ Step(p) \/ Crash(p) \/ Leave(p)

MigrateSpec == MigrateInit /\ [][MigrateNext]_schemaVars

-----------------------------------------------------------------------------
(* Properties *)

(* Every variable keeps its type. *)
MigrateTypeOK ==
    /\ tracked \in BOOLEAN
    /\ recorded \subseteq Versions
    /\ effects \in [Versions -> Nat]
    /\ pc \in [Procs -> Working \cup {"off", "failed", "ready"}]
    /\ version \in [Procs -> Versions]
    /\ saw \in [Procs -> BOOLEAN]
    /\ crashes \in Nat

(* Each recorded version took effect exactly once and no other did, whoever
   migrates at the same time or is cut off where (store.go:97-111). *)
AppliedOnce ==
    \A v \in Versions : effects[v] = IF v \in recorded THEN 1 ELSE 0

(* No version is recorded before those it builds on (store.go:70-72). *)
InOrder == \A v \in recorded : 1..v \subseteq recorded

(* Whoever gets past Migrate, the seed command included, finds every version
   in place (main.go:70-73, seed.go:52-55). *)
ReadyMeansMigrated ==
    (\E p \in Procs : pc[p] = "ready") => recorded = Versions

(* The schema is what schema_migrations says and what the program expects,
   whoever races or is cut off where: the three together. *)
SchemaSound == AppliedOnce /\ InOrder /\ ReadyMeansMigrated

(* Losing the race costs a start, never the migration: a process that exits
   without a crash was overtaken by one that did its work (store.go:77,106). *)
FailsOnlyOvertaken ==
    [][\A p \in Procs : pc[p] # "failed" /\ pc'[p] = "failed" /\ crashes' = crashes =>
            IF pc[p] = "table" THEN tracked ELSE version[p] \in recorded]_schemaVars

=============================================================================
