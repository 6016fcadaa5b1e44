--------------------------------- MODULE Seed ---------------------------------
(***************************************************************************)
(* The seed command, while servers start and run on the same database and  *)
(* admins add entries.  A run migrates the schema like every other process *)
(* (Migrate), reads the names that are there, items and kits in two        *)
(* queries, and inserts what its file has and those lists had not.  It may *)
(* be cut off, and be run again with the file edited.                      *)
(***************************************************************************)
EXTENDS Migrate, Sequences, FiniteSets

CONSTANTS
    ItemNames,      \* names of catalogue items
    KitNames,       \* names of kits
    Files,          \* what the seed file may hold: items, then kits
    seed,           \* the process that is the seed command; the others are servers
    MaxAdds,        \* bound: entries added by admins
    MaxRuns         \* bound: runs of the command

Names == ItemNames \cup KitNames

ASSUME SeedAssumption ==
    /\ seed \in Procs
    /\ ItemNames \cap KitNames = {}
    /\ Files # {} /\ \A f \in Files : f \in Seq(Names)
    /\ MaxAdds \in Nat /\ MaxRuns \in Nat

VARIABLES
    rows,       \* how many rows the catalogue has under each name
    at,         \* what the run does next, once it has migrated
    file,       \* its file
    have,       \* its skip sets
    pos,        \* the entry it is at
    clean,      \* history: has none of its inserts failed?
    blind,      \* history: lists of names that could not be read
    adds, runs  \* entries added by admins, runs begun

seedVars == <<rows, at, file, have, pos, clean, blind, adds, runs>>
vars == <<schemaVars, seedVars>>

Servers == Procs \ {seed}

Present == {n \in Names : rows[n] > 0}

Entry == file[pos]

Init ==
    /\ MigrateInit
    /\ rows = [n \in Names |-> 0]
    /\ at = "items"
    /\ file = <<>> /\ have = {} /\ pos = 1
    /\ clean = TRUE /\ blind = 0
    /\ adds = 0 /\ runs = 0

Run(f) ==
    /\ Start(seed) /\ runs < MaxRuns
    /\ at' = "items" /\ file' = f
    /\ have' = {} /\ pos' = 1
    /\ clean' = TRUE /\ runs' = runs + 1
    /\ UNCHANGED <<rows, blind, adds>>

(* Migrate has returned. *)
Seeding(step) == pc[seed] = "ready" /\ at = step /\ UNCHANGED schemaVars

(* Mutant: only what is on sale is listed, which some entry may not be. *)
ListNamesOnSale(kind) ==
    /\ \E hidden \in SUBSET Present : have' = have \cup ((Present \cap kind) \ hidden)
    /\ UNCHANGED blind

(* A list that cannot be read leaves its skip set empty. *)
ListNames(kind) ==
    \/ have' = have \cup (Present \cap kind) /\ UNCHANGED blind
    \/ UNCHANGED have /\ blind' = blind + 1

ListItems ==
    /\ Seeding("items") /\ at' = "kits"
    /\ ListNames(ItemNames)
    /\ UNCHANGED <<rows, file, pos, clean, adds, runs>>

ListKits ==
    /\ Seeding("kits") /\ at' = "entries"
    /\ ListNames(KitNames)
    /\ UNCHANGED <<rows, file, pos, clean, adds, runs>>

(* Mutant: the index moves in the loop's header and in its body. *)
AtEntryTwice == Seeding("entries") /\ pos <= Len(file) /\ pos' = pos + 2

AtEntry == Seeding("entries") /\ pos <= Len(file) /\ pos' = pos + 1

Skip ==
    /\ AtEntry /\ Entry \in have
    /\ UNCHANGED <<rows, at, file, have, clean, blind, adds, runs>>

Add(n) == rows' = [rows EXCEPT ![n] = @ + 1]

(* Mutant: the first insert that fails ends the run as if it were done. *)
InsertGivesUp ==
    /\ Seeding("entries") /\ pos <= Len(file) /\ Entry \notin have
    /\ \/ Add(Entry) /\ pos' = pos + 1
       \/ UNCHANGED rows /\ pos' = Len(file) + 1
    /\ UNCHANGED <<at, file, have, clean, blind, adds, runs>>

(* An insert that fails is reported and the run goes on; the row may be there
   all the same. *)
Insert ==
    /\ AtEntry /\ Entry \notin have
    /\ \/ Add(Entry) /\ UNCHANGED clean
       \/ clean' = FALSE /\ (Add(Entry) \/ UNCHANGED rows)
    /\ UNCHANGED <<at, file, have, blind, adds, runs>>

Done ==
    /\ at = "entries" /\ pos > Len(file)
    /\ Leave(seed)
    /\ UNCHANGED seedVars

(* /additem, /addkit and the dashboard's forms send no id: always an insert. *)
AdminAdd(n) ==
    /\ \E p \in Servers : pc[p] = "ready"
    /\ adds < MaxAdds /\ adds' = adds + 1
    /\ Add(n)
    /\ UNCHANGED <<schemaVars, at, file, have, pos, clean, blind, runs>>

(* Every process migrates; a crash of seed is its interruption. *)
Migrating(p) == Step(p) /\ UNCHANGED seedVars

Restart(p) == Start(p) /\ UNCHANGED seedVars

Next ==
    \/ \E p \in Procs : Migrating(p) \/ (Crash(p) /\ UNCHANGED seedVars)
    \/ \E p \in Servers : Restart(p)
    \/ \E f \in Files : Run(f)
    \/ ListItems \/ ListKits \/ Skip \/ Insert \/ Done
    \/ \E n \in Names : AdminAdd(n)

(* A migration that can go on does, and a server that failed is started again
   (install.sh:130, docker-compose.yml:20). *)
Fairness ==
    /\ \A p \in Procs : WF_vars(Migrating(p))
    /\ \A p \in Servers : WF_vars(Restart(p))

Spec == Init /\ [][Next]_vars /\ Fairness

-----------------------------------------------------------------------------
(* Properties *)

(* Every variable keeps its type. *)
TypeOK ==
    /\ MigrateTypeOK
    /\ rows \in [Names -> Nat]
    /\ at \in {"items", "kits", "entries"}
    /\ file \in Files \cup {<<>>}
    /\ have \subseteq Names
    /\ pos \in 1..(Len(file) + 1)
    /\ clean \in BOOLEAN /\ blind \in 0..(2 * MaxRuns)
    /\ adds \in 0..MaxAdds /\ runs \in 0..MaxRuns

(* However they race, every server starts in the end if it is started again
   after a failure. *)
EveryoneStarts == \A p \in Servers : []<>(pc[p] = "ready")

Copies(f, n) == Cardinality({k \in 1..Len(f) : f[k] = n})

(* Cut off anywhere, with inserts that fail before or after their effect, and
   run again with any file, the command enters a name no more often than one
   file names it, and once more in each run that could not read the names
   (seed.go:57-69). *)
NeverTwiceAlone ==
    \A n \in Names : \E f \in Files : rows[n] <= adds + Copies(f, n) * (1 + blind)

(* After a run that reported no error everything in its file is in the
   catalogue, whatever earlier runs left undone (seed.go:71-102). *)
CleanRunCompletes ==
    pc[seed] = "off" /\ clean => \A k \in 1..Len(file) : rows[file[k]] > 0
=============================================================================
