--------------------------- MODULE SchemaMigration ---------------------------
(***************************************************************************)
(* The schema of the store's database: builds of different versions open   *)
(* the store, seed the version row and apply the migration files they ship,*)
(* each file with its version in one transaction, all of it under the      *)
(* store lock taken exclusively and waited for.  A file may fail, a process*)
(* may die, and an invalidation may delete the database between any two    *)
(* openings.                                                               *)
(***************************************************************************)
EXTENDS Naturals, Sequences

CONSTANTS
  Build,          \* processes, one for each build that opens the store
  Ships,          \* the last version whose file each of them ships
  LastVersion,
  MaxMishaps      \* bound: failures, deaths and invalidations

ASSUME SchemaAssumption ==
  LastVersion \in Nat \ {0} /\ Ships \in [Build -> 1..LastVersion] /\ MaxMishaps \in Nat

VARIABLES
  applied,        \* how often each file has been applied to the database
  pragma,         \* user_version, left by the first runner
  versionTable,   \* whether schema_version exists
  versionRows,    \* its rows
  migrating,      \* who holds store.lock
  opening,        \* what each process is doing
  found,          \* the version each has read
  mishaps

schemaVars == <<applied, pragma, versionTable, versionRows, migrating, opening, found, mishaps>>
database   == <<applied, pragma, versionTable, versionRows>>

Version == 0..LastVersion

SchemaTypeOK ==
  /\ applied \in [1..LastVersion -> Nat] /\ pragma \in Version
  /\ versionTable \in BOOLEAN
  /\ versionRows \in Seq(Version) /\ Len(versionRows) <= 2
  /\ migrating \subseteq Build
  /\ opening \in [Build -> {"closed", "wait", "table", "rows", "seed", "compare",
                            "apply", "ready"}]
  /\ found \in [Build -> Version] /\ mishaps \in 0..MaxMishaps

\* An empty store, one that the PRAGMA-based runner brought to its version, or one
\* that two first openings seeded twice when the row had no primary key yet.
SchemaInit ==
  /\ \/ /\ pragma \in Version
        /\ applied = [v \in 1..LastVersion |-> IF v <= pragma THEN 1 ELSE 0]
        /\ versionTable = FALSE /\ versionRows = <<>>
     \/ /\ pragma = 0 /\ versionTable = TRUE /\ versionRows = <<1, 1>>
        /\ applied = [v \in 1..LastVersion |-> IF v = 1 THEN 1 ELSE 0]
  /\ migrating = {} /\ opening = [p \in Build |-> "closed"]
  /\ found = [p \in Build |-> 0] /\ mishaps = 0

MoveTo(p, step) == opening' = [opening EXCEPT ![p] = step]
At(p, step)     == opening[p] = step

-----------------------------------------------------------------------------

StartOpening(p) ==
  /\ At(p, "closed") /\ MoveTo(p, "wait")
  /\ UNCHANGED <<database, migrating, found, mishaps>>

LockStore(p) ==
  /\ At(p, "wait") /\ migrating = {}
  /\ migrating' = migrating \cup {p} /\ MoveTo(p, "table")
  /\ UNCHANGED <<database, found, mishaps>>

EnsureVersionTable(p) ==
  /\ At(p, "table") /\ versionTable' = TRUE /\ MoveTo(p, "rows")
  /\ UNCHANGED <<applied, pragma, versionRows, migrating, found, mishaps>>

\* The lock goes with the operation, however it ends.
EndOpening(p, step) == MoveTo(p, step) /\ migrating' = migrating \ {p}

ReadVersionRows(p) ==
  /\ At(p, "rows")
  /\ \/ Len(versionRows) > 1 /\ EndOpening(p, "closed") /\ UNCHANGED found
     \/ /\ Len(versionRows) = 1 /\ found' = [found EXCEPT ![p] = versionRows[1]]
        /\ MoveTo(p, "compare") /\ UNCHANGED migrating
     \/ /\ versionRows = <<>> /\ found' = [found EXCEPT ![p] = pragma]
        /\ MoveTo(p, "seed") /\ UNCHANGED migrating
  /\ UNCHANGED <<database, mishaps>>

\* INSERT OR IGNORE, and what is there afterwards counts.
SeedVersion(p) ==
  /\ At(p, "seed")
  /\ versionRows' = IF versionRows = <<>> THEN <<found[p]>> ELSE versionRows
  /\ found' = [found EXCEPT ![p] = versionRows'[1]]
  /\ MoveTo(p, "compare")
  /\ UNCHANGED <<applied, pragma, versionTable, migrating, mishaps>>

\* (mutant) a store of a newer build passes for an up-to-date one
NotOlder(p) == found[p] >= Ships[p]
UpToDate(p) == found[p] = Ships[p]
CompareVersion(p) ==
  /\ At(p, "compare")
  /\ \/ UpToDate(p) /\ EndOpening(p, "ready")
     \/ ~UpToDate(p) /\ found[p] > Ships[p] /\ EndOpening(p, "closed")
     \/ found[p] < Ships[p] /\ MoveTo(p, "apply") /\ UNCHANGED migrating
  /\ UNCHANGED <<database, found, mishaps>>

\* One transaction; DDL that has been applied already would collide.
ApplyMigration(p) ==
  /\ At(p, "apply")
  /\ LET target == found[p] + 1 IN
       /\ applied[target] = 0
       /\ applied' = [applied EXCEPT ![target] = @ + 1]
       /\ versionRows' = [i \in DOMAIN versionRows |-> target]
       /\ found' = [found EXCEPT ![p] = target]
       /\ MoveTo(p, "compare")
  /\ UNCHANGED <<pragma, versionTable, migrating, mishaps>>

\* (mutant) a file that fails half-way has bumped the version
FailedFileCounts(p) == versionRows' = [i \in DOMAIN versionRows |-> found[p] + 1]
RolledBack(p)       == UNCHANGED versionRows
FailMigration(p) ==
  /\ At(p, "apply") /\ mishaps < MaxMishaps /\ mishaps' = mishaps + 1
  /\ RolledBack(p)
  /\ EndOpening(p, "closed")
  /\ UNCHANGED <<applied, pragma, versionTable, found>>

StopUsing(p) ==
  /\ At(p, "ready") /\ MoveTo(p, "closed")
  /\ UNCHANGED <<database, migrating, found, mishaps>>

OpenerDies(p) ==
  /\ ~At(p, "closed") /\ mishaps < MaxMishaps /\ mishaps' = mishaps + 1
  /\ EndOpening(p, "closed")
  /\ UNCHANGED <<database, found>>

\* invalidate deletes the database file under the same lock.
DeleteDatabase ==
  /\ migrating = {} /\ mishaps < MaxMishaps /\ mishaps' = mishaps + 1
  /\ applied' = [v \in 1..LastVersion |-> 0] /\ pragma' = 0
  /\ versionTable' = FALSE /\ versionRows' = <<>>
  /\ UNCHANGED <<migrating, opening, found>>

SchemaNext ==
  \/ \E p \in Build :
       \/ StartOpening(p) \/ LockStore(p) \/ EnsureVersionTable(p) \/ ReadVersionRows(p)
       \/ SeedVersion(p) \/ CompareVersion(p) \/ ApplyMigration(p) \/ FailMigration(p)
       \/ StopUsing(p) \/ OpenerDies(p)
  \/ DeleteDatabase

SchemaSpec == SchemaInit /\ [][SchemaNext]_schemaVars

-----------------------------------------------------------------------------
(* Properties.                                                             *)

\* What doctor reports, reading the database without touching it.
AppliedMigrations ==
  IF versionTable /\ versionRows # <<>> THEN 1..versionRows[1] ELSE {}

\* Whatever fails or dies between two statements and whichever builds take turns, no
\* file is applied twice, and a version row that stands alone names exactly the files
\* that have been applied: what doctor reports is what the store holds.
VersionTellsSchema ==
  /\ \A v \in 1..LastVersion : applied[v] <= 1
  /\ Len(versionRows) = 1 => AppliedMigrations = {v \in 1..LastVersion : applied[v] = 1}

\* A build starts to use a store only when the store has exactly the schema it was
\* written for: neither one it has still to migrate nor a newer build's.
OpensOwnVersion ==
  [][\A p \in Build : opening[p] # "ready" /\ opening'[p] = "ready" =>
       {v \in 1..LastVersion : applied[v] = 1} = 1..Ships[p]]_schemaVars
=============================================================================
