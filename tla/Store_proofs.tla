----------------------------- MODULE Store_proofs -----------------------------
(***************************************************************************)
(* Proofs about the store as a whole: its schema (SchemaMigration), for    *)
(* any number of builds and versions; what the queries tell of it          *)
(* (StoreQueries); what eviction leaves of it (QuotaEviction); and what    *)
(* the journal says of its use (SessionJournal); for any keys, sizes and   *)
(* sessions.                                                               *)
(***************************************************************************)
EXTENDS SchemaMigration, StoreQueries, QuotaEviction, SessionJournal,
        SequenceTheorems, FiniteSetTheorems, WellFoundedInduction, TLAPS

-----------------------------------------------------------------------------
(* SchemaMigration.  The files that have been applied are those up to the  *)
(* level the database names, and who is between two statements holds the   *)
(* lock and has read that level.                                           *)

Level == IF versionRows = <<>> THEN pragma ELSE versionRows[1]

Migrating == {"table", "rows", "seed", "compare", "apply"}

DatabaseStands ==
  /\ applied = [v \in 1..LastVersion |-> IF v <= Level THEN 1 ELSE 0]
  /\ versionRows \in Seq(Nat) /\ pragma \in Version
  /\ versionRows # <<>> => versionTable /\ versionRows[1] \in Nat
  /\ Len(versionRows) = 1 => versionRows[1] \in Version

OpeningStands(p) ==
  /\ p \in migrating <=> opening[p] \in Migrating
  /\ opening[p] \in {"rows", "seed", "compare", "apply"} => versionTable
  /\ opening[p] = "seed" => versionRows = <<>> /\ found[p] = pragma
  /\ opening[p] \in {"compare", "apply"} => Len(versionRows) = 1 /\ found[p] = versionRows[1]
  /\ opening[p] = "apply" => found[p] < Ships[p]

SchemaInv ==
  /\ migrating \subseteq Build
  /\ opening \in [Build -> {"closed", "wait", "ready"} \cup Migrating]
  /\ found \in [Build -> Version]
  /\ \A p \in migrating, q \in migrating : p = q
  /\ DatabaseStands /\ \A p \in Build : OpeningStands(p)

\* What UPDATE schema_version makes of the rows.
LEMMA RowsUpdated ==
  ASSUME NEW rows \in Seq(Nat), NEW target \in Nat
  PROVE  LET new == [i \in DOMAIN rows |-> target]
         IN  /\ new \in Seq(Nat) /\ Len(new) = Len(rows)
             /\ Len(rows) = 1 => new[1] = target
<1> DEFINE new == [i \in DOMAIN rows |-> target]
<1>1. DOMAIN rows = 1..Len(rows) /\ Len(rows) \in Nat OBVIOUS
<1>2. new \in [1..Len(rows) -> Nat] BY <1>1
<1>3. new \in Seq(Nat) BY <1>1, <1>2, SeqDef
<1>4. Len(new) = Len(rows) BY <1>1, <1>2, <1>3, LenProperties
<1>5. Len(rows) = 1 => new[1] = target BY <1>1
<1> QED BY <1>3, <1>4, <1>5

LEMMA SchemaInvInit == SchemaInit => SchemaInv
<1> SUFFICES ASSUME SchemaInit PROVE SchemaInv
  OBVIOUS
<1> USE SchemaAssumption
<1>1. migrating = {} /\ opening = [p \in Build |-> "closed"] /\ found = [p \in Build |-> 0]
  BY DEF SchemaInit
<1>2. DatabaseStands
  <2>1. CASE versionRows = <<>>
    <3>1. applied = [v \in 1..LastVersion |-> IF v <= pragma THEN 1 ELSE 0] /\ pragma \in Version
      BY <2>1 DEF SchemaInit
    <3> QED BY <2>1, <3>1 DEF DatabaseStands, Level
  <2>2. CASE versionRows = <<1, 1>>
    <3>1. /\ applied = [v \in 1..LastVersion |-> IF v = 1 THEN 1 ELSE 0]
          /\ pragma = 0 /\ versionTable
      BY <2>2 DEF SchemaInit
    <3>2. Level = 1 /\ versionRows[1] = 1 /\ Len(versionRows) = 2 /\ versionRows \in Seq(Nat)
      BY <2>2 DEF Level
    <3>3. applied = [v \in 1..LastVersion |-> IF v <= 1 THEN 1 ELSE 0] BY <3>1
    <3> QED BY <3>1, <3>2, <3>3 DEF DatabaseStands, Version
  <2> QED BY <2>1, <2>2 DEF SchemaInit
<1>3. \A p \in Build : OpeningStands(p) BY <1>1 DEF OpeningStands, Migrating
<1> QED BY <1>1, <1>2, <1>3 DEF SchemaInv, Migrating, Version

\* A step that leaves the database as it is.
LEMMA OpeningMoves ==
  ASSUME SchemaInv, UNCHANGED database, NEW p \in Build,
         NEW step \in {"closed", "wait", "ready"} \cup Migrating, MoveTo(p, step),
         migrating' = (IF step \in Migrating THEN migrating \cup {p} ELSE migrating \ {p}),
         step \in Migrating => migrating \subseteq {p},
         NEW level \in Version, found' = [found EXCEPT ![p] = level], OpeningStands(p)'
  PROVE  SchemaInv'
<1>1. /\ opening' = [opening EXCEPT ![p] = step] /\ migrating' \subseteq Build
      /\ opening \in [Build -> {"closed", "wait", "ready"} \cup Migrating] /\ found \in [Build -> Version]
  BY DEF MoveTo, SchemaInv
<1>2. DatabaseStands' BY DEF SchemaInv, DatabaseStands, database, Level
<1>3. \A a \in migrating', b \in migrating' : a = b BY DEF SchemaInv
<1>4. ASSUME NEW q \in Build, q # p PROVE OpeningStands(q)'
  <2>1. opening'[q] = opening[q] /\ found'[q] = found[q] /\ (q \in migrating' <=> q \in migrating)
    BY <1>1, <1>4
  <2> QED BY <1>4, <2>1 DEF SchemaInv, OpeningStands, database
<1> QED BY <1>1, <1>2, <1>3, <1>4 DEF SchemaInv

\* A statement of the one that holds the lock, which changes the database.
LEMMA HolderWrites ==
  ASSUME SchemaInv, NEW p \in Build, opening[p] \in Migrating, NEW step \in Migrating,
         MoveTo(p, step), UNCHANGED migrating, NEW level \in Version,
         found' = [found EXCEPT ![p] = level], DatabaseStands', OpeningStands(p)'
  PROVE  SchemaInv'
<1>1. /\ opening' = [opening EXCEPT ![p] = step]
      /\ opening \in [Build -> {"closed", "wait", "ready"} \cup Migrating] /\ found \in [Build -> Version]
  BY DEF MoveTo, SchemaInv
<1>2. ASSUME NEW q \in Build, q # p PROVE OpeningStands(q)'
  <2>1. q \notin migrating /\ opening[q] \notin Migrating BY <1>2 DEF SchemaInv, OpeningStands
  <2>2. opening'[q] = opening[q] BY <1>1, <1>2
  <2> QED BY <2>1, <2>2 DEF OpeningStands, Migrating
<1> QED BY <1>1, <1>2 DEF SchemaInv

LEMMA SchemaInvStep == SchemaInv /\ [SchemaNext]_schemaVars => SchemaInv'
<1> SUFFICES ASSUME SchemaInv, [SchemaNext]_schemaVars PROVE SchemaInv'
  OBVIOUS
<1> USE SchemaAssumption
<1>1. CASE UNCHANGED schemaVars
  BY <1>1 DEF schemaVars, database, SchemaInv, DatabaseStands, OpeningStands, Level
<1>2. CASE DeleteDatabase
  <2>1. /\ migrating = {} /\ UNCHANGED <<migrating, opening, found>>
        /\ applied' = [v \in 1..LastVersion |-> 0] /\ pragma' = 0
        /\ versionTable' = FALSE /\ versionRows' = <<>>
    BY <1>2 DEF DeleteDatabase
  <2>2. DatabaseStands'
    <3>1. applied' = [v \in 1..LastVersion |-> IF v <= 0 THEN 1 ELSE 0] BY <2>1
    <3> QED BY <2>1, <3>1 DEF DatabaseStands, Level, Version
  <2>3. ASSUME NEW p \in Build PROVE OpeningStands(p)'
    BY <2>1 DEF SchemaInv, OpeningStands, Migrating
  <2> QED BY <2>1, <2>2, <2>3 DEF SchemaInv
<1>3. ASSUME NEW p \in Build,
             \/ StartOpening(p) \/ LockStore(p) \/ EnsureVersionTable(p) \/ ReadVersionRows(p)
             \/ SeedVersion(p) \/ CompareVersion(p) \/ ApplyMigration(p) \/ FailMigration(p)
             \/ StopUsing(p) \/ OpenerDies(p)
      PROVE  SchemaInv'
  <2>1. /\ OpeningStands(p) /\ DatabaseStands /\ found[p] \in Version /\ Ships[p] \in 1..LastVersion
        /\ opening[p] \in {"closed", "wait", "ready"} \cup Migrating
        /\ found = [found EXCEPT ![p] = found[p]]
        /\ opening[p] \in Migrating => migrating = {p}
        /\ migrating \subseteq Build /\ found \in [Build -> Version]
        /\ opening \in [Build -> {"closed", "wait", "ready"} \cup Migrating]
    BY DEF SchemaInv, OpeningStands
  <2>2. ASSUME NEW step \in {"closed", "wait", "ready"} \cup Migrating, MoveTo(p, step)
        PROVE  opening'[p] = step
    BY <2>1, <2>2 DEF MoveTo
  <2>3. CASE StartOpening(p) \/ StopUsing(p)
    <3>1. PICK step \in {"closed", "wait"} : MoveTo(p, step)
      BY <2>3 DEF StartOpening, StopUsing
    <3>2. UNCHANGED <<database, migrating, found>> /\ opening[p] \in {"closed", "ready"}
      BY <2>3 DEF StartOpening, StopUsing, At
    <3>3. OpeningStands(p)' BY <2>1, <2>2, <3>1, <3>2 DEF OpeningStands, Migrating
    <3>4. migrating' = migrating \ {p} BY <2>1, <3>2 DEF OpeningStands, Migrating
    <3> QED BY <2>1, <3>1, <3>2, <3>3, <3>4, OpeningMoves DEF Migrating
  <2>4. CASE LockStore(p)
    <3>1. /\ MoveTo(p, "table") /\ migrating = {} /\ migrating' = migrating \cup {p}
          /\ UNCHANGED <<database, found>>
      BY <2>4 DEF LockStore
    <3>2. OpeningStands(p)' BY <2>1, <2>2, <3>1 DEF OpeningStands, Migrating
    <3> QED BY <2>1, <3>1, <3>2, OpeningMoves DEF Migrating
  <2>5. CASE EnsureVersionTable(p)
    <3>1. /\ opening[p] = "table" /\ versionTable' = TRUE /\ MoveTo(p, "rows")
          /\ UNCHANGED <<applied, pragma, versionRows, migrating, found>>
      BY <2>5 DEF EnsureVersionTable, At
    <3>2. DatabaseStands' BY <2>1, <3>1 DEF DatabaseStands, Level
    <3>3. OpeningStands(p)' BY <2>1, <2>2, <3>1 DEF OpeningStands, Migrating
    <3> QED BY <2>1, <3>1, <3>2, <3>3, HolderWrites DEF Migrating
  <2>6. CASE ReadVersionRows(p)
    <3>1. opening[p] = "rows" /\ UNCHANGED database /\ versionRows \in Seq(Nat) /\ Len(versionRows) \in Nat
      BY <2>1, <2>6 DEF ReadVersionRows, At, DatabaseStands
    <3>2. CASE Len(versionRows) > 1 /\ EndOpening(p, "closed") /\ UNCHANGED found
      <4>1. MoveTo(p, "closed") /\ migrating' = migrating \ {p} BY <3>2 DEF EndOpening
      <4>2. OpeningStands(p)' BY <2>2, <4>1 DEF OpeningStands, Migrating
      <4> QED BY <2>1, <3>1, <3>2, <4>1, <4>2, OpeningMoves DEF Migrating
    <3>3. CASE /\ Len(versionRows) = 1 /\ found' = [found EXCEPT ![p] = versionRows[1]]
               /\ MoveTo(p, "compare") /\ UNCHANGED migrating
      <4>1. versionRows[1] \in Version /\ found'[p] = versionRows[1] BY <2>1, <3>3 DEF DatabaseStands
      <4>2. OpeningStands(p)'
        BY <2>1, <2>2, <3>1, <3>3, <4>1 DEF OpeningStands, Migrating, database
      <4> QED BY <2>1, <3>1, <3>3, <4>1, <4>2, OpeningMoves DEF Migrating
    <3>4. CASE /\ versionRows = <<>> /\ found' = [found EXCEPT ![p] = pragma]
               /\ MoveTo(p, "seed") /\ UNCHANGED migrating
      <4>1. pragma \in Version /\ found'[p] = pragma BY <2>1, <3>4 DEF DatabaseStands
      <4>2. OpeningStands(p)'
        BY <2>1, <2>2, <3>1, <3>4, <4>1 DEF OpeningStands, Migrating, database
      <4> QED BY <2>1, <3>1, <3>4, <4>1, <4>2, OpeningMoves DEF Migrating
    <3> QED BY <2>6, <3>2, <3>3, <3>4 DEF ReadVersionRows
  <2>7. CASE SeedVersion(p)
    <3>1. /\ opening[p] = "seed" /\ versionRows = <<>> /\ found[p] = pragma
          /\ versionRows' = <<pragma>> /\ found' = [found EXCEPT ![p] = versionRows'[1]]
          /\ MoveTo(p, "compare") /\ UNCHANGED <<applied, pragma, versionTable, migrating>> /\ versionTable
      BY <2>1, <2>7 DEF SeedVersion, At, OpeningStands
    <3>2. /\ versionRows' # <<>> /\ versionRows'[1] = pragma /\ Len(versionRows') = 1
          /\ pragma \in Version /\ pragma \in Nat
      BY <2>1, <3>1 DEF DatabaseStands, Version
    <3>3. Level' = Level BY <3>1, <3>2 DEF Level
    <3>4. DatabaseStands' BY <2>1, <3>1, <3>2, <3>3 DEF DatabaseStands
    <3>5. OpeningStands(p)' BY <2>1, <2>2, <3>1, <3>2 DEF OpeningStands, Migrating
    <3> QED BY <2>1, <3>1, <3>2, <3>4, <3>5, HolderWrites DEF Migrating
  <2>8. CASE CompareVersion(p)
    <3>1. opening[p] = "compare" /\ UNCHANGED <<database, found>>
      BY <2>8 DEF CompareVersion, At
    <3>2. \/ \E step \in {"ready", "closed"} : MoveTo(p, step) /\ migrating' = migrating \ {p}
          \/ MoveTo(p, "apply") /\ UNCHANGED migrating /\ found[p] < Ships[p]
      BY <2>1, <2>8 DEF CompareVersion, EndOpening, UpToDate, Version
    <3>3. CASE \E step \in {"ready", "closed"} : MoveTo(p, step) /\ migrating' = migrating \ {p}
      <4>1. PICK step \in {"ready", "closed"} : MoveTo(p, step) /\ migrating' = migrating \ {p}
        BY <3>3
      <4>2. OpeningStands(p)' BY <2>2, <4>1 DEF OpeningStands, Migrating
      <4> QED BY <2>1, <3>1, <4>1, <4>2, OpeningMoves DEF Migrating
    <3>4. CASE MoveTo(p, "apply") /\ UNCHANGED migrating /\ found[p] < Ships[p]
      <4>1. OpeningStands(p)' BY <2>1, <2>2, <3>1, <3>4 DEF OpeningStands, Migrating, database
      <4> QED BY <2>1, <3>1, <3>4, <4>1, OpeningMoves DEF Migrating
    <3> QED BY <3>2, <3>3, <3>4
  <2>9. CASE ApplyMigration(p)
    <3> DEFINE target == found[p] + 1
    <3>1. /\ opening[p] = "apply" /\ applied' = [applied EXCEPT ![target] = @ + 1]
          /\ applied[target] = 0
          /\ versionRows' = [i \in DOMAIN versionRows |-> target]
          /\ found' = [found EXCEPT ![p] = target] /\ MoveTo(p, "compare")
          /\ UNCHANGED <<pragma, versionTable, migrating>>
      BY <2>9 DEF ApplyMigration, At
    <3>2. /\ Len(versionRows) = 1 /\ found[p] = versionRows[1] /\ target \in Version /\ target \in 1..LastVersion
          /\ versionTable
      BY <2>1, <3>1 DEF OpeningStands, Version
    <3>3. versionRows' \in Seq(Nat) /\ Len(versionRows') = 1 /\ versionRows'[1] = target
      BY <2>1, <3>1, <3>2, RowsUpdated DEF DatabaseStands, Version
    <3>4. Level = found[p] /\ Level' = target BY <3>2, <3>3 DEF Level
    <3>5. applied' = [v \in 1..LastVersion |-> IF v <= target THEN 1 ELSE 0]
      <4>1. applied = [v \in 1..LastVersion |-> IF v <= found[p] THEN 1 ELSE 0]
        BY <2>1, <3>4 DEF DatabaseStands
      <4>2. applied \in [1..LastVersion -> Nat] /\ found[p] \in Nat BY <2>1, <4>1 DEF Version
      <4>3. applied' \in [1..LastVersion -> Nat] BY <3>1, <3>2, <4>2
      <4>4. \A v \in 1..LastVersion : applied'[v] = IF v <= target THEN 1 ELSE 0
        BY <3>1, <3>2, <4>1, <4>2
      <4> QED BY <4>3, <4>4
    <3>6. versionRows' # <<>>
      <4> SUFFICES ASSUME versionRows' = <<>> PROVE FALSE
        OBVIOUS
      <4>1. Len(<<>>) = 1 BY <3>3
      <4> QED BY <4>1
    <3>7. DatabaseStands'
      <4>1. applied' = [v \in 1..LastVersion |-> IF v <= Level' THEN 1 ELSE 0] BY <3>4, <3>5
      <4>2. pragma' \in Version BY <2>1, <3>1 DEF DatabaseStands
      <4>3. versionTable' BY <3>1, <3>2
      <4>4. versionRows'[1] \in Nat /\ versionRows'[1] \in Version BY <3>2, <3>3 DEF Version
      <4>5. versionRows' \in Seq(Nat) BY <3>3
      <4> QED BY <4>1, <4>2, <4>3, <4>4, <4>5 DEF DatabaseStands
    <3>8. OpeningStands(p)' BY <2>1, <2>2, <3>1, <3>2, <3>3 DEF OpeningStands, Migrating
    <3> QED BY <2>1, <3>1, <3>2, <3>7, <3>8, HolderWrites DEF Migrating
  <2>10. CASE FailMigration(p) \/ OpenerDies(p)
    <3>1. MoveTo(p, "closed") /\ migrating' = migrating \ {p} /\ UNCHANGED <<database, found>>
      BY <2>10 DEF FailMigration, OpenerDies, EndOpening, RolledBack, database
    <3>2. OpeningStands(p)' BY <2>2, <3>1 DEF OpeningStands, Migrating
    <3> QED BY <2>1, <3>1, <3>2, OpeningMoves DEF Migrating
  <2> QED BY <1>3, <2>3, <2>4, <2>5, <2>6, <2>7, <2>8, <2>9, <2>10
<1> QED BY <1>1, <1>2, <1>3 DEF SchemaNext

LEMMA SchemaInvHolds == SchemaSpec => []SchemaInv
BY SchemaInvInit, SchemaInvStep, PTL DEF SchemaSpec

\* Whatever builds open a store in whatever order, fail or die, the version row of
\* schema_version tells which files MigrationRunner has applied, each of them once.
THEOREM VersionTold == SchemaSpec => []VersionTellsSchema
<1>1. SchemaInv => VersionTellsSchema
  <2> SUFFICES ASSUME SchemaInv PROVE VersionTellsSchema
    OBVIOUS
  <2>1. \A v \in 1..LastVersion : applied[v] = IF v <= Level THEN 1 ELSE 0
    BY DEF SchemaInv, DatabaseStands
  <2>2. ASSUME Len(versionRows) = 1
        PROVE  AppliedMigrations = {v \in 1..LastVersion : applied[v] = 1}
    <3>1. versionRows # <<>> BY <2>2
    <3>2. /\ versionTable /\ Level = versionRows[1] /\ Level \in Version
      BY <2>2, <3>1 DEF SchemaInv, DatabaseStands, Level
    <3> QED BY <2>1, <3>1, <3>2, SchemaAssumption DEF AppliedMigrations, Version
  <2> QED BY <2>1, <2>2 DEF VersionTellsSchema
<1> QED BY <1>1, SchemaInvHolds, PTL

\* A build never starts to use a schema older or newer than the one it was written for.
THEOREM OwnVersionOpened == SchemaSpec => OpensOwnVersion
<1>1. SchemaInv /\ [SchemaNext]_schemaVars =>
        [\A p \in Build : opening[p] # "ready" /\ opening'[p] = "ready" =>
           {v \in 1..LastVersion : applied[v] = 1} = 1..Ships[p]]_schemaVars
  <2> SUFFICES ASSUME SchemaInv, SchemaNext, NEW p \in Build, opening[p] # "ready", opening'[p] = "ready"
               PROVE  {v \in 1..LastVersion : applied[v] = 1} = 1..Ships[p]
    OBVIOUS
  <2>1. ASSUME NEW q \in Build, NEW step \in {"closed", "wait"} \cup Migrating, MoveTo(q, step) PROVE FALSE
    BY <2>1 DEF MoveTo, SchemaInv, Migrating
  <2>2. CompareVersion(p) /\ UpToDate(p)
    <3>1. PICK q \in Build : CompareVersion(q) /\ MoveTo(q, "ready") /\ UpToDate(q)
      BY <2>1 DEF SchemaNext, StartOpening, LockStore, EnsureVersionTable, ReadVersionRows, SeedVersion,
                  CompareVersion, ApplyMigration, FailMigration, StopUsing, OpenerDies, EndOpening,
                  DeleteDatabase, Migrating
    <3> QED BY <3>1 DEF MoveTo, SchemaInv
  <2>3. /\ Len(versionRows) = 1 /\ versionRows[1] = Ships[p] /\ Ships[p] \in 1..LastVersion
    BY <2>2, SchemaAssumption DEF CompareVersion, UpToDate, At, SchemaInv, OpeningStands
  <2>4. Level = Ships[p] BY <2>3 DEF Level
  <2>5. \A v \in 1..LastVersion : applied[v] = IF v <= Ships[p] THEN 1 ELSE 0
    BY <2>4 DEF SchemaInv, DatabaseStands
  <2> QED BY <2>3, <2>5, SchemaAssumption
<1> QED BY <1>1, SchemaInvHolds, PTL DEF SchemaSpec, OpensOwnVersion

\* schema_version has no row, the one, or the two that concurrent first openings left.
RowsStand == /\ versionTable \in BOOLEAN /\ mishaps \in 0..MaxMishaps
             /\ versionRows \in Seq(Version) /\ Len(versionRows) <= 2

LEMMA RowsStandInit == SchemaInit => RowsStand
<1> SUFFICES ASSUME SchemaInit PROVE RowsStand
  OBVIOUS
<1>1. mishaps \in 0..MaxMishaps /\ versionTable \in BOOLEAN
  <2>1. mishaps = 0 /\ versionTable \in BOOLEAN BY DEF SchemaInit
  <2> QED BY <2>1, SchemaAssumption
<1>2. CASE versionRows = <<>> BY <1>1, <1>2 DEF RowsStand
<1>3. CASE versionRows = <<1, 1>>
  <2>1. 1 \in Version BY SchemaAssumption DEF Version
  <2>2. <<1, 1>> \in Seq(Version) /\ Len(<<1, 1>>) = 2 BY <2>1
  <2> QED BY <1>1, <1>3, <2>2 DEF RowsStand
<1> QED BY <1>2, <1>3 DEF SchemaInit

LEMMA RowsStandStep == SchemaInv /\ RowsStand /\ [SchemaNext]_schemaVars => RowsStand'
<1> SUFFICES ASSUME SchemaInv, RowsStand, [SchemaNext]_schemaVars PROVE RowsStand'
  OBVIOUS
<1> USE SchemaAssumption
<1>1. mishaps' \in 0..MaxMishaps /\ versionTable' \in BOOLEAN
  <2>1. \/ mishaps' = mishaps
        \/ mishaps < MaxMishaps /\ mishaps' = mishaps + 1
    BY DEF SchemaNext, schemaVars, StartOpening, LockStore, EnsureVersionTable, ReadVersionRows, SeedVersion,
           CompareVersion, ApplyMigration, FailMigration, StopUsing, OpenerDies, DeleteDatabase
  <2>2. versionTable' \in {versionTable, TRUE, FALSE}
    BY DEF SchemaNext, schemaVars, database, StartOpening, LockStore, EnsureVersionTable, ReadVersionRows,
           SeedVersion, CompareVersion, ApplyMigration, FailMigration, StopUsing, OpenerDies, DeleteDatabase
  <2>3. mishaps \in 0..MaxMishaps /\ versionTable \in BOOLEAN BY DEF RowsStand
  <2>4. mishaps' \in 0..MaxMishaps BY <2>1, <2>3
  <2>5. versionTable' \in BOOLEAN BY <2>2, <2>3, Zenon
  <2> QED BY <2>4, <2>5
<1>2. CASE UNCHANGED versionRows BY <1>1, <1>2 DEF RowsStand
<1>3. CASE DeleteDatabase BY <1>1, <1>3 DEF DeleteDatabase, RowsStand
<1>4. ASSUME NEW p \in Build, SeedVersion(p) PROVE RowsStand'
  <2>1. versionRows' = versionRows \/ versionRows' = <<found[p]>> BY <1>4 DEF SeedVersion
  <2>2. found[p] \in Version BY DEF SchemaInv
  <2>3. <<found[p]>> \in Seq(Version) /\ Len(<<found[p]>>) <= 2 BY <2>2
  <2>4. CASE versionRows' = versionRows BY <1>1, <2>4 DEF RowsStand
  <2>5. CASE versionRows' = <<found[p]>> BY <1>1, <2>3, <2>5 DEF RowsStand
  <2> QED BY <2>1, <2>4, <2>5
<1>5. ASSUME NEW p \in Build, ApplyMigration(p) PROVE RowsStand'
  <2> DEFINE target == found[p] + 1
  <2>1. versionRows' = [i \in DOMAIN versionRows |-> target] BY <1>5 DEF ApplyMigration
  <2>2. target \in Version
    BY <1>5 DEF ApplyMigration, At, SchemaInv, OpeningStands, Version
  <2>3. versionRows \in Seq(Version) /\ Len(versionRows) \in Nat /\ DOMAIN versionRows = 1..Len(versionRows)
    BY DEF RowsStand
  <2>4. versionRows' \in [1..Len(versionRows) -> Version] BY <2>1, <2>2, <2>3
  <2>5. versionRows' \in Seq(Version) /\ Len(versionRows') = Len(versionRows)
    BY <2>3, <2>4, SeqDef, LenProperties
  <2> QED BY <1>1, <2>5 DEF RowsStand
<1> QED
  BY <1>2, <1>3, <1>4, <1>5
  DEF SchemaNext, schemaVars, database, StartOpening, LockStore, EnsureVersionTable, ReadVersionRows, CompareVersion,
      FailMigration, RolledBack, StopUsing, OpenerDies

\* A store and the builds that open it keep their shape, and schema_version never has more
\* than two rows, for any number of builds, versions and mishaps.
THEOREM SchemaTypes == SchemaSpec => []SchemaTypeOK
<1>1. SchemaInv /\ RowsStand => SchemaTypeOK
  <2> SUFFICES ASSUME SchemaInv, RowsStand PROVE SchemaTypeOK
    OBVIOUS
  <2>1. applied \in [1..LastVersion -> Nat] /\ pragma \in Version BY DEF SchemaInv, DatabaseStands
  <2>2. opening \in [Build -> {"closed", "wait", "table", "rows", "seed", "compare", "apply", "ready"}]
    BY DEF SchemaInv, Migrating
  <2> QED BY <2>1, <2>2 DEF SchemaInv, RowsStand, SchemaTypeOK
<1>2. SchemaSpec => []RowsStand
  BY RowsStandInit, RowsStandStep, SchemaInvInit, SchemaInvStep, PTL DEF SchemaSpec
<1> QED BY <1>1, <1>2, SchemaInvHolds, PTL

-----------------------------------------------------------------------------
(* StoreQueries. Every statement of a command tells something that stays   *)
(* true of the rows it has read, or history knows what has changed them;   *)
(* what is shown undisturbed is the store itself.                          *)

QuestionAt == {"over", "summaries", "total", "next", "tags", "find", "load", "blobs", "match", "matched"}
Line == [key : CallKey, tags : SUBSET Label, tagsOf : 0..MaxRows, row : 0..MaxRows, whole : SUBSET Part]
ShownDoc == [row : Row, part : Part, intact : BOOLEAN, there : BOOLEAN]
Question ==
  [kind : {"none", "list", "export", "stats", "inspect", "check"}, at : QuestionAt,
   include : SUBSET Label, exclude : SUBSET Label, within : SUBSET CallKey, todo : SUBSET CallKey,
   key : CallKey \cup {0}, row : 0..MaxRows, tagsOf : 0..MaxRows, tags : SUBSET Label,
   parts : SUBSET Part, whole : SUBSET Part, lines : SUBSET Line, skipped : SUBSET CallKey,
   found : SUBSET Row, shown : SUBSET (CallKey \cup ShownDoc), bytes : Nat,
   outcome : {"none", "done", "ambiguous", "corrupt", "crashed"}, barred : SUBSET Row,
   recorded : SUBSET Row, purged : SUBSET CallKey, filled : SUBSET Row, quiet : BOOLEAN]

\* Where a command stands: it has a key while it asks about one, and so on.
AtKey == query.at \in {"tags", "find", "load", "blobs"}
QuestionStands ==
  /\ query \in Question
  /\ AtKey => query.key \in CallKey
  /\ query.at \in {"load", "blobs"} => query.row \in 1..MaxRows
  /\ query.at \in {"next", "tags"} => query.kind \in {"list", "export"}
  /\ query.at \in {"find", "load", "blobs"} => query.kind = "export"
  /\ query.at = "total" => query.kind = "stats"
  /\ query.at = "summaries" => query.kind \in {"list", "export", "stats"}
  /\ query.at \in {"match", "matched"} => query.kind \in {"inspect", "check"}
  /\ query.kind = "none" => query.at = "over" /\ query.outcome = "none"
  /\ query.at # "over" => query.outcome = "none"
  /\ query.kind \in {"inspect", "check"} => query.shown \subseteq ShownDoc
  /\ query.kind = "stats" => query.shown \subseteq CallKey
  /\ query.kind = "export" => query.within = CallKey

RowsSound ==
  /\ \A k \in CallKey : newest[k] \in {0, made[k]}
  /\ \A k \in CallKey : Shown(k) => k \in identified /\ <<CurrentRow(k), "out">> \in documents
  /\ \A r \in Row : labels[r] # {} => r[2] <= made[r[1]]

FilesSound ==
  /\ intact \subseteq files
  /\ \A d \in documents \ files : d[2] = "in" /\ d[1] \in query.filled

LocksSound ==
  \A k \in CallKey :
    /\ keyLock[k] = "purge" => newest[k] = 0 /\ OfKey(k, documents) = {}
    /\ keyLock[k] \in {"put", "mark"} =>
         Shown(k) /\ <<CurrentRow(k), "in">> \in documents /\ CurrentRow(k) \in query.filled
    /\ keyLock[k] = "mark" => <<CurrentRow(k), "in">> \in files

ExportSound ==
  query.kind = "export" =>
    /\ \A r \in query.barred : /\ r[2] <= made[r[1]]
                               /\ labels[r] \cap query.exclude # {} \/ newest[r[1]] # r[2]
    /\ query.barred \cap query.recorded = {}
    /\ query.at \in {"tags", "find"} =>
         newest[query.key] \in {0, query.tagsOf} \/ CurrentRow(query.key) \in query.recorded
    /\ query.at = "find" => <<query.key, query.tagsOf>> \notin query.barred \/ newest[query.key] # query.tagsOf
    /\ query.at \in {"load", "blobs"} =>
         /\ <<query.key, query.row>> \notin query.barred
         /\ query.row = query.tagsOf \/ <<query.key, query.row>> \in query.recorded
    /\ query.at = "load" =>
         \/ query.key \in query.purged
         \/ query.key \in identified /\ <<<<query.key, query.row>>, "out">> \in documents
    /\ query.at = "blobs" =>
         \/ query.key \in query.purged
         \/ /\ \A p \in Part : <<<<query.key, query.row>>, p>> \in documents
            /\ \A p \in Part \ query.parts :
                 p \in query.whole \/ (p = "in" /\ <<query.key, query.row>> \in query.filled)

MatchSound ==
  query.at = "matched" => \A r \in query.found : r[1] \in identified \cup query.purged

\* What a command beside which nothing happened has told so far.
Looked == Summaries \ (query.todo \cup (IF AtKey THEN {query.key} ELSE {}))
Listed == {k \in Summaries : Tagged(k)} \cap (IF query.kind = "list" THEN query.within ELSE CallKey)
Full   == {k \in Summaries : <<CurrentRow(k), "in">> \in documents}
LineOf(k) == [key |-> k, tags |-> labels[CurrentRow(k)], tagsOf |-> newest[k], row |-> 0, whole |-> {}]
Telling == query.at \in {"next", "tags", "find", "load", "blobs"} \/ (query.at = "over" /\ query.outcome = "done")
QuietSound ==
  query.quiet =>
    /\ query.kind \in {"list", "export"} =>
         /\ query.todo \subseteq Summaries
         /\ query.at = "summaries" => query.lines = {} /\ query.skipped = {}
         /\ query.at = "over" /\ query.outcome = "done" => query.todo = {}
         /\ AtKey => /\ query.key \in Summaries \ query.todo /\ query.tagsOf = newest[query.key]
                     /\ query.at # "tags" => query.key \in Listed
                     /\ query.at \in {"load", "blobs"} => query.row = newest[query.key]
                     /\ query.at = "blobs" => query.key \in Full
         /\ Telling /\ query.kind = "list" => query.lines = {LineOf(k) : k \in Looked \cap Listed}
         /\ Telling /\ query.kind = "export" =>
              /\ {line.key : line \in query.lines} = Looked \cap Listed \cap Full
              /\ query.skipped = (Looked \cap Listed) \ Full
    /\ query.kind = "stats" => /\ query.at = "total" => query.shown = Summaries
                               /\ query.at = "over" => query.bytes >= Cardinality(query.shown)
    /\ query.kind \in {"inspect", "check"} =>
         LET asked == Summaries \cap query.within
         IN /\ query.at = "match" => query.shown = {}
            /\ query.at = "matched" => query.found \subseteq {CurrentRow(k) : k \in asked}
            /\ query.at = "matched" => {doc.row[1] : doc \in query.shown} = asked \ {r[1] : r \in query.found}
            /\ query.at = "over" /\ query.outcome = "done" => {doc.row[1] : doc \in query.shown} = asked

QueriesInv ==
  /\ QueriesTypeOK /\ QuestionStands /\ RowsSound /\ FilesSound /\ LocksSound
  /\ ExportSound /\ MatchSound /\ QuietSound
  /\ ExportHonoursTags /\ ExportIsWhole /\ ShownIsThere

-----------------------------------------------------------------------------
(* What happens to the store beside a command.                             *)

Aside(recorded, purged, filled) ==
  query' = [query EXCEPT !.quiet = FALSE, !.recorded = recorded, !.purged = purged, !.filled = filled]

\* A happening leaves the command what it knows, and history tells of it.
Beside ==
  /\ \A k \in CallKey : /\ made[k] <= made'[k]
                        /\ \/ newest'[k] \in {newest[k], 0}
                           \/ /\ made[k] < newest'[k]
                              /\ query.kind = "export" => <<k, newest'[k]>> \in query'.recorded
  /\ query.recorded \subseteq query'.recorded \/ query.kind # "export"
  /\ \A r \in query'.recorded \ query.recorded : made[r[1]] < r[2]
  /\ \A r \in Row : labels[r] \subseteq labels'[r] \/ newest'[r[1]] = 0
  /\ identified \subseteq identified' \cup query'.purged
  /\ \A d \in documents \ documents' : d[1][1] \in query'.purged
  /\ query.purged \subseteq query'.purged /\ query.filled \subseteq query'.filled

LEMMA AsideKeeps ==
  ASSUME QuestionStands, NEW recorded \in SUBSET Row, NEW purged \in SUBSET CallKey, NEW filled \in SUBSET Row,
         Aside(recorded, purged, filled)
  PROVE  /\ QuestionStands'
         /\ query'.kind = query.kind /\ query'.at = query.at /\ query'.include = query.include
         /\ query'.exclude = query.exclude /\ query'.within = query.within /\ query'.todo = query.todo
         /\ query'.key = query.key /\ query'.row = query.row /\ query'.tagsOf = query.tagsOf
         /\ query'.parts = query.parts /\ query'.whole = query.whole
         /\ query'.lines = query.lines /\ query'.found = query.found
         /\ query'.shown = query.shown /\ query'.outcome = query.outcome /\ query'.barred = query.barred
         /\ query'.recorded = recorded /\ query'.purged = purged /\ query'.filled = filled
         /\ query'.quiet = FALSE
<1>1. query \in Question BY DEF QuestionStands
<1>2. query' \in Question BY <1>1 DEF Aside, Question
<1>3. /\ query'.kind = query.kind /\ query'.at = query.at /\ query'.include = query.include
      /\ query'.exclude = query.exclude /\ query'.within = query.within /\ query'.todo = query.todo
      /\ query'.key = query.key /\ query'.row = query.row /\ query'.tagsOf = query.tagsOf
      /\ query'.parts = query.parts /\ query'.whole = query.whole
      /\ query'.lines = query.lines /\ query'.found = query.found
      /\ query'.shown = query.shown /\ query'.outcome = query.outcome /\ query'.barred = query.barred
      /\ query'.recorded = recorded /\ query'.purged = purged /\ query'.filled = filled
      /\ query'.quiet = FALSE
  BY <1>1 DEF Aside, Question
<1>4. QuestionStands' BY <1>2, <1>3 DEF QuestionStands, AtKey
<1> QED BY <1>3, <1>4

LEMMA BesideKeeps ==
  ASSUME QueriesInv, QueriesTypeOK',
         NEW recorded \in SUBSET Row, NEW purged \in SUBSET CallKey, NEW filled \in SUBSET Row,
         Aside(recorded, purged, filled), Beside
  PROVE  /\ QuestionStands' /\ ExportSound' /\ MatchSound' /\ QuietSound'
         /\ ExportHonoursTags' /\ ExportIsWhole' /\ ShownIsThere'
<1>1. /\ QuestionStands'
      /\ query'.kind = query.kind /\ query'.at = query.at /\ query'.include = query.include
      /\ query'.exclude = query.exclude /\ query'.within = query.within /\ query'.todo = query.todo
      /\ query'.key = query.key /\ query'.row = query.row /\ query'.tagsOf = query.tagsOf
      /\ query'.parts = query.parts /\ query'.whole = query.whole
      /\ query'.lines = query.lines /\ query'.found = query.found
      /\ query'.shown = query.shown /\ query'.outcome = query.outcome /\ query'.barred = query.barred
      /\ query'.quiet = FALSE
  BY AsideKeeps DEF QueriesInv
<1>2. query \in Question /\ query.barred \subseteq Row /\ newest \in [CallKey -> 0..MaxRows]
      /\ made \in [CallKey -> 0..MaxRows] /\ made' \in [CallKey -> 0..MaxRows]
      /\ newest' \in [CallKey -> 0..MaxRows] /\ MaxRows \in Nat
  BY QueryAssumption DEF QueriesInv, QuestionStands, Question, QueriesTypeOK
<1>3. \A r \in Row : r[1] \in CallKey /\ r[2] \in 1..MaxRows /\ r = <<r[1], r[2]>> BY DEF Row
<1>4. query.purged \subseteq query'.purged /\ query.filled \subseteq query'.filled BY DEF Beside
<1>5. ExportSound'
  <2> SUFFICES ASSUME query.kind = "export" PROVE ExportSound'
    BY <1>1 DEF ExportSound
  <2> DEFINE key == query.key
  <2>1. \A r \in query.barred : r[2] <= made[r[1]] /\ (labels[r] \cap query.exclude # {} \/ newest[r[1]] # r[2])
    BY DEF QueriesInv, ExportSound
  <2>2. ASSUME NEW r \in query.barred PROVE r[2] <= made'[r[1]]
    <3>1. r[1] \in CallKey /\ r[2] \in Nat BY <1>2, <1>3
    <3>2. made[r[1]] <= made'[r[1]] BY <3>1 DEF Beside
    <3>3. made[r[1]] \in Nat /\ made'[r[1]] \in Nat BY <1>2, <3>1
    <3> QED BY <2>1, <3>1, <3>2, <3>3
  <2>3. ASSUME NEW r \in query.barred PROVE labels'[r] \cap query.exclude # {} \/ newest'[r[1]] # r[2]
    <3>1. r \in Row /\ r[2] <= made[r[1]] BY <1>2, <2>1
    <3>2. CASE newest'[r[1]] = newest[r[1]]
      BY <1>2, <1>3, <2>1, <3>1, <3>2 DEF Beside
    <3>3. CASE newest'[r[1]] # newest[r[1]]
      BY <1>2, <1>3, <3>1, <3>3 DEF Beside
    <3> QED BY <3>2, <3>3
  <2>4. query.barred \cap query'.recorded = {}
    <3>1. query.barred \cap query.recorded = {} BY DEF QueriesInv, ExportSound
    <3> QED BY <1>2, <1>3, <2>1, <3>1 DEF Beside
  <2>5. AtKey => key \in CallKey BY DEF QueriesInv, QuestionStands
  <2>6. ASSUME query.at \in {"tags", "find"}
        PROVE  newest'[key] \in {0, query.tagsOf} \/ <<key, newest'[key]>> \in query'.recorded
    <3>1. newest[key] \in {0, query.tagsOf} \/ <<key, newest[key]>> \in query.recorded
      BY <2>6 DEF QueriesInv, ExportSound, CurrentRow
    <3> QED BY <2>5, <2>6, <3>1 DEF Beside, AtKey
  <2>7. ASSUME query.at = "find"
        PROVE  <<key, query.tagsOf>> \notin query.barred \/ newest'[key] # query.tagsOf
    <3>1. <<key, query.tagsOf>> \notin query.barred \/ newest[key] # query.tagsOf
      BY <2>7 DEF QueriesInv, ExportSound
    <3> SUFFICES ASSUME <<key, query.tagsOf>> \in query.barred PROVE newest'[key] # query.tagsOf
      OBVIOUS
    <3>2. query.tagsOf \in 1..MaxRows /\ query.tagsOf <= made[key] BY <1>2, <1>3, <2>1
    <3> QED BY <1>2, <2>5, <2>7, <3>1, <3>2 DEF Beside, AtKey
  <2>8. ASSUME query.at \in {"load", "blobs"}
        PROVE  /\ <<key, query.row>> \notin query.barred
               /\ query.row = query.tagsOf \/ <<key, query.row>> \in query'.recorded
    BY <2>8 DEF QueriesInv, ExportSound, Beside
  <2>9. ASSUME query.at = "load", key \notin query'.purged
        PROVE  key \in identified' /\ <<<<key, query.row>>, "out">> \in documents'
    BY <1>4, <2>9 DEF QueriesInv, ExportSound, Beside
  <2>10. ASSUME query.at = "blobs", key \notin query'.purged
         PROVE  /\ \A p \in Part : <<<<key, query.row>>, p>> \in documents'
                /\ \A p \in Part \ query.parts :
                     p \in query.whole \/ (p = "in" /\ <<key, query.row>> \in query'.filled)
    <3>1. /\ \A p \in Part : <<<<key, query.row>>, p>> \in documents
          /\ \A p \in Part \ query.parts :
               p \in query.whole \/ (p = "in" /\ <<key, query.row>> \in query.filled)
      BY <1>4, <2>10 DEF QueriesInv, ExportSound
    <3> QED BY <1>4, <2>10, <3>1 DEF Beside
  <2> QED BY <1>1, <2>2, <2>3, <2>4, <2>6, <2>7, <2>8, <2>9, <2>10 DEF ExportSound, CurrentRow
<1>6. MatchSound' BY <1>1, <1>4 DEF QueriesInv, MatchSound, Beside
<1>7. QuietSound' BY <1>1 DEF QuietSound
<1>8. ExportHonoursTags' BY <1>1 DEF QueriesInv, ExportHonoursTags, Exported, Beside
<1>9. ExportIsWhole' BY <1>1, <1>4 DEF QueriesInv, ExportIsWhole, Exported
<1>10. ShownIsThere' BY <1>1, <1>4 DEF QueriesInv, ShownIsThere
<1> QED BY <1>1, <1>5, <1>6, <1>7, <1>8, <1>9, <1>10

LEMMA RecordRowSound ==
  ASSUME QueriesInv, NEW k \in CallKey, RecordRow(k)
  PROVE  QueriesInv'
<1> DEFINE n == made[k] + 1
           recorded == IF query.kind = "export" THEN query.recorded \cup {<<k, n>>} ELSE {}
<1>1. PICK parts \in {{"out"}, Part} :
        /\ documents' = documents \cup ({<<k, n>>} \X parts) /\ intact' = intact \cup ({<<k, n>>} \X parts)
        /\ files' = files \cup ({<<k, n>>} \X parts)
  BY DEF RecordRow
<1>2. /\ Count /\ keyLock[k] = "free" /\ made[k] < MaxRows /\ made' = [made EXCEPT ![k] = n]
      /\ newest' = [newest EXCEPT ![k] = n] /\ identified' = identified \cup {k}
      /\ labels' = labels /\ keyLock' = keyLock
      /\ query' = [query EXCEPT !.quiet = FALSE, !.recorded = recorded]
  BY DEF RecordRow
<1>3. QueriesTypeOK /\ MaxRows \in Nat /\ MaxChanges \in Nat /\ query \in Question
  BY QueryAssumption DEF QueriesInv, QuestionStands
<1>4. made[k] \in Nat /\ n \in 1..MaxRows /\ <<k, n>> \in Row /\ parts \subseteq Part /\ "out" \in parts
  BY <1>1, <1>2, <1>3 DEF QueriesTypeOK, Row, Part
<1>5. recorded \in SUBSET Row /\ query.purged \in SUBSET CallKey /\ query.filled \in SUBSET Row
  BY <1>3, <1>4 DEF Question
<1>6. Aside(recorded, query.purged, query.filled) BY <1>2, <1>3 DEF Aside, Question
<1>7. /\ query'.kind = query.kind /\ query'.recorded = recorded /\ query'.purged = query.purged
      /\ query'.filled = query.filled /\ query'.at = query.at /\ query'.outcome = query.outcome
  BY <1>5, <1>6, AsideKeeps DEF QueriesInv
<1>8. QueriesTypeOK'
  <2>1. newest' \in [CallKey -> 0..MaxRows] /\ made' \in [CallKey -> 0..MaxRows]
    BY <1>2, <1>3, <1>4 DEF QueriesTypeOK
  <2>2. identified' \subseteq CallKey /\ labels' \in [Row -> SUBSET Label] /\ changes' \in 0..MaxChanges
    BY <1>2, <1>3 DEF QueriesTypeOK, Count
  <2>3. documents' \subseteq Row \X Part /\ intact' \subseteq documents' /\ files' \subseteq Row \X Part
    BY <1>1, <1>3, <1>4 DEF QueriesTypeOK
  <2> QED BY <1>2, <1>3, <1>7, <2>1, <2>2, <2>3 DEF QueriesTypeOK
<1>9. ASSUME NEW j \in CallKey
      PROVE  /\ j # k => newest'[j] = newest[j] /\ made'[j] = made[j]
             /\ j = k => newest'[j] = n /\ made'[j] = n
  BY <1>2, <1>3 DEF QueriesTypeOK
<1>10. Beside
  <2>1. ASSUME NEW j \in CallKey
        PROVE  /\ made[j] <= made'[j]
               /\ \/ newest'[j] \in {newest[j], 0}
                  \/ /\ made[j] < newest'[j]
                     /\ query.kind = "export" => <<j, newest'[j]>> \in query'.recorded
    BY <1>3, <1>4, <1>7, <1>9 DEF QueriesTypeOK
  <2>2. \A r \in query'.recorded \ query.recorded : made[r[1]] < r[2] BY <1>4, <1>7
  <2>3. \A r \in Row : labels[r] \subseteq labels'[r] BY <1>2
  <2>4. identified \subseteq identified' /\ documents \subseteq documents' BY <1>1, <1>2
  <2> QED BY <1>7, <2>1, <2>2, <2>3, <2>4 DEF Beside
<1>11. RowsSound'
  <2>1. ASSUME NEW j \in CallKey, Shown(j)'
        PROVE  j \in identified' /\ <<<<j, newest'[j]>>, "out">> \in documents'
    <3>1. CASE j = k BY <1>1, <1>2, <1>4, <1>9, <3>1
    <3>2. CASE j # k BY <1>1, <1>2, <1>9, <2>1, <3>2 DEF QueriesInv, RowsSound, Shown, CurrentRow
    <3> QED BY <3>1, <3>2
  <2>2. \A j \in CallKey : newest'[j] \in {0, made'[j]} BY <1>9 DEF QueriesInv, RowsSound
  <2>3. ASSUME NEW r \in Row, labels'[r] # {} PROVE r[2] <= made'[r[1]]
    <3>1. r[1] \in CallKey /\ r[2] \in Nat BY DEF Row
    <3>2. r[2] <= made[r[1]] BY <1>2, <2>3 DEF QueriesInv, RowsSound
    <3> QED BY <1>4, <1>9, <3>1, <3>2
  <2> QED BY <2>1, <2>2, <2>3 DEF RowsSound, CurrentRow
<1>12. FilesSound' BY <1>1, <1>7 DEF QueriesInv, FilesSound
<1>13. LocksSound'
  <2> SUFFICES ASSUME NEW j \in CallKey, keyLock[j] # "free"
        PROVE /\ keyLock[j] = "purge" => newest'[j] = 0 /\ OfKey(j, documents') = {}
              /\ keyLock[j] \in {"put", "mark"} =>
                   newest'[j] > 0 /\ <<<<j, newest'[j]>>, "in">> \in documents' /\ <<j, newest'[j]>> \in query'.filled
              /\ keyLock[j] = "mark" => <<<<j, newest'[j]>>, "in">> \in files'
    BY <1>2 DEF LocksSound, Shown, CurrentRow, OfKey
  <2>1. j # k BY <1>2
  <2>2. /\ keyLock[j] = "purge" => newest[j] = 0 /\ OfKey(j, documents) = {}
        /\ keyLock[j] \in {"put", "mark"} =>
             newest[j] > 0 /\ <<<<j, newest[j]>>, "in">> \in documents /\ <<j, newest[j]>> \in query.filled
        /\ keyLock[j] = "mark" => <<<<j, newest[j]>>, "in">> \in files
    BY DEF QueriesInv, LocksSound, Shown, CurrentRow
  <2> QED BY <1>1, <1>7, <1>9, <2>1, <2>2 DEF OfKey
<1> QED BY <1>5, <1>6, <1>8, <1>10, <1>11, <1>12, <1>13, BesideKeeps DEF QueriesInv

LEMMA AddTagSound ==
  ASSUME QueriesInv, NEW k \in CallKey, NEW label \in Label, AddTag(k, label)
  PROVE  QueriesInv'
<1>1. /\ Count /\ Shown(k) /\ labels' = [labels EXCEPT ![CurrentRow(k)] = @ \cup {label}]
      /\ keyLock' = [keyLock EXCEPT ![k] = keyLock[k]] /\ query' = [query EXCEPT !.quiet = FALSE]
      /\ UNCHANGED <<newest, made, identified, documents, intact, files>>
  BY DEF AddTag, Happen
<1>2. QueriesTypeOK /\ MaxRows \in Nat /\ MaxChanges \in Nat /\ query \in Question
  BY QueryAssumption DEF QueriesInv, QuestionStands
<1>3. CurrentRow(k) \in Row /\ keyLock' = keyLock
  BY <1>1, <1>2 DEF QueriesTypeOK, Row, Shown, CurrentRow
<1>4. query.recorded \in SUBSET Row /\ query.purged \in SUBSET CallKey /\ query.filled \in SUBSET Row
  BY <1>2 DEF Question
<1>5. Aside(query.recorded, query.purged, query.filled) BY <1>1, <1>2 DEF Aside, Question
<1>6. /\ query'.kind = query.kind /\ query'.recorded = query.recorded /\ query'.purged = query.purged
      /\ query'.filled = query.filled /\ query'.at = query.at /\ query'.outcome = query.outcome
  BY <1>4, <1>5, AsideKeeps DEF QueriesInv
<1>7. labels' \in [Row -> SUBSET Label] /\ \A r \in Row : labels[r] \subseteq labels'[r]
  BY <1>1, <1>2, <1>3 DEF QueriesTypeOK
<1>8. QueriesTypeOK' BY <1>1, <1>2, <1>3, <1>6, <1>7 DEF QueriesTypeOK, Count
<1>9. Beside BY <1>1, <1>2, <1>6, <1>7 DEF Beside, QueriesTypeOK
<1>10. RowsSound'
  <2>1. ASSUME NEW r \in Row, labels'[r] # {} PROVE r[2] <= made'[r[1]]
    <3>1. CASE r = CurrentRow(k)
      <4>1. newest[k] \in {0, made[k]} /\ made[k] \in Nat BY <1>2 DEF QueriesInv, RowsSound, QueriesTypeOK
      <4> QED BY <1>1, <3>1, <4>1 DEF CurrentRow, Shown
    <3>2. CASE r # CurrentRow(k)
      BY <1>1, <1>2, <2>1, <3>2 DEF QueriesInv, RowsSound, QueriesTypeOK
    <3> QED BY <3>1, <3>2
  <2> QED BY <1>1, <2>1 DEF QueriesInv, RowsSound, Shown, CurrentRow
<1>11. FilesSound' BY <1>1, <1>6 DEF QueriesInv, FilesSound
<1>12. LocksSound' BY <1>1, <1>3, <1>6 DEF QueriesInv, LocksSound, Shown, CurrentRow, OfKey
<1> QED BY <1>4, <1>5, <1>8, <1>9, <1>10, <1>11, <1>12, BesideKeeps DEF QueriesInv

LEMMA FillRowSound ==
  ASSUME QueriesInv, NEW k \in CallKey, FillRow(k)
  PROVE  QueriesInv'
<1> DEFINE new == CurrentRow(k)
           filled == query.filled \cup {new}
<1>1. /\ Count /\ keyLock[k] = "free" /\ Shown(k) /\ documents' = documents \cup {<<new, "in">>}
      /\ keyLock' = [keyLock EXCEPT ![k] = "put"]
      /\ query' = [query EXCEPT !.quiet = FALSE, !.filled = @ \cup {new}]
      /\ UNCHANGED <<newest, made, identified, labels, intact, files>>
  BY DEF FillRow
<1>2. QueriesTypeOK /\ MaxRows \in Nat /\ MaxChanges \in Nat /\ query \in Question
  BY QueryAssumption DEF QueriesInv, QuestionStands
<1>3. new \in Row BY <1>1, <1>2 DEF QueriesTypeOK, Row, Shown, CurrentRow
<1>4. query.recorded \in SUBSET Row /\ query.purged \in SUBSET CallKey /\ filled \in SUBSET Row
  BY <1>2, <1>3 DEF Question
<1>5. Aside(query.recorded, query.purged, filled) BY <1>1, <1>2 DEF Aside, Question
<1>6. /\ query'.kind = query.kind /\ query'.recorded = query.recorded /\ query'.purged = query.purged
      /\ query'.filled = filled /\ query'.at = query.at /\ query'.outcome = query.outcome
  BY <1>4, <1>5, AsideKeeps DEF QueriesInv
<1>7. QueriesTypeOK' BY <1>1, <1>2, <1>3, <1>6 DEF QueriesTypeOK, Count, Part
<1>8. Beside BY <1>1, <1>2, <1>6 DEF Beside, QueriesTypeOK
<1>9. RowsSound' BY <1>1 DEF QueriesInv, RowsSound, Shown, CurrentRow
<1>10. FilesSound' BY <1>1, <1>6 DEF QueriesInv, FilesSound
<1>11. LocksSound'
  <2> SUFFICES ASSUME NEW j \in CallKey
      PROVE /\ keyLock'[j] = "purge" => newest[j] = 0 /\ OfKey(j, documents') = {}
            /\ keyLock'[j] \in {"put", "mark"} =>
                 newest[j] > 0 /\ <<<<j, newest[j]>>, "in">> \in documents' /\ <<j, newest[j]>> \in query'.filled
            /\ keyLock'[j] = "mark" => <<<<j, newest[j]>>, "in">> \in files
    BY <1>1 DEF LocksSound, Shown, CurrentRow, OfKey
  <2>1. CASE j = k BY <1>1, <1>2, <1>6, <2>1 DEF QueriesTypeOK, Shown, CurrentRow
  <2>2. CASE j # k
    <3>1. keyLock'[j] = keyLock[j] BY <1>1, <1>2, <2>2 DEF QueriesTypeOK
    <3>2. OfKey(j, documents') = OfKey(j, documents) BY <1>1, <2>2 DEF OfKey, CurrentRow
    <3> QED BY <1>1, <1>6, <3>1, <3>2 DEF QueriesInv, LocksSound, Shown, CurrentRow
  <2> QED BY <2>1, <2>2
<1> QED BY <1>4, <1>5, <1>7, <1>8, <1>9, <1>10, <1>11, BesideKeeps DEF QueriesInv

\* The blob of a back-filled input, its mark, and the blobs of a purge: neither
\* rows nor tags change, and history gains nothing.
LEMMA FileSteps ==
  ASSUME QueriesInv, query' = [query EXCEPT !.quiet = FALSE], QueriesTypeOK',
         UNCHANGED <<newest, made, identified, labels, documents>>,
         intact' \subseteq files',
         \A d \in documents \ files' : d[2] = "in" /\ d[1] \in query.filled,
         \A k \in CallKey :
           /\ keyLock'[k] = "purge" => keyLock[k] = "purge"
           /\ keyLock'[k] \in {"put", "mark"} => keyLock[k] \in {"put", "mark"}
           /\ keyLock'[k] = "mark" => <<CurrentRow(k), "in">> \in files'
  PROVE  QueriesInv'
<1>1. query \in Question BY DEF QueriesInv, QuestionStands
<1>2. query.recorded \in SUBSET Row /\ query.purged \in SUBSET CallKey /\ query.filled \in SUBSET Row
  BY <1>1 DEF Question
<1>3. Aside(query.recorded, query.purged, query.filled) BY <1>1 DEF Aside, Question
<1>4. query'.filled = query.filled /\ query'.recorded = query.recorded /\ query'.purged = query.purged
  BY <1>2, <1>3, AsideKeeps DEF QueriesInv
<1>5. Beside
  <2>1. \A k \in CallKey : made[k] \in Nat BY QueryAssumption DEF QueriesInv, QueriesTypeOK
  <2> QED BY <1>4, <2>1 DEF Beside
<1>6. RowsSound' BY DEF QueriesInv, RowsSound, Shown, CurrentRow
<1>7. FilesSound' BY <1>4 DEF FilesSound
<1>8. LocksSound' BY <1>4 DEF QueriesInv, LocksSound, Shown, CurrentRow, OfKey
<1> QED BY <1>2, <1>3, <1>5, <1>6, <1>7, <1>8, BesideKeeps DEF QueriesInv

LEMMA QuietOff ==
  ASSUME QueriesInv, query' = [query EXCEPT !.quiet = FALSE]
  PROVE  query'.kind = query.kind /\ query'.at = query.at /\ query'.outcome = query.outcome
BY DEF QueriesInv, QuestionStands, Question

LEMMA PutInputSound ==
  ASSUME QueriesInv, NEW k \in CallKey, PutInput(k)
  PROVE  QueriesInv'
<1>1. QueriesTypeOK /\ MaxRows \in Nat BY QueryAssumption DEF QueriesInv
<1>2. /\ keyLock[k] = "put" /\ UNCHANGED <<newest, made, identified, labels, documents, intact, changes>>
      /\ query' = [query EXCEPT !.quiet = FALSE]
      /\ \/ files' = files \cup {<<CurrentRow(k), "in">>} /\ keyLock' = [keyLock EXCEPT ![k] = "mark"]
         \/ files' = files /\ keyLock' = [keyLock EXCEPT ![k] = "free"]
  BY DEF PutInput, Happen
<1>3. CurrentRow(k) \in Row
  BY <1>1, <1>2 DEF QueriesInv, LocksSound, QueriesTypeOK, Row, Shown, CurrentRow
<1>4. QueriesTypeOK'
  BY <1>1, <1>2, <1>3, QuietOff DEF QueriesTypeOK, Part
<1>5. intact' \subseteq files' /\ \A d \in documents \ files' : d[2] = "in" /\ d[1] \in query.filled
  BY <1>2 DEF QueriesInv, FilesSound
<1>6. ASSUME NEW j \in CallKey
      PROVE /\ keyLock'[j] = "purge" => keyLock[j] = "purge"
            /\ keyLock'[j] \in {"put", "mark"} => keyLock[j] \in {"put", "mark"}
            /\ keyLock'[j] = "mark" => <<CurrentRow(j), "in">> \in files'
  BY <1>1, <1>2 DEF QueriesInv, LocksSound, QueriesTypeOK
<1> QED BY <1>2, <1>4, <1>5, <1>6, FileSteps

LEMMA MarkInputSound ==
  ASSUME QueriesInv, NEW k \in CallKey, MarkInput(k)
  PROVE  QueriesInv'
<1>1. QueriesTypeOK /\ MaxRows \in Nat BY QueryAssumption DEF QueriesInv
<1>2. /\ keyLock[k] = "mark" /\ UNCHANGED <<newest, made, identified, labels, documents, files, changes>>
      /\ query' = [query EXCEPT !.quiet = FALSE] /\ keyLock' = [keyLock EXCEPT ![k] = "free"]
      /\ intact' \in {intact, intact \cup {<<CurrentRow(k), "in">>}}
  BY DEF MarkInput, Happen
<1>3. <<CurrentRow(k), "in">> \in files /\ <<CurrentRow(k), "in">> \in documents
  BY <1>2 DEF QueriesInv, LocksSound
<1>4. QueriesTypeOK'
  BY <1>1, <1>2, <1>3, QuietOff DEF QueriesTypeOK
<1>5. intact' \subseteq files' /\ \A d \in documents \ files' : d[2] = "in" /\ d[1] \in query.filled
  BY <1>2, <1>3 DEF QueriesInv, FilesSound
<1>6. ASSUME NEW j \in CallKey
      PROVE /\ keyLock'[j] = "purge" => keyLock[j] = "purge"
            /\ keyLock'[j] \in {"put", "mark"} => keyLock[j] \in {"put", "mark"}
            /\ keyLock'[j] = "mark" => <<CurrentRow(j), "in">> \in files'
  BY <1>1, <1>2 DEF QueriesInv, LocksSound, QueriesTypeOK
<1> QED BY <1>2, <1>4, <1>5, <1>6, FileSteps

LEMMA PurgeFileSound ==
  ASSUME QueriesInv, NEW d \in files, PurgeFile(d)
  PROVE  QueriesInv'
<1> DEFINE k == d[1][1]
<1>1. QueriesTypeOK /\ MaxRows \in Nat BY QueryAssumption DEF QueriesInv
<1>2. PICK lock \in {"free", "purge"} : keyLock' = [keyLock EXCEPT ![k] = lock]
  BY DEF PurgeFile, Happen
<1>3. /\ keyLock[k] = "purge" /\ UNCHANGED <<newest, made, identified, labels, documents, intact, changes>>
      /\ query' = [query EXCEPT !.quiet = FALSE] /\ files' = files \ {d}
  BY DEF PurgeFile, Happen
<1>4. d \in Row \X Part /\ k \in CallKey BY <1>1 DEF QueriesTypeOK, Row
<1>5. d \notin documents BY <1>3, <1>4 DEF QueriesInv, LocksSound, OfKey
<1>6. QueriesTypeOK'
  BY <1>1, <1>2, <1>3, QuietOff DEF QueriesTypeOK
<1>7. intact' \subseteq files' /\ \A e \in documents \ files' : e[2] = "in" /\ e[1] \in query.filled
  BY <1>1, <1>3, <1>5 DEF QueriesInv, FilesSound, QueriesTypeOK
<1>8. ASSUME NEW j \in CallKey
      PROVE /\ keyLock'[j] = "purge" => keyLock[j] = "purge"
            /\ keyLock'[j] \in {"put", "mark"} => keyLock[j] \in {"put", "mark"}
            /\ keyLock'[j] = "mark" => <<CurrentRow(j), "in">> \in files'
  <2>1. CASE j = k BY <1>1, <1>2, <1>3, <1>4, <2>1 DEF QueriesTypeOK
  <2>2. CASE j # k
    <3>1. keyLock'[j] = keyLock[j] BY <1>1, <1>2, <1>4, <2>2 DEF QueriesTypeOK
    <3> QED BY <1>3, <2>2, <3>1 DEF QueriesInv, LocksSound, CurrentRow
  <2> QED BY <2>1, <2>2
<1> QED BY <1>3, <1>6, <1>7, <1>8, FileSteps

LEMMA PurgeKeySound ==
  ASSUME QueriesInv, NEW k \in CallKey, PurgeKey(k)
  PROVE  QueriesInv'
<1> DEFINE purged == query.purged \cup {k}
<1>1. PICK lock \in {"free", "purge"} : keyLock' = [keyLock EXCEPT ![k] = lock]
  BY DEF PurgeKey
<1>2. /\ Count /\ keyLock[k] = "free" /\ newest' = [newest EXCEPT ![k] = 0]
      /\ documents' = documents \ OfKey(k, documents) /\ intact' = intact \ OfKey(k, intact)
      /\ query' = [query EXCEPT !.quiet = FALSE, !.purged = @ \cup {k}]
      /\ UNCHANGED <<made, files>>
      /\ \/ UNCHANGED <<identified, labels>>
         \/ /\ identified' = identified \ {k}
            /\ labels' = [r \in Row |-> IF r[1] = k THEN {} ELSE labels[r]]
  BY DEF PurgeKey
<1>3. QueriesTypeOK /\ MaxRows \in Nat /\ MaxChanges \in Nat /\ query \in Question
  BY QueryAssumption DEF QueriesInv, QuestionStands
<1>4. query.recorded \in SUBSET Row /\ purged \in SUBSET CallKey /\ query.filled \in SUBSET Row
  BY <1>3 DEF Question
<1>5. Aside(query.recorded, purged, query.filled) BY <1>2, <1>3 DEF Aside, Question
<1>6. /\ query'.kind = query.kind /\ query'.recorded = query.recorded /\ query'.purged = purged
      /\ query'.filled = query.filled /\ query'.at = query.at /\ query'.outcome = query.outcome
  BY <1>4, <1>5, AsideKeeps DEF QueriesInv
<1>7. /\ identified' \subseteq identified /\ labels' \in [Row -> SUBSET Label]
      /\ \A r \in Row : r[1] # k => labels'[r] = labels[r]
      /\ \A r \in Row : labels'[r] \subseteq labels[r]
      /\ \A j \in identified : j = k \/ j \in identified'
  BY <1>2, <1>3 DEF QueriesTypeOK
<1>8. ASSUME NEW j \in CallKey
      PROVE  /\ j # k => newest'[j] = newest[j] /\ keyLock'[j] = keyLock[j]
             /\ j = k => newest'[j] = 0 /\ keyLock'[j] \in {"free", "purge"}
  BY <1>1, <1>2, <1>3 DEF QueriesTypeOK
<1>9. QueriesTypeOK'
  <2>1. newest' \in [CallKey -> 0..MaxRows] /\ keyLock' \in [CallKey -> {"free", "put", "mark", "purge"}]
    BY <1>1, <1>2, <1>3 DEF QueriesTypeOK
  <2>2. documents' \subseteq Row \X Part /\ intact' \subseteq documents'
    BY <1>2, <1>3 DEF QueriesTypeOK, OfKey
  <2> QED BY <1>2, <1>3, <1>6, <1>7, <2>1, <2>2 DEF QueriesTypeOK, Count
<1>10. Beside
  <2>1. \A d \in documents \ documents' : d[1][1] = k BY <1>2 DEF OfKey
  <2>2. ASSUME NEW r \in Row PROVE labels[r] \subseteq labels'[r] \/ newest'[r[1]] = 0
    <3>1. r[1] \in CallKey BY DEF Row
    <3> QED BY <1>7, <1>8, <3>1
  <2>3. \A j \in CallKey : made[j] \in Nat BY <1>3 DEF QueriesTypeOK
  <2> QED BY <1>2, <1>6, <1>7, <1>8, <2>1, <2>2, <2>3 DEF Beside
<1>11. RowsSound'
  <2>1. ASSUME NEW j \in CallKey, newest'[j] > 0
        PROVE  j \in identified' /\ <<<<j, newest'[j]>>, "out">> \in documents'
    <3>1. j # k BY <1>8, <2>1
    <3> QED BY <1>2, <1>7, <1>8, <2>1, <3>1 DEF QueriesInv, RowsSound, Shown, CurrentRow, OfKey
  <2>2. \A j \in CallKey : newest'[j] \in {0, made'[j]} BY <1>2, <1>8 DEF QueriesInv, RowsSound
  <2>3. \A r \in Row : labels'[r] # {} => r[2] <= made'[r[1]] BY <1>2, <1>7 DEF QueriesInv, RowsSound
  <2> QED BY <2>1, <2>2, <2>3 DEF RowsSound, Shown, CurrentRow
<1>12. FilesSound' BY <1>2, <1>6 DEF QueriesInv, FilesSound
<1>13. LocksSound'
  <2> SUFFICES ASSUME NEW j \in CallKey
      PROVE /\ keyLock'[j] = "purge" => newest'[j] = 0 /\ OfKey(j, documents') = {}
            /\ keyLock'[j] \in {"put", "mark"} =>
                 newest'[j] > 0 /\ <<<<j, newest'[j]>>, "in">> \in documents' /\ <<j, newest'[j]>> \in query'.filled
            /\ keyLock'[j] = "mark" => <<<<j, newest'[j]>>, "in">> \in files'
    BY DEF LocksSound, Shown, CurrentRow, OfKey
  <2>1. CASE j = k BY <1>2, <1>8, <2>1 DEF OfKey
  <2>2. CASE j # k BY <1>2, <1>6, <1>8, <2>2 DEF QueriesInv, LocksSound, Shown, CurrentRow, OfKey
  <2> QED BY <2>1, <2>2
<1> QED BY <1>4, <1>5, <1>9, <1>10, <1>11, <1>12, <1>13, BesideKeeps DEF QueriesInv

-----------------------------------------------------------------------------
(* The steps of a command: the store stays as it is.                       *)

LEMMA StoreStays ==
  ASSUME QueriesInv, UNCHANGED rowVars, query' \in Question, query'.filled = query.filled
  PROVE  QueriesTypeOK' /\ RowsSound' /\ FilesSound' /\ LocksSound'
<1>1. UNCHANGED <<newest, made, identified, labels, documents, intact, files, keyLock, changes>> BY DEF rowVars
<1>2. QueriesTypeOK' BY <1>1 DEF QueriesInv, QueriesTypeOK, Question, QuestionAt
<1>3. RowsSound' BY <1>1 DEF QueriesInv, RowsSound, Shown, CurrentRow
<1>4. FilesSound' BY <1>1 DEF QueriesInv, FilesSound
<1>5. LocksSound' BY <1>1 DEF QueriesInv, LocksSound, Shown, CurrentRow, OfKey
<1> QED BY <1>2, <1>3, <1>4, <1>5

\* A command begins with nothing told.
Fresh(q) ==
  /\ q \in Question /\ q.filled = query.filled /\ q.lines = {} /\ q.skipped = {} /\ q.shown = {}
  /\ q.todo = {} /\ q.outcome = "none" /\ q.recorded = {}

LEMMA NothingAsked == QuestionStands => NoQuery \in Question
BY QueryAssumption DEF NoQuery, Question, QuestionAt

LEMMA BeginFresh ==
  ASSUME QuestionStands, NEW kind \in {"list", "export", "stats", "inspect", "check"}, NEW at \in QuestionAt
  PROVE  Fresh(Begin(kind, at)) /\ Begin(kind, at).kind = kind /\ Begin(kind, at).at = at
         /\ Begin(kind, at).within = CallKey
<1>1. query \in Question /\ NoQuery \in Question BY NothingAsked DEF QuestionStands
<1>2. /\ NoQuery.todo = {} /\ NoQuery.lines = {} /\ NoQuery.skipped = {} /\ NoQuery.shown = {} /\ NoQuery.outcome = "none"
      /\ NoQuery.recorded = {} /\ NoQuery.within = CallKey
  BY DEF NoQuery
<1> HIDE DEF NoQuery
<1> DEFINE q == Begin(kind, at)
<1>3. q \in Question BY <1>1 DEF Begin, Question
<1>4. /\ q.filled = query.filled /\ q.kind = kind /\ q.at = at /\ q.within = CallKey /\ q.lines = {}
      /\ q.skipped = {} /\ q.shown = {} /\ q.todo = {} /\ q.outcome = "none" /\ q.recorded = {}
  BY <1>1, <1>2 DEF Begin, Question
<1> QED BY <1>3, <1>4 DEF Fresh

LEMMA StartSound ==
  ASSUME QueriesInv, UNCHANGED rowVars,
         \/ query'.kind \in {"list", "export", "stats"} /\ query'.at = "summaries"
         \/ query'.kind \in {"inspect", "check"} /\ query'.at = "match",
         query'.kind = "export" => /\ query'.barred = {r \in Row : labels[r] \cap query'.exclude # {}}
                                   /\ query'.within = CallKey,
         Fresh(query')
  PROVE  QueriesInv'
<1>1. query' \in Question BY DEF Fresh
<1>2. /\ query'.filled = query.filled /\ query'.lines = {} /\ query'.skipped = {} /\ query'.shown = {}
      /\ query'.todo = {} /\ query'.outcome = "none" /\ query'.recorded = {}
  BY DEF Fresh
<1>4. QueriesTypeOK' /\ RowsSound' /\ FilesSound' /\ LocksSound' BY <1>1, <1>2, StoreStays
<1>5. QuestionStands' BY <1>1, <1>2 DEF QuestionStands, AtKey
<1>6. ExportSound'
  <2> SUFFICES ASSUME query'.kind = "export" PROVE ExportSound' BY DEF ExportSound
  <2>1. \A r \in query'.barred : r[2] <= made[r[1]] /\ labels[r] \cap query'.exclude # {}
    BY DEF QueriesInv, RowsSound
  <2> QED BY <1>2, <2>1 DEF ExportSound, rowVars
<1>7. MatchSound' /\ QuietSound' BY <1>2 DEF MatchSound, QuietSound, AtKey, Telling
<1>8. ExportHonoursTags' /\ ExportIsWhole' /\ ShownIsThere'
  BY <1>2 DEF ExportHonoursTags, ExportIsWhole, ShownIsThere, Exported
<1> QED BY <1>4, <1>5, <1>6, <1>7, <1>8 DEF QueriesInv

LEMMA StartsSound ==
  ASSUME QueriesInv, StartList \/ StartExport \/ StartStats \/ StartInspect \/ StartCheck
  PROVE  QueriesInv'
<1>1. \A f \in Filters : f.include \in SUBSET Label /\ f.exclude \in SUBSET Label BY DEF Filters, Label
<1>2. QuestionStands /\ {"summaries", "match"} \subseteq QuestionAt BY DEF QueriesInv, QuestionAt
<1>3. CASE StartList
  <2>1. PICK f \in Filters, journaled \in {{}, CallKey} :
          Becomes([Begin("list", "summaries") EXCEPT !.include = f.include, !.exclude = f.exclude,
                                                  !.within = journaled])
    BY <1>3 DEF StartList
  <2> DEFINE q == Begin("list", "summaries")
  <2>2. Fresh(q) /\ q.kind = "list" /\ q.at = "summaries" BY <1>2, BeginFresh
  <2> HIDE DEF q
  <2>3. query' = [q EXCEPT !.include = f.include, !.exclude = f.exclude, !.within = journaled]
    BY <2>1 DEF Becomes, q
  <2>4. Fresh(query') /\ query'.kind = "list" /\ query'.at = "summaries"
    BY <1>1, <2>2, <2>3 DEF Fresh, Question
  <2> QED BY <2>1, <2>4, StartSound DEF Becomes
<1>4. CASE StartExport
  <2> DEFINE barred(f) == {r \in Row : labels[r] \cap f.exclude # {}}
  <2>1. PICK f \in Filters :
          Becomes([Begin("export", "summaries") EXCEPT !.include = f.include, !.exclude = f.exclude,
                                                       !.barred = barred(f)])
    BY <1>4 DEF StartExport
  <2> DEFINE q == Begin("export", "summaries")
  <2>2. Fresh(q) /\ q.kind = "export" /\ q.at = "summaries" /\ q.within = CallKey BY <1>2, BeginFresh
  <2>3. barred(f) \in SUBSET Row OBVIOUS
  <2> HIDE DEF q, barred
  <2>4. query' = [q EXCEPT !.include = f.include, !.exclude = f.exclude, !.barred = barred(f)]
    BY <2>1 DEF Becomes, q
  <2>9. query' \in Question
    <3>1. q \in Question /\ f.include \in SUBSET Label /\ f.exclude \in SUBSET Label BY <1>1, <2>2 DEF Fresh
    <3> QED BY <2>3, <2>4, <3>1 DEF Question
  <2>10. query'.kind = "export" /\ query'.at = "summaries" BY <2>2, <2>4 DEF Fresh, Question
  <2>7. query'.exclude = f.exclude /\ query'.barred = barred(f) /\ query'.within = CallKey
    BY <2>2, <2>4 DEF Fresh, Question
  <2>8. query'.filled = query.filled /\ query'.lines = {} /\ query'.skipped = {} /\ query'.shown = {}
        /\ query'.todo = {} /\ query'.outcome = "none" /\ query'.recorded = {}
    BY <2>2, <2>4 DEF Fresh, Question
  <2>5. /\ Fresh(query') /\ query'.kind = "export" /\ query'.at = "summaries" /\ query'.exclude = f.exclude
        /\ query'.barred = barred(f) /\ query'.within = CallKey
    BY <2>7, <2>8, <2>9, <2>10 DEF Fresh
  <2>6. query'.barred = {r \in Row : labels[r] \cap query'.exclude # {}} BY <2>5 DEF barred
  <2> QED BY <2>1, <2>5, <2>6, StartSound DEF Becomes
<1>5. CASE StartStats
  BY <1>2, <1>5, BeginFresh, StartSound DEF StartStats, Becomes
<1>6. ASSUME NEW kind \in {"inspect", "check"}, NEW keys \in SUBSET CallKey,
             Becomes([Begin(kind, "match") EXCEPT !.within = keys])
      PROVE  QueriesInv'
  <2> DEFINE q == Begin(kind, "match")
  <2>1. Fresh(q) /\ q.kind = kind /\ q.at = "match" BY <1>2, BeginFresh
  <2> HIDE DEF q
  <2>2. query' = [q EXCEPT !.within = keys] BY <1>6 DEF Becomes, q
  <2>3. Fresh(query') /\ query'.kind = kind /\ query'.at = "match" BY <2>1, <2>2 DEF Fresh, Question
  <2> QED BY <1>6, <2>3, StartSound DEF Becomes
<1>7. CASE StartInspect BY <1>6, <1>7 DEF StartInspect
<1>8. CASE StartCheck
  <2>1. PICK k \in CallKey : Becomes([Begin("check", "match") EXCEPT !.within = {k}]) BY <1>8 DEF StartCheck
  <2>2. {k} \in SUBSET CallKey OBVIOUS
  <2> QED BY <1>6, <2>1, <2>2
<1> QED BY <1>3, <1>4, <1>5, <1>7, <1>8

LEMMA ForgetSound ==
  ASSUME QueriesInv, ForgetQuery
  PROVE  QueriesInv'
<1>1. query \in Question /\ NoQuery \in Question BY NothingAsked DEF QueriesInv, QuestionStands
<1>2. query' = [NoQuery EXCEPT !.filled = query.filled] /\ UNCHANGED rowVars BY DEF ForgetQuery, Becomes
<1>3. NoQuery.kind = "none" /\ NoQuery.at = "over" /\ NoQuery.outcome = "none" /\ NoQuery.lines = {}
  BY DEF NoQuery
<1>4. /\ query' \in Question /\ query'.kind = "none" /\ query'.at = "over" /\ query'.outcome = "none"
      /\ query'.filled = query.filled /\ query'.lines = {}
  BY <1>1, <1>2, <1>3 DEF Question
<1>5. QueriesTypeOK' /\ RowsSound' /\ FilesSound' /\ LocksSound' BY <1>2, <1>4, StoreStays
<1>6. QuestionStands' BY <1>4 DEF QuestionStands, AtKey
<1>7. ExportSound' /\ MatchSound' /\ QuietSound' BY <1>4 DEF ExportSound, MatchSound, QuietSound, AtKey
<1>8. ExportHonoursTags' /\ ExportIsWhole' /\ ShownIsThere'
  BY <1>4 DEF ExportHonoursTags, ExportIsWhole, ShownIsThere, Exported
<1> QED BY <1>5, <1>6, <1>7, <1>8 DEF QueriesInv

\* What a command keeps of its question from one step to the next.
Onward ==
  /\ UNCHANGED rowVars /\ query' \in Question /\ query'.kind = query.kind
  /\ query'.include = query.include /\ query'.exclude = query.exclude /\ query'.within = query.within
  /\ query'.barred = query.barred /\ query'.recorded = query.recorded /\ query'.purged = query.purged
  /\ query'.filled = query.filled /\ query'.quiet = query.quiet

LEMMA OnwardKeeps ==
  ASSUME QueriesInv, Onward
  PROVE  /\ QueriesTypeOK' /\ RowsSound' /\ FilesSound' /\ LocksSound'
         /\ Summaries' = Summaries /\ Listed' = Listed /\ Full' = Full
         /\ \A k \in CallKey : LineOf(k)' = LineOf(k) /\ CurrentRow(k)' = CurrentRow(k) /\ Tagged(k)' = Tagged(k)
         /\ newest' = newest /\ labels' = labels /\ documents' = documents /\ identified' = identified
         /\ files' = files
<1>1. UNCHANGED <<newest, made, identified, labels, documents, intact, files, keyLock, changes>>
  BY DEF rowVars, Onward
<1>2. QueriesTypeOK' /\ RowsSound' /\ FilesSound' /\ LocksSound' BY StoreStays DEF Onward
<1>3. Summaries' = Summaries /\ Full' = Full BY <1>1 DEF Summaries, Shown, Full, CurrentRow
<1>4. \A k \in CallKey : LineOf(k)' = LineOf(k) /\ CurrentRow(k)' = CurrentRow(k) /\ Tagged(k)' = Tagged(k)
  BY <1>1 DEF LineOf, CurrentRow, Tagged, Onward
<1>5. Listed' = Listed BY <1>3, <1>4 DEF Listed, Onward, Summaries
<1> QED BY <1>1, <1>2, <1>3, <1>4, <1>5

\* Between two keys, and where nothing is exported, there is little to know.
LEMMA OnwardExport ==
  ASSUME QueriesInv, Onward, query'.lines = query.lines
  PROVE  /\ ~AtKey' => ExportSound'
         /\ ExportHonoursTags'
         /\ query'.outcome \notin {"crashed", "corrupt"} => ExportIsWhole'
         /\ query.kind = "export" =>
              /\ \A r \in query'.barred : /\ r[2] <= made'[r[1]]
                                          /\ labels'[r] \cap query'.exclude # {} \/ newest'[r[1]] # r[2]
              /\ query'.barred \cap query'.recorded = {}
<1>1. /\ query'.kind = query.kind /\ query'.exclude = query.exclude
      /\ query'.barred = query.barred /\ query'.recorded = query.recorded /\ query'.purged = query.purged
      /\ query'.filled = query.filled
      /\ UNCHANGED <<newest, made, identified, labels, documents, files>>
  BY DEF Onward, rowVars
<1>2. query.kind = "export" =>
        /\ \A r \in query'.barred : /\ r[2] <= made'[r[1]]
                                    /\ labels'[r] \cap query'.exclude # {} \/ newest'[r[1]] # r[2]
        /\ query'.barred \cap query'.recorded = {}
  BY <1>1 DEF QueriesInv, ExportSound
<1>3. ~AtKey' => ExportSound' BY <1>1, <1>2 DEF ExportSound, AtKey
<1>4. ExportHonoursTags' BY <1>1 DEF QueriesInv, ExportHonoursTags, Exported
<1>5. query'.outcome \notin {"crashed", "corrupt"} => ExportIsWhole'
  BY <1>1 DEF QueriesInv, ExportIsWhole, Exported
<1> QED BY <1>2, <1>3, <1>4, <1>5

LEMMA SummariseSound ==
  ASSUME QueriesInv, Summarise
  PROVE  QueriesInv'
<1> DEFINE stats == query.kind = "stats"
<1>1. query \in Question /\ query.at = "summaries" /\ query.kind \in {"list", "export", "stats"}
      /\ query.outcome = "none"
  BY DEF QueriesInv, QuestionStands, Summarise
<1> DEFINE todo == IF stats THEN {} ELSE Summaries
           shown == IF stats THEN Summaries ELSE {}
           at == IF stats THEN "total" ELSE "next"
<1>2. UNCHANGED rowVars /\ query' = [query EXCEPT !.todo = todo, !.shown = shown, !.at = at]
  BY DEF Summarise, Becomes
<1>3. /\ Summaries \in SUBSET CallKey /\ todo \in SUBSET CallKey /\ shown \in SUBSET (CallKey \cup ShownDoc)
      /\ at \in QuestionAt
  BY DEF Summaries, QuestionAt
<1> HIDE DEF todo, shown, at
<1>10. /\ query' \in Question /\ query'.todo = todo /\ query'.shown = shown /\ query'.at = at
       /\ query'.lines = query.lines /\ query'.skipped = query.skipped /\ query'.outcome = "none"
  BY <1>1, <1>2, <1>3 DEF Question
<1> USE DEF todo, shown, at
<1>4. /\ query' \in Question /\ query'.todo = (IF stats THEN {} ELSE Summaries)
      /\ query'.shown = (IF stats THEN Summaries ELSE {}) /\ query'.at = (IF stats THEN "total" ELSE "next")
      /\ query'.lines = query.lines /\ query'.skipped = query.skipped /\ query'.outcome = "none"
  BY <1>10
<1> HIDE DEF todo, shown, at
<1>5. Onward BY <1>1, <1>2, <1>4 DEF Onward, Question
<1>6. QuestionStands' BY <1>1, <1>3, <1>4, <1>5 DEF QueriesInv, QuestionStands, AtKey, Onward
<1>7. ExportSound' /\ ExportHonoursTags' /\ ExportIsWhole' BY <1>4, <1>5, OnwardExport DEF AtKey
<1>8. MatchSound' /\ ShownIsThere' BY <1>1, <1>4, <1>5 DEF MatchSound, ShownIsThere, Onward
<1>9. QuietSound'
  <2>1. Summaries' = Summaries BY <1>5, OnwardKeeps
  <2>2. query.quiet /\ ~stats => query.lines = {} /\ query.skipped = {} BY <1>1 DEF QueriesInv, QuietSound
  <2>3. ~stats => Looked' = {} BY <1>4, <2>1 DEF Looked, AtKey
  <2> QED BY <1>1, <1>4, <1>5, <2>1, <2>2, <2>3 DEF QuietSound, Onward, AtKey
<1> QED BY <1>5, <1>6, <1>7, <1>8, <1>9, OnwardKeeps DEF QueriesInv

\* Each execution that is listed has its output stored.
LEMMA StoredAtLeast ==
  ASSUME QueriesTypeOK, RowsSound
  PROVE  LET outs == {d \in documents : d[1] = CurrentRow(d[1][1])}
         IN  IsFiniteSet(outs) /\ Cardinality(outs) \in Nat /\ Cardinality(outs) >= Cardinality(Summaries)
<1> DEFINE outs == {d \in documents : d[1] = CurrentRow(d[1][1])}
           out == [k \in Summaries |-> <<CurrentRow(k), "out">>]
<1>1. IsFiniteSet(CallKey) /\ MaxRows \in Nat BY QueryAssumption
<1>2. IsFiniteSet(Row)
  <2>1. IsFiniteSet(1..MaxRows) BY <1>1, FS_Interval
  <2> QED BY <1>1, <2>1, FS_Product DEF Row
<1>3. IsFiniteSet(Part)
  <2>1. Part = {"in"} \cup {"out"} BY DEF Part
  <2> QED BY <2>1, FS_Singleton, FS_AddElement
<1>4. IsFiniteSet(Row \X Part) BY <1>2, <1>3, FS_Product
<1>5. outs \in SUBSET (Row \X Part) BY DEF QueriesTypeOK
<1>6. IsFiniteSet(outs) /\ Cardinality(outs) \in Nat BY <1>4, <1>5, FS_Subset, FS_CardinalityType
<1>7. out \in [Summaries -> outs] BY DEF Summaries, RowsSound, CurrentRow
<1>8. \A j, k \in Summaries : out[j] = out[k] => j = k BY DEF CurrentRow
<1>9. out \in Injection(Summaries, outs) BY <1>7, <1>8 DEF Injection, IsInjective
<1>10. Cardinality(Summaries) <= Cardinality(outs) BY <1>6, <1>9, FS_Injection
<1>11. Cardinality(Summaries) \in Nat
  BY <1>1, FS_Subset, FS_CardinalityType DEF Summaries
<1> QED BY <1>6, <1>10, <1>11

LEMMA TotalSound ==
  ASSUME QueriesInv, TotalStoredBytes
  PROVE  QueriesInv'
<1> DEFINE bytes == Cardinality({d \in documents : d[1] = CurrentRow(d[1][1])})
<1>1. query \in Question /\ query.at = "total" /\ query.kind = "stats"
  BY DEF QueriesInv, QuestionStands, TotalStoredBytes
<1>2. UNCHANGED rowVars /\ query' = [query EXCEPT !.at = "over", !.outcome = "done", !.bytes = bytes]
  BY <1>1 DEF TotalStoredBytes, Becomes, EndsAs, Question
<1>3. bytes \in Nat /\ bytes >= Cardinality(Summaries) BY StoredAtLeast DEF QueriesInv
<1> HIDE DEF bytes
<1>4. /\ query' \in Question /\ query'.at = "over" /\ query'.outcome = "done" /\ query'.bytes = bytes
      /\ query'.lines = query.lines /\ query'.shown = query.shown
  BY <1>1, <1>2, <1>3 DEF Question, QuestionAt
<1>5. Onward BY <1>1, <1>2, <1>4 DEF Onward, Question
<1>6. QuestionStands' BY <1>1, <1>4, <1>5 DEF QueriesInv, QuestionStands, AtKey, Onward
<1>7. ExportSound' /\ ExportHonoursTags' /\ ExportIsWhole' BY <1>4, <1>5, OnwardExport DEF AtKey
<1>8. MatchSound' /\ ShownIsThere' BY <1>1, <1>4, <1>5 DEF MatchSound, ShownIsThere, Onward
<1>9. QuietSound'
  <2>1. query.quiet => query.shown = Summaries BY <1>1 DEF QueriesInv, QuietSound
  <2> QED BY <1>1, <1>3, <1>4, <1>5, <2>1 DEF QuietSound, Onward, AtKey
<1> QED BY <1>5, <1>6, <1>7, <1>8, <1>9, OnwardKeeps DEF QueriesInv

LEMMA NextSummarySound ==
  ASSUME QueriesInv, NEW k \in CallKey, NextSummary(k)
  PROVE  QueriesInv'
<1>1. /\ query \in Question /\ query.at = "next" /\ query.kind \in {"list", "export"} /\ query.outcome = "none"
      /\ k \in query.todo
  BY DEF QueriesInv, QuestionStands, NextSummary
<1>2. /\ UNCHANGED rowVars
      /\ query' = [query EXCEPT !.at = "tags", !.todo = @ \ {k}, !.key = k, !.tagsOf = newest[k]]
  BY DEF NextSummary, Becomes
<1>3. newest[k] \in 0..MaxRows BY DEF QueriesInv, QueriesTypeOK
<1>4. /\ query' \in Question /\ query'.at = "tags" /\ query'.todo = query.todo \ {k} /\ query'.key = k
      /\ query'.tagsOf = newest[k] /\ query'.lines = query.lines /\ query'.skipped = query.skipped
      /\ query'.outcome = "none" /\ query'.shown = query.shown
  BY <1>1, <1>2, <1>3 DEF Question, QuestionAt
<1>5. Onward BY <1>1, <1>2, <1>4 DEF Onward, Question
<1>6. QuestionStands' BY <1>1, <1>4, <1>5 DEF QueriesInv, QuestionStands, AtKey, Onward
<1>7. ExportHonoursTags' /\ ExportIsWhole' BY <1>4, <1>5, OnwardExport
<1>8. ExportSound'
  BY <1>1, <1>4, <1>5, OnwardKeeps, OnwardExport DEF ExportSound, AtKey, Onward
<1>9. MatchSound' /\ ShownIsThere' BY <1>1, <1>4, <1>5 DEF MatchSound, ShownIsThere, Onward
<1>10. QuietSound'
  <2> SUFFICES ASSUME query.quiet PROVE QuietSound' BY <1>5 DEF QuietSound, Onward
  <2>1. Summaries' = Summaries /\ Listed' = Listed /\ Full' = Full
        /\ \A j \in CallKey : LineOf(j)' = LineOf(j)
        /\ newest' = newest
    BY <1>5, OnwardKeeps
  <2>2. Telling /\ Telling' /\ ~AtKey /\ AtKey' BY <1>1, <1>4 DEF Telling, AtKey
  <2>3. Looked \subseteq CallKey BY DEF Looked, Summaries
  <2>4. Looked' = Looked BY <1>1, <1>4, <2>1, <2>2 DEF Looked
  <2>5. query.todo \subseteq Summaries BY <1>1 DEF QueriesInv, QuietSound
  <2>6. query'.key \in Summaries' \ query'.todo /\ query'.todo \subseteq Summaries'
        /\ query'.tagsOf = newest'[query'.key]
    BY <1>1, <1>4, <2>1, <2>5
  <2>7. query.kind = "list" => query'.lines = {LineOf(j)' : j \in Looked' \cap Listed'}
    BY <1>4, <2>1, <2>2, <2>3, <2>4 DEF QueriesInv, QuietSound
  <2>8. query.kind = "export" =>
              /\ {line.key : line \in query'.lines} = Looked' \cap Listed' \cap Full'
              /\ query'.skipped = (Looked' \cap Listed') \ Full'
    BY <1>4, <2>1, <2>2, <2>4 DEF QueriesInv, QuietSound
  <2> QED BY <1>1, <1>4, <1>5, <2>6, <2>7, <2>8 DEF QuietSound, Onward
<1> QED BY <1>5, <1>6, <1>7, <1>8, <1>9, <1>10, OnwardKeeps DEF QueriesInv

\* The next key: what was told of this one is right, and in its place.
LEMMA OnWithSound ==
  ASSUME QueriesInv, AtKey, UNCHANGED rowVars, NEW lines \in SUBSET Line, NEW skipped \in SUBSET CallKey,
         query' = OnWith(lines, skipped),
         query.kind = "export" =>
           \A line \in lines \ query.lines :
             /\ <<line.key, line.row>> \notin query.barred
             /\ line.row = line.tagsOf \/ <<line.key, line.row>> \in query.recorded
             /\ \/ line.whole = Part \/ line.key \in query.purged
                \/ line.whole = {"out"} /\ <<line.key, line.row>> \in query.filled,
         query.quiet /\ query.kind = "list" =>
           lines = query.lines \cup {LineOf(k) : k \in {query.key} \cap Listed},
         query.quiet /\ query.kind = "export" =>
           /\ {line.key : line \in lines} = {line.key : line \in query.lines} \cup ({query.key} \cap Listed \cap Full)
           /\ skipped = query.skipped \cup (({query.key} \cap Listed) \ Full)
  PROVE  QueriesInv'
<1>1. /\ query \in Question /\ query.key \in CallKey /\ query.kind \in {"list", "export"}
      /\ query.outcome = "none"
  BY DEF QueriesInv, QuestionStands, AtKey
<1>2. /\ query' \in Question /\ query'.at = "next" /\ query'.todo = query.todo
      /\ query'.lines = lines /\ query'.skipped = skipped /\ query'.outcome = "none" /\ query'.shown = query.shown
  <2>1. query' = [query EXCEPT !.at = "next", !.key = 0, !.row = 0, !.tagsOf = 0, !.tags = {}, !.parts = {},
                               !.whole = {}, !.lines = lines, !.skipped = skipped]
    BY DEF OnWith
  <2> DEFINE nothing == {}
             noRow == 0
  <2>2. /\ "next" \in QuestionAt /\ noRow \in CallKey \cup {0} /\ noRow \in 0..MaxRows
        /\ nothing \in SUBSET Label /\ nothing \in SUBSET Part
    BY QueryAssumption DEF QuestionAt
  <2> HIDE DEF nothing, noRow
  <2>4. query' = [query EXCEPT !.at = "next", !.key = noRow, !.row = noRow, !.tagsOf = noRow, !.tags = nothing,
                               !.parts = nothing, !.whole = nothing, !.lines = lines, !.skipped = skipped]
    BY <2>1 DEF nothing, noRow
  <2>3. query' \in Question
    <3> DEFINE first == [query EXCEPT !.at = "next", !.key = noRow, !.row = noRow, !.tagsOf = noRow]
               emptied == [first EXCEPT !.tags = nothing, !.parts = nothing, !.whole = nothing]
    <3>1. first \in Question BY <1>1, <2>2 DEF Question
    <3> HIDE DEF first
    <3>2. emptied \in Question BY <3>1, <2>2 DEF Question
    <3> HIDE DEF emptied
    <3>3. [emptied EXCEPT !.lines = lines, !.skipped = skipped] \in Question BY <3>2 DEF Question
    <3> QED BY <2>4, <3>3 DEF first, emptied
  <2> QED BY <1>1, <2>1, <2>3 DEF Question
<1>3. Onward
  <2>1. query' = [query EXCEPT !.at = "next", !.key = 0, !.row = 0, !.tagsOf = 0, !.tags = {}, !.parts = {},
                               !.whole = {}, !.lines = lines, !.skipped = skipped]
    BY DEF OnWith
  <2> QED BY <1>1, <1>2, <2>1 DEF Onward, Question
<1>4. QuestionStands' BY <1>1, <1>2, <1>3 DEF QueriesInv, QuestionStands, AtKey, Onward
<1>5. ExportSound' BY <1>2, <1>3 DEF QueriesInv, ExportSound, Onward, rowVars
<1>6. ExportHonoursTags' BY <1>2, <1>3 DEF QueriesInv, ExportHonoursTags, Exported, Onward
<1>7. ExportIsWhole' BY <1>2, <1>3 DEF QueriesInv, ExportIsWhole, Exported, Onward
<1>8. MatchSound' /\ ShownIsThere' BY <1>1, <1>2, <1>3 DEF MatchSound, ShownIsThere, Onward
<1>9. QuietSound'
  <2> SUFFICES ASSUME query.quiet PROVE QuietSound' BY <1>3 DEF QuietSound, Onward
  <2>1. Summaries' = Summaries /\ Listed' = Listed /\ Full' = Full
        /\ \A j \in CallKey : LineOf(j)' = LineOf(j)
    BY <1>3, OnwardKeeps
  <2>2. query.key \in Summaries \ query.todo /\ query.todo \subseteq Summaries
    BY <1>1 DEF QueriesInv, QuietSound
  <2>3. Looked' = Looked \cup {query.key} /\ Telling /\ Telling' /\ ~AtKey'
    <3>1. ~AtKey' /\ Telling /\ Telling' BY <1>2 DEF AtKey, Telling
    <3> QED BY <1>2, <2>1, <2>2, <3>1 DEF Looked
  <2>4. Looked \cup {query.key} \subseteq CallKey BY <1>1 DEF Looked, Summaries
  <2>5. ASSUME query.kind = "list" PROVE query'.lines = {LineOf(j)' : j \in Looked' \cap Listed'}
    <3>1. query.lines = {LineOf(j) : j \in Looked \cap Listed} BY <2>3, <2>5 DEF QueriesInv, QuietSound
    <3>2. query'.lines = {LineOf(j) : j \in (Looked \cup {query.key}) \cap Listed} BY <1>2, <2>5, <3>1
    <3> QED BY <2>1, <2>3, <2>4, <3>2
  <2>6. ASSUME query.kind = "export"
        PROVE /\ {line.key : line \in query'.lines} = Looked' \cap Listed' \cap Full'
              /\ query'.skipped = (Looked' \cap Listed') \ Full'
    <3>1. /\ {line.key : line \in query.lines} = Looked \cap Listed \cap Full
          /\ query.skipped = (Looked \cap Listed) \ Full
      BY <2>3, <2>6 DEF QueriesInv, QuietSound
    <3> HIDE DEF Looked, Listed, Full
    <3> QED BY <1>2, <2>1, <2>3, <2>6, <3>1
  <2>7. query'.todo \subseteq Summaries' BY <1>2, <2>1, <2>2
  <2> QED BY <1>1, <1>2, <1>3, <2>3, <2>5, <2>6, <2>7 DEF QuietSound, Onward
<1> QED BY <1>3, <1>4, <1>5, <1>6, <1>7, <1>8, <1>9, OnwardKeeps DEF QueriesInv

\* While an export stays at a key, only what it knows of that key can change.
Staying ==
  /\ Onward /\ query.kind = "export" /\ AtKey /\ AtKey' /\ query'.at # "tags"
  /\ query'.key = query.key /\ query'.todo = query.todo /\ query'.tagsOf = query.tagsOf
  /\ query'.lines = query.lines /\ query'.skipped = query.skipped /\ query'.outcome = "none"
  /\ query'.shown = query.shown

LEMMA StayingSound ==
  ASSUME QueriesInv, Staying, ExportSound',
         query'.at \in {"load", "blobs"} => query'.row \in 1..MaxRows,
         query.quiet =>
           /\ query.key \in Listed
           /\ query'.at \in {"load", "blobs"} => query'.row = newest[query.key]
           /\ query'.at = "blobs" => query.key \in Full
  PROVE  QueriesInv'
<1>1. /\ Onward /\ query.key \in CallKey /\ query'.kind = "export" /\ query' \in Question
      /\ query'.within = CallKey
  BY DEF Staying, Onward, QueriesInv, QuestionStands
<1>2. QuestionStands' BY <1>1 DEF QueriesInv, QuestionStands, AtKey, Staying
<1>3. ExportHonoursTags' /\ ExportIsWhole' BY <1>1, OnwardExport DEF Staying
<1>4. MatchSound' /\ ShownIsThere' BY <1>1 DEF MatchSound, ShownIsThere, AtKey, Staying
<1>5. QuietSound'
  <2> SUFFICES ASSUME query.quiet PROVE QuietSound' BY <1>1 DEF QuietSound, Onward
  <2>1. Summaries' = Summaries /\ Listed' = Listed /\ Full' = Full /\ newest' = newest BY <1>1, OnwardKeeps
  <2>2. query.key \in Summaries \ query.todo /\ query.todo \subseteq Summaries /\ query.tagsOf = newest[query.key]
    BY DEF QueriesInv, QuietSound, Staying
  <2>3. Looked' = Looked BY <2>1 DEF Looked, Staying
  <2>4. /\ {line.key : line \in query.lines} = Looked \cap Listed \cap Full
        /\ query.skipped = (Looked \cap Listed) \ Full
    BY DEF QueriesInv, QuietSound, Staying, Telling, AtKey
  <2>5. /\ {line.key : line \in query'.lines} = Looked' \cap Listed' \cap Full'
        /\ query'.skipped = (Looked' \cap Listed') \ Full'
    BY <2>1, <2>3, <2>4 DEF Staying
  <2>6. /\ query'.todo \subseteq Summaries' /\ query'.key \in Summaries' \ query'.todo
        /\ query'.tagsOf = newest'[query'.key] /\ query'.key \in Listed'
        /\ query'.at \in {"load", "blobs"} => query'.row = newest'[query'.key]
        /\ query'.at = "blobs" => query'.key \in Full'
        /\ query'.at \notin {"next", "over", "summaries", "tags"}
    BY <2>1, <2>2 DEF Staying, AtKey
  <2> QED BY <1>1, <2>5, <2>6 DEF QuietSound
<1> QED BY <1>1, <1>2, <1>3, <1>4, <1>5, OnwardKeeps DEF QueriesInv

\* A command that ends early tells nothing it has to answer for.
LEMMA EndSound ==
  ASSUME QueriesInv, UNCHANGED rowVars, query.kind # "none",
         NEW outcome \in {"none", "done", "ambiguous", "corrupt", "crashed"}, query' = EndsAs(outcome),
         outcome = "crashed" => \E k \in JsonInput : k \in query.purged \/ \E r \in query.filled : r[1] = k,
         outcome = "corrupt" => query.purged # {},
         query.kind # "stats",
         query.quiet /\ outcome = "done" =>
           /\ query.kind \in {"list", "export"} => query.at = "next" /\ query.todo = {}
           /\ query.kind \in {"inspect", "check"} => query.at = "matched" /\ query.found = {}
  PROVE  QueriesInv'
<1>1. query \in Question BY DEF QueriesInv, QuestionStands
<1>2. /\ query' \in Question /\ query'.at = "over" /\ query'.outcome = outcome /\ query'.todo = query.todo
      /\ query'.lines = query.lines /\ query'.skipped = query.skipped /\ query'.shown = query.shown
  BY <1>1 DEF EndsAs, Question, QuestionAt
<1>3. Onward BY <1>1, <1>2 DEF Onward, Question, EndsAs
<1>4. QuestionStands' BY <1>1, <1>2, <1>3 DEF QueriesInv, QuestionStands, AtKey, Onward
<1>5. ExportSound' /\ ExportHonoursTags' BY <1>2, <1>3, OnwardExport DEF AtKey
<1>6. ExportIsWhole' BY <1>2, <1>3 DEF QueriesInv, ExportIsWhole, Exported, Onward
<1>7. MatchSound' /\ ShownIsThere' BY <1>2, <1>3 DEF QueriesInv, MatchSound, ShownIsThere, Onward
<1>8. QuietSound'
  <2> SUFFICES ASSUME query.quiet PROVE QuietSound' BY <1>3 DEF QuietSound, Onward
  <2>1. Summaries' = Summaries /\ Listed' = Listed /\ Full' = Full
        /\ \A j \in CallKey : LineOf(j)' = LineOf(j)
    BY <1>3, OnwardKeeps
  <2>2. ~AtKey' /\ query'.kind = query.kind /\ query'.within = query.within BY <1>2, <1>3 DEF AtKey, Onward
  <2>3. ASSUME query.kind \in {"list", "export"} PROVE QuietSound'
    <3>1. query.todo \subseteq Summaries BY <2>3 DEF QueriesInv, QuietSound
    <3>2. CASE outcome # "done"
      BY <1>2, <2>1, <2>2, <2>3, <3>1, <3>2 DEF QuietSound, Telling
    <3>3. CASE outcome = "done"
      <4>1. query.at = "next" /\ query.todo = {} /\ Telling /\ ~AtKey BY <2>3, <3>3 DEF Telling, AtKey
      <4>2. Looked' = Looked BY <1>2, <2>1, <2>2, <4>1 DEF Looked
      <4>3. Looked \subseteq CallKey BY DEF Looked, Summaries
      <4>4. query.kind = "list" => query'.lines = {LineOf(j)' : j \in Looked' \cap Listed'}
        BY <1>2, <2>1, <4>1, <4>2, <4>3 DEF QueriesInv, QuietSound
      <4>5. query.kind = "export" =>
              /\ {line.key : line \in query'.lines} = Looked' \cap Listed' \cap Full'
              /\ query'.skipped = (Looked' \cap Listed') \ Full'
        BY <1>2, <2>1, <4>1, <4>2 DEF QueriesInv, QuietSound
      <4> QED BY <1>2, <2>1, <2>2, <2>3, <3>1, <4>1, <4>4, <4>5 DEF QuietSound
    <3> QED BY <3>2, <3>3
  <2>4. ASSUME query.kind \in {"inspect", "check"} PROVE QuietSound'
    BY <1>2, <2>1, <2>2, <2>4 DEF QueriesInv, QuietSound
  <2> QED BY <1>1, <2>3, <2>4 DEF Question
<1> QED BY <1>3, <1>4, <1>5, <1>6, <1>7, <1>8, OnwardKeeps DEF QueriesInv

LEMMA NoMoreSound ==
  ASSUME QueriesInv, NoMoreSummaries
  PROVE  QueriesInv'
<1>1. query.at = "next" /\ query.todo = {} /\ UNCHANGED rowVars /\ query' = EndsAs("done")
  BY DEF NoMoreSummaries, Becomes
<1>2. query.kind \in {"list", "export"} BY <1>1 DEF QueriesInv, QuestionStands
<1> QED BY <1>1, <1>2, EndSound

\* A key passes when its execution has the tags asked for.
LEMMA PassesOrNot ==
  ASSUME QueriesInv, NEW k \in Summaries
  PROVE  Passes(labels[CurrentRow(k)]) <=> Tagged(k)
BY DEF Passes, Tagged

LEMMA TagsForSound ==
  ASSUME QueriesInv, TagsFor
  PROVE  QueriesInv'
<1> DEFINE tags == IF query.tagsOf = 0 THEN {} ELSE labels[<<query.key, query.tagsOf>>]
           line == [key |-> query.key, tags |-> tags, tagsOf |-> query.tagsOf, row |-> 0, whole |-> {}]
           out == ~Passes(tags) \/ query.key \notin query.within
<1>1. /\ query.at = "tags" /\ UNCHANGED rowVars
      /\ query' = IF out THEN OnWith(query.lines, query.skipped)
                  ELSE IF query.kind = "export" THEN [query EXCEPT !.at = "find", !.tags = tags]
                  ELSE OnWith(query.lines \cup {line}, query.skipped)
  BY DEF TagsFor, Becomes
<1>2. /\ query \in Question /\ query.kind \in {"list", "export"} /\ AtKey /\ query.key \in CallKey
      /\ query.outcome = "none" /\ query.tagsOf \in 0..MaxRows /\ MaxRows \in Nat /\ query.lines \in SUBSET Line
      /\ query.skipped \in SUBSET CallKey
  BY <1>1, QueryAssumption DEF QueriesInv, QuestionStands, AtKey, Question
<1>3. tags \in SUBSET Label
  <2>1. query.tagsOf # 0 => <<query.key, query.tagsOf>> \in Row BY <1>2 DEF Row
  <2> QED BY <2>1 DEF QueriesInv, QueriesTypeOK
<1>4. line \in Line BY <1>2, <1>3 DEF Line
<1>5. query.quiet => /\ query.key \in Summaries \ query.todo /\ query.tagsOf = newest[query.key]
                     /\ tags = labels[CurrentRow(query.key)] /\ line = LineOf(query.key)
  <2> SUFFICES ASSUME query.quiet
      PROVE /\ query.key \in Summaries \ query.todo /\ query.tagsOf = newest[query.key]
            /\ tags = labels[CurrentRow(query.key)] /\ line = LineOf(query.key)
    OBVIOUS
  <2>1. query.key \in Summaries \ query.todo /\ query.tagsOf = newest[query.key]
    BY <1>2 DEF QueriesInv, QuietSound
  <2>2. query.tagsOf # 0 BY <1>2, <2>1 DEF Summaries, Shown
  <2>3. tags = labels[CurrentRow(query.key)] BY <2>1, <2>2 DEF CurrentRow
  <2> QED BY <2>1, <2>3 DEF LineOf
<1>6. ASSUME query.quiet
      PROVE  /\ query.kind = "list" => (out <=> query.key \notin Listed)
             /\ query.kind = "export" => (query.key \in Listed <=> Passes(tags))
  <2>1. Passes(tags) <=> Tagged(query.key) BY <1>5, <1>6, PassesOrNot
  <2> HIDE DEF tags
  <2> QED BY <1>2, <1>5, <1>6, <2>1 DEF Listed
<1>7. query.kind = "export" => query.within = CallKey BY DEF QueriesInv, QuestionStands
<1> HIDE DEF tags, line
<1>8. CASE out
  <2>1. query' = OnWith(query.lines, query.skipped) BY <1>1, <1>8
  <2>2. query.quiet => query.key \notin Listed BY <1>2, <1>6, <1>7, <1>8
  <2>3. query.quiet /\ query.kind = "list" =>
          query.lines = query.lines \cup {LineOf(k) : k \in {query.key} \cap Listed}
    BY <2>2
  <2>4. query.quiet /\ query.kind = "export" =>
          /\ {l.key : l \in query.lines} =
               {l.key : l \in query.lines} \cup ({query.key} \cap Listed \cap Full)
          /\ query.skipped = query.skipped \cup (({query.key} \cap Listed) \ Full)
    BY <2>2
  <2> QED BY <1>1, <1>2, <2>1, <2>3, <2>4, OnWithSound
<1>9. CASE ~out /\ query.kind # "export"
  <2>1. query' = OnWith(query.lines \cup {line}, query.skipped) BY <1>1, <1>9
  <2>2. query.kind = "list" BY <1>2, <1>9
  <2>3. query.quiet => query.key \in Listed BY <1>6, <1>9, <2>2
  <2>4. query.quiet => query.lines \cup {line} = query.lines \cup {LineOf(k) : k \in {query.key} \cap Listed}
    BY <1>5, <2>3
  <2>5. query.lines \cup {line} \in SUBSET Line BY <1>2, <1>4
  <2> HIDE DEF out
  <2> QED BY <1>1, <1>2, <2>1, <2>2, <2>4, <2>5, OnWithSound
<1>10. CASE ~out /\ query.kind = "export"
  <2>1. query' = [query EXCEPT !.at = "find", !.tags = tags] BY <1>1, <1>10
  <2>2. /\ query' \in Question /\ query'.at = "find" /\ query'.key = query.key /\ query'.todo = query.todo
        /\ query'.tagsOf = query.tagsOf /\ query'.lines = query.lines /\ query'.skipped = query.skipped
        /\ query'.outcome = "none" /\ query'.shown = query.shown
    BY <1>2, <1>3, <2>1 DEF Question, QuestionAt
  <2>3. Onward BY <1>1, <1>2, <2>1, <2>2 DEF Onward, Question
  <2>4. Staying BY <1>2, <1>10, <2>2, <2>3 DEF Staying, AtKey
  <2>5. <<query.key, query.tagsOf>> \notin query.barred \/ newest[query.key] # query.tagsOf
    <3> SUFFICES ASSUME <<query.key, query.tagsOf>> \in query.barred, newest[query.key] = query.tagsOf
        PROVE FALSE
      OBVIOUS
    <3>1. labels[<<query.key, query.tagsOf>>] \cap query.exclude # {}
      BY <1>10 DEF QueriesInv, ExportSound
    <3>2. query.tagsOf # 0 BY <1>2 DEF Question, Row
    <3> QED BY <1>10, <3>1, <3>2 DEF tags, out, Passes
  <2>6. ExportSound'
    <3>1. newest[query.key] \in {0, query.tagsOf} \/ CurrentRow(query.key) \in query.recorded
      BY <1>1, <1>10 DEF QueriesInv, ExportSound
    <3>2. newest' = newest /\ CurrentRow(query.key)' = CurrentRow(query.key)
      BY <1>1, <2>2 DEF rowVars, CurrentRow
    <3> HIDE DEF out
    <3> QED BY <1>10, <2>2, <2>3, <2>5, <3>1, <3>2, OnwardExport DEF ExportSound, Onward
  <2>7. query.quiet => query.key \in Listed BY <1>6, <1>10
  <2> HIDE DEF out
  <2> QED BY <2>2, <2>4, <2>6, <2>7, StayingSound
<1> QED BY <1>8, <1>9, <1>10

\* What has no input, or is gone, is skipped.
LEMMA SkipSound ==
  ASSUME QueriesInv, query.kind = "export", AtKey, UNCHANGED rowVars, query' = Skip,
         query.quiet => query.key \in Listed \ Full
  PROVE  QueriesInv'
<1> DEFINE skipped == query.skipped \cup {query.key}
<1>1. query.lines \in SUBSET Line /\ skipped \in SUBSET CallKey
  BY DEF QueriesInv, QuestionStands, Question, AtKey
<1>2. query' = OnWith(query.lines, skipped) BY DEF Skip
<1>3. query.quiet =>
          /\ {l.key : l \in query.lines} = {l.key : l \in query.lines} \cup ({query.key} \cap Listed \cap Full)
          /\ skipped = query.skipped \cup (({query.key} \cap Listed) \ Full)
  OBVIOUS
<1> HIDE DEF skipped
<1> QED BY <1>1, <1>2, <1>3, OnWithSound

LEMMA FindRowSound ==
  ASSUME QueriesInv, FindRow
  PROVE  QueriesInv'
<1> DEFINE row == newest[query.key]
<1>1. /\ query.at = "find" /\ UNCHANGED rowVars
      /\ query' = IF Shown(query.key) THEN [query EXCEPT !.at = "load", !.row = row] ELSE Skip
  BY DEF FindRow, Becomes
<1>2. /\ query \in Question /\ query.kind = "export" /\ AtKey /\ query.key \in CallKey
      /\ query.outcome = "none" /\ row \in 0..MaxRows /\ MaxRows \in Nat
  BY <1>1, QueryAssumption DEF QueriesInv, QuestionStands, AtKey, QueriesTypeOK
<1>3. query.quiet => query.key \in Listed /\ query.key \in Summaries
  BY <1>1, <1>2 DEF QueriesInv, QuietSound
<1>4. CASE ~Shown(query.key)
  <2>1. ~query.quiet BY <1>3, <1>4 DEF Summaries
  <2> QED BY <1>1, <1>2, <1>4, <2>1, SkipSound
<1>5. CASE Shown(query.key)
  <2>1. query' = [query EXCEPT !.at = "load", !.row = row] BY <1>1, <1>5
  <2>2. /\ query' \in Question /\ query'.at = "load" /\ query'.key = query.key /\ query'.todo = query.todo
        /\ query'.tagsOf = query.tagsOf /\ query'.lines = query.lines /\ query'.skipped = query.skipped
        /\ query'.outcome = "none" /\ query'.shown = query.shown /\ query'.row = row
    BY <1>2, <2>1 DEF Question, QuestionAt
  <2>3. Onward BY <1>1, <1>2, <2>1, <2>2 DEF Onward, Question
  <2>4. Staying BY <1>2, <2>2, <2>3 DEF Staying, AtKey
  <2>5. row # 0 /\ row \in 1..MaxRows BY <1>2, <1>5 DEF Shown
  <2>6. row = query.tagsOf \/ <<query.key, row>> \in query.recorded
    BY <1>1, <1>2, <2>5 DEF QueriesInv, ExportSound, CurrentRow
  <2>7. <<query.key, row>> \notin query.barred
    <3>1. <<query.key, query.tagsOf>> \notin query.barred \/ row # query.tagsOf
      BY <1>1, <1>2 DEF QueriesInv, ExportSound
    <3>2. query.barred \cap query.recorded = {} BY <1>2 DEF QueriesInv, ExportSound
    <3> QED BY <2>6, <3>1, <3>2
  <2>8. query.key \in identified' /\ <<<<query.key, row>>, "out">> \in documents'
    BY <1>1, <1>2, <1>5 DEF QueriesInv, RowsSound, CurrentRow, rowVars
  <2>9. ExportSound'
    BY <1>2, <2>2, <2>3, <2>6, <2>7, <2>8, OnwardExport DEF ExportSound, Onward
  <2> QED BY <1>3, <2>2, <2>4, <2>5, <2>9, StayingSound
<1> QED BY <1>4, <1>5

LEMMA LoadRowSound ==
  ASSUME QueriesInv, LoadRow
  PROVE  QueriesInv'
<1> DEFINE row == <<query.key, query.row>>
           parts == PartsOf(row)
<1>1. /\ query.at = "load" /\ UNCHANGED rowVars
      /\ query' = IF query.key \notin identified THEN EndsAs("corrupt")
                  ELSE IF "in" \notin parts THEN Skip
                  ELSE [query EXCEPT !.at = "blobs", !.parts = parts, !.whole = {}]
  BY DEF LoadRow, Becomes
<1>2. /\ query \in Question /\ query.kind = "export" /\ AtKey /\ query.key \in CallKey
      /\ query.outcome = "none" /\ query.row \in 1..MaxRows
  BY <1>1 DEF QueriesInv, QuestionStands, AtKey
<1>3. query.quiet => /\ query.key \in Listed /\ query.key \in Summaries /\ row = CurrentRow(query.key)
                     /\ query.key \in identified
  BY <1>1, <1>2 DEF QueriesInv, QuietSound, CurrentRow, RowsSound, Summaries
<1>4. "in" \in parts <=> <<row, "in">> \in documents BY DEF PartsOf, Part
<1>5. parts \in SUBSET Part BY DEF PartsOf
<1>6. CASE query.key \notin identified
  <2>1. query.key \in query.purged BY <1>1, <1>2, <1>6 DEF QueriesInv, ExportSound
  <2> QED BY <1>1, <1>2, <1>3, <1>6, <2>1, EndSound
<1>7. CASE query.key \in identified /\ "in" \notin parts
  <2>1. query.quiet => query.key \in Listed \ Full BY <1>3, <1>4, <1>7 DEF Full
  <2> QED BY <1>1, <1>2, <1>7, <2>1, SkipSound
<1>8. CASE query.key \in identified /\ "in" \in parts
  <2> HIDE DEF parts
  <2>1. query' = [query EXCEPT !.at = "blobs", !.parts = parts, !.whole = {}] BY <1>1, <1>8
  <2>2. /\ query' \in Question /\ query'.at = "blobs" /\ query'.key = query.key /\ query'.todo = query.todo
        /\ query'.tagsOf = query.tagsOf /\ query'.lines = query.lines /\ query'.skipped = query.skipped
        /\ query'.outcome = "none" /\ query'.shown = query.shown /\ query'.row = query.row
        /\ query'.parts = parts /\ query'.whole = {}
    BY <1>2, <1>5, <2>1 DEF Question, QuestionAt
  <2>3. Onward BY <1>1, <1>2, <2>1, <2>2 DEF Onward, Question
  <2>4. Staying BY <1>2, <2>2, <2>3 DEF Staying, AtKey
  <2>5. \/ query.key \in query.purged
        \/ (\A p \in Part : <<row, p>> \in documents') /\ Part \ parts = {}
    <3> SUFFICES ASSUME query.key \notin query.purged
                 PROVE  (\A p \in Part : <<row, p>> \in documents) /\ Part \ parts = {}
      <4>1. documents' = documents BY <1>1 DEF rowVars
      <4> QED BY <4>1
    <3>1. <<row, "out">> \in documents BY <1>1, <1>2 DEF QueriesInv, ExportSound
    <3> QED BY <1>4, <1>8, <3>1 DEF Part, parts, PartsOf
  <2>6. /\ row \notin query.barred
        /\ query.row = query.tagsOf \/ row \in query.recorded
    BY <1>1, <1>2 DEF QueriesInv, ExportSound
  <2>7. ExportSound'
    BY <1>2, <2>2, <2>3, <2>5, <2>6, OnwardExport DEF ExportSound, Onward
  <2>8. query.quiet => query.key \in Full BY <1>3, <1>4, <1>8 DEF Full
  <2> QED BY <1>2, <1>3, <2>2, <2>4, <2>7, <2>8, StayingSound DEF CurrentRow
<1> QED BY <1>6, <1>7, <1>8

LEMMA ReadPartSound ==
  ASSUME QueriesInv, NEW part \in Part, ReadPart(part)
  PROVE  QueriesInv'
<1> DEFINE row == <<query.key, query.row>>
           there == <<row, part>> \in files
           parts == query.parts \ {part}
           whole == IF there THEN query.whole \cup {part} ELSE query.whole
<1>1. /\ query.at = "blobs" /\ part \in query.parts /\ UNCHANGED rowVars
      /\ query' = IF ~there /\ part = "in" /\ query.key \in JsonInput THEN EndsAs("crashed")
                  ELSE [query EXCEPT !.parts = parts, !.whole = whole]
  BY DEF ReadPart, Becomes
<1>2. /\ query \in Question /\ query.kind = "export" /\ AtKey /\ query.key \in CallKey
      /\ query.outcome = "none" /\ query.row \in 1..MaxRows /\ query.parts \in SUBSET Part
      /\ query.whole \in SUBSET Part
  BY <1>1 DEF QueriesInv, QuestionStands, AtKey, Question
<1>3. query.quiet => query.key \in Listed \cap Full /\ query.row = newest[query.key]
  BY <1>1, <1>2 DEF QueriesInv, QuietSound
<1>4. \/ query.key \in query.purged
      \/ /\ \A p \in Part : <<row, p>> \in documents
         /\ \A p \in Part \ query.parts :
              p \in query.whole \/ (p = "in" /\ row \in query.filled)
  BY <1>1, <1>2 DEF QueriesInv, ExportSound
<1>5. query.key \in query.purged \/ there \/ (part = "in" /\ row \in query.filled)
  BY <1>4 DEF QueriesInv, FilesSound
<1>6. CASE ~there /\ part = "in" /\ query.key \in JsonInput
  <2>1. \E k \in JsonInput : k \in query.purged \/ \E r \in query.filled : r[1] = k BY <1>5, <1>6
  <2> QED BY <1>1, <1>2, <1>6, <2>1, EndSound
<1>7. CASE ~(~there /\ part = "in" /\ query.key \in JsonInput)
  <2>1. parts \in SUBSET Part /\ whole \in SUBSET Part BY <1>2
  <2>2. query' = [query EXCEPT !.parts = parts, !.whole = whole] BY <1>1, <1>7
  <2>3. query.key \in query.purged \/
          \A p \in Part \ parts : p \in whole \/ (p = "in" /\ row \in query.filled)
    BY <1>4, <1>5
  <2> HIDE DEF parts, whole
  <2>4. /\ query' \in Question /\ query'.at = "blobs" /\ query'.key = query.key /\ query'.todo = query.todo
        /\ query'.tagsOf = query.tagsOf /\ query'.lines = query.lines /\ query'.skipped = query.skipped
        /\ query'.outcome = "none" /\ query'.shown = query.shown /\ query'.row = query.row
        /\ query'.parts = parts /\ query'.whole = whole
    BY <1>1, <1>2, <2>1, <2>2 DEF Question
  <2>5. Onward BY <1>1, <1>2, <2>2, <2>4 DEF Onward, Question
  <2>6. Staying BY <1>2, <2>4, <2>5 DEF Staying, AtKey
  <2>7. /\ row \notin query.barred
        /\ query.row = query.tagsOf \/ row \in query.recorded
    BY <1>1, <1>2 DEF QueriesInv, ExportSound
  <2>8. documents' = documents BY <1>1 DEF rowVars
  <2>9. ExportSound'
    BY <1>2, <1>4, <2>3, <2>4, <2>5, <2>7, <2>8, OnwardExport DEF ExportSound, Onward
  <2> QED BY <1>2, <1>3, <2>4, <2>6, <2>9, StayingSound
<1> QED BY <1>6, <1>7

LEMMA ExportLineSound ==
  ASSUME QueriesInv, ExportLine
  PROVE  QueriesInv'
<1> DEFINE row == <<query.key, query.row>>
           lines == query.lines \cup {CompleteLine}
<1>1. query.at = "blobs" /\ query.parts = {} /\ UNCHANGED rowVars /\ query' = OnWith(lines, query.skipped)
  BY DEF ExportLine, Becomes
<1>2. /\ query \in Question /\ query.kind = "export" /\ AtKey /\ query.key \in CallKey
      /\ query.row \in 1..MaxRows /\ MaxRows \in Nat /\ query.lines \in SUBSET Line /\ query.whole \in SUBSET Part
      /\ query.skipped \in SUBSET CallKey /\ query.tags \in SUBSET Label /\ query.tagsOf \in 0..MaxRows
  BY <1>1, QueryAssumption DEF QueriesInv, QuestionStands, AtKey, Question
<1>3. CompleteLine \in Line /\ CompleteLine.key = query.key /\ CompleteLine.row = query.row
      /\ CompleteLine.whole = query.whole /\ CompleteLine.tagsOf = query.tagsOf
  BY <1>2 DEF CompleteLine, Line
<1>4. /\ row \notin query.barred
      /\ query.row = query.tagsOf \/ row \in query.recorded
  BY <1>1, <1>2 DEF QueriesInv, ExportSound
<1>5. \/ query.whole = Part \/ query.key \in query.purged
      \/ query.whole = {"out"} /\ row \in query.filled
  <2>1. query.key \in query.purged \/
          \A p \in Part : p \in query.whole \/ (p = "in" /\ row \in query.filled)
    BY <1>1, <1>2 DEF QueriesInv, ExportSound
  <2> QED BY <1>2, <2>1 DEF Part
<1>6. query.quiet => query.key \in Listed /\ query.key \in Full BY <1>1, <1>2 DEF QueriesInv, QuietSound
<1>7. lines \in SUBSET Line BY <1>2, <1>3
<1>8. {line.key : line \in lines} = {line.key : line \in query.lines} \cup {query.key} BY <1>3
<1>9. \A line \in lines \ query.lines :
        /\ <<line.key, line.row>> \notin query.barred
        /\ line.row = line.tagsOf \/ <<line.key, line.row>> \in query.recorded
        /\ \/ line.whole = Part \/ line.key \in query.purged
           \/ line.whole = {"out"} /\ <<line.key, line.row>> \in query.filled
  BY <1>3, <1>4, <1>5
<1> HIDE DEF lines
<1> QED BY <1>1, <1>2, <1>6, <1>7, <1>8, <1>9, OnWithSound

LEMMA MatchSteps ==
  ASSUME QueriesInv, Match
  PROVE  QueriesInv'
<1> DEFINE asked == {k \in query.within : Shown(k)}
           rowsSeen == {CurrentRow(k) : k \in asked}
<1>1. /\ query.at = "match" /\ UNCHANGED rowVars
      /\ query' = [query EXCEPT !.at = "matched", !.found = rowsSeen, !.todo = asked]
  BY DEF Match, Becomes
<1>2. /\ query \in Question /\ query.kind \in {"inspect", "check"} /\ query.outcome = "none"
      /\ query.within \subseteq CallKey
  BY <1>1 DEF QueriesInv, QuestionStands, Question
<1>3. asked = Summaries \cap query.within BY <1>2 DEF Summaries
<1>4. rowsSeen \in SUBSET Row /\ asked \in SUBSET CallKey
  <2>1. \A k \in asked : newest[k] \in 1..MaxRows
    BY <1>2, QueryAssumption DEF QueriesInv, QueriesTypeOK, Shown
  <2> QED BY <1>2, <2>1 DEF CurrentRow, Row
<1>5. ASSUME NEW r \in rowsSeen PROVE r[1] \in asked /\ r[1] \in identified
  <2>1. PICK k \in asked : r = CurrentRow(k) OBVIOUS
  <2>2. k \in CallKey /\ Shown(k) BY <1>2
  <2>3. r[1] = k BY <2>1 DEF CurrentRow
  <2> QED BY <2>2, <2>3 DEF QueriesInv, RowsSound
<1>6. asked \subseteq {r[1] : r \in rowsSeen}
  <2> SUFFICES ASSUME NEW k \in asked PROVE k \in {r[1] : r \in rowsSeen} OBVIOUS
  <2>1. CurrentRow(k) \in rowsSeen /\ CurrentRow(k)[1] = k BY DEF CurrentRow
  <2> QED BY <2>1
<1> HIDE DEF rowsSeen, asked
<1>7. /\ query' \in Question /\ query'.at = "matched" /\ query'.found = rowsSeen
      /\ query'.lines = query.lines /\ query'.outcome = "none" /\ query'.shown = query.shown
  BY <1>1, <1>2, <1>4 DEF Question, QuestionAt
<1>8. Onward BY <1>1, <1>2, <1>7 DEF Onward, Question
<1>9. QuestionStands' BY <1>2, <1>7, <1>8 DEF QueriesInv, QuestionStands, AtKey, Onward
<1>10. ExportSound' /\ ExportHonoursTags' /\ ExportIsWhole' BY <1>7, <1>8, OnwardExport DEF AtKey
<1>11. MatchSound' BY <1>5, <1>7, <1>8 DEF MatchSound, Onward, rowVars
<1>12. ShownIsThere' BY <1>7, <1>8 DEF QueriesInv, ShownIsThere, Onward
<1>13. QuietSound'
  <2> SUFFICES ASSUME query.quiet PROVE QuietSound' BY <1>8 DEF QuietSound, Onward
  <2>1. Summaries' = Summaries /\ \A k \in CallKey : CurrentRow(k)' = CurrentRow(k) BY <1>8, OnwardKeeps
  <2>2. query.shown = {} BY <1>1, <1>2 DEF QueriesInv, QuietSound
  <2>3. query'.found = {CurrentRow(k)' : k \in Summaries' \cap query'.within}
    BY <1>3, <1>7, <1>8, <2>1 DEF rowsSeen, Onward, Summaries
  <2>4. {doc.row[1] : doc \in query'.shown} = (Summaries' \cap query'.within) \ {r[1] : r \in query'.found}
    BY <1>3, <1>6, <1>7, <1>8, <2>1, <2>2 DEF Onward
  <2> QED BY <1>2, <1>7, <1>8, <2>3, <2>4 DEF QuietSound, Onward
<1> QED BY <1>8, <1>9, <1>10, <1>11, <1>12, <1>13, OnwardKeeps DEF QueriesInv

LEMMA LoadMatchSound ==
  ASSUME QueriesInv, NEW row \in query.found, LoadMatch(row)
  PROVE  QueriesInv'
<1> DEFINE rowsSeen == query.found \ {row}
           Doc(p) == [row |-> row, part |-> p, intact |-> <<row, p>> \in intact, there |-> <<row, p>> \in files]
           shown == query.shown \cup {Doc(p) : p \in PartsOf(row)}
<1>1. /\ query.at = "matched" /\ UNCHANGED rowVars
      /\ query' = IF row[1] \notin identified THEN EndsAs("corrupt")
                  ELSE [query EXCEPT !.found = rowsSeen, !.shown = shown]
  BY DEF LoadMatch, Becomes
<1>2. /\ query \in Question /\ query.kind \in {"inspect", "check"} /\ query.outcome = "none"
      /\ query.shown \subseteq ShownDoc /\ row \in Row /\ row[1] \in CallKey
  BY <1>1 DEF QueriesInv, QuestionStands, Question, Row
<1>3. CASE row[1] \notin identified
  <2>1. row[1] \in query.purged BY <1>1, <1>3 DEF QueriesInv, MatchSound
  <2> QED BY <1>1, <1>2, <1>3, <2>1, EndSound
<1>4. CASE row[1] \in identified
  <2>1. \A p \in PartsOf(row) : Doc(p) \in ShownDoc /\ Doc(p).row = row /\ (Doc(p).intact => Doc(p).there)
    <3> SUFFICES ASSUME NEW p \in PartsOf(row)
        PROVE  Doc(p) \in ShownDoc /\ Doc(p).row = row /\ (Doc(p).intact => Doc(p).there)
      OBVIOUS
    <3> DEFINE kept == <<row, p>> \in intact
               there == <<row, p>> \in files
    <3>1. p \in Part /\ kept \in BOOLEAN /\ there \in BOOLEAN /\ (kept => there)
      BY DEF PartsOf, QueriesInv, FilesSound
    <3>2. Doc(p) = [row |-> row, part |-> p, intact |-> kept, there |-> there] OBVIOUS
    <3> HIDE DEF kept, there, Doc
    <3> QED BY <1>2, <3>1, <3>2 DEF ShownDoc
  <2>2. shown \in SUBSET ShownDoc /\ shown \in SUBSET (CallKey \cup ShownDoc) /\ rowsSeen \in SUBSET Row
    <3>1. query.found \in SUBSET Row BY <1>2 DEF Question
    <3>2. {Doc(p) : p \in PartsOf(row)} \subseteq ShownDoc BY <2>1
    <3> HIDE DEF Doc
    <3> QED BY <1>2, <3>1, <3>2
  <2>3. \A doc \in shown : doc \in query.shown \/ (doc.row = row /\ (doc.intact => doc.there)) BY <2>1
  <2>4. PartsOf(row) # {} => row[1] \in {doc.row[1] : doc \in shown}
    <3> SUFFICES ASSUME NEW p \in PartsOf(row) PROVE row[1] \in {doc.row[1] : doc \in shown} OBVIOUS
    <3>1. Doc(p) \in shown /\ Doc(p).row = row OBVIOUS
    <3> QED BY <3>1
  <2>5. query.shown \subseteq shown OBVIOUS
  <2>6. query' = [query EXCEPT !.found = rowsSeen, !.shown = shown] BY <1>1, <1>4
  <2> HIDE DEF shown
  <2>7. /\ query' \in Question /\ query'.at = "matched" /\ query'.found = rowsSeen
        /\ query'.lines = query.lines /\ query'.outcome = "none" /\ query'.shown = shown
    BY <1>1, <1>2, <2>2, <2>6 DEF Question
  <2>8. Onward BY <1>1, <1>2, <2>6, <2>7 DEF Onward, Question
  <2>9. QuestionStands' BY <1>2, <2>2, <2>7, <2>8 DEF QueriesInv, QuestionStands, AtKey, Onward
  <2>10. ExportSound' /\ ExportHonoursTags' /\ ExportIsWhole' BY <2>7, <2>8, OnwardExport DEF AtKey
  <2>11. MatchSound' BY <1>1, <2>7, <2>8 DEF QueriesInv, MatchSound, Onward, rowVars
  <2>12. ShownIsThere' BY <2>3, <2>7, <2>8 DEF QueriesInv, ShownIsThere, Onward
  <2>13. QuietSound'
    <3> SUFFICES ASSUME query.quiet PROVE QuietSound' BY <2>8 DEF QuietSound, Onward
    <3> DEFINE asked == Summaries \cap query.within
    <3>1. Summaries' = Summaries /\ \A k \in CallKey : CurrentRow(k)' = CurrentRow(k) BY <2>8, OnwardKeeps
    <3>2. query.found \subseteq {CurrentRow(k) : k \in asked}
          /\ {doc.row[1] : doc \in query.shown} = asked \ {r[1] : r \in query.found}
      BY <1>1, <1>2 DEF QueriesInv, QuietSound
    <3>3. PICK k \in asked : row = CurrentRow(k) BY <3>2
    <3>4. row[1] = k BY <3>3 DEF CurrentRow
    <3>5. PartsOf(row) # {}
      BY <3>3 DEF PartsOf, Part, QueriesInv, RowsSound, Summaries
    <3>6. \A r \in query.found : r[1] = k => r = row
      BY <3>2, <3>3 DEF CurrentRow
    <3>7. {doc.row[1] : doc \in shown} = {doc.row[1] : doc \in query.shown} \cup {k}
      BY <2>3, <2>4, <2>5, <3>4, <3>5
    <3>8. {r[1] : r \in rowsSeen} = {r[1] : r \in query.found} \ {k} BY <3>4, <3>6
    <3>9. k \in {r[1] : r \in query.found} BY <3>4
    <3>10. {doc.row[1] : doc \in shown} = asked \ {r[1] : r \in rowsSeen} BY <3>2, <3>7, <3>8, <3>9
    <3>11. rowsSeen \subseteq {CurrentRow(j)' : j \in asked} BY <3>1, <3>2 DEF Summaries
    <3> QED BY <1>2, <2>7, <2>8, <3>1, <3>10, <3>11 DEF QuietSound, Onward
  <2> QED BY <2>8, <2>9, <2>10, <2>11, <2>12, <2>13, OnwardKeeps DEF QueriesInv
<1> QED BY <1>3, <1>4

LEMMA ShowMatchSound ==
  ASSUME QueriesInv, ShowMatch
  PROVE  QueriesInv'
<1> DEFINE outcome == CASE query.todo = {} -> "none" [] Cardinality(query.todo) > 1 -> "ambiguous" [] OTHER -> "done"
<1>1. query.at = "matched" /\ query.found = {} /\ UNCHANGED rowVars /\ query' = EndsAs(outcome)
  BY DEF ShowMatch, Becomes
<1>2. query.kind \in {"inspect", "check"} BY <1>1 DEF QueriesInv, QuestionStands
<1>3. outcome \in {"none", "ambiguous", "done"} OBVIOUS
<1> HIDE DEF outcome
<1> QED BY <1>1, <1>2, <1>3, EndSound

-----------------------------------------------------------------------------

LEMMA QueriesBegin == QueriesInit => QueriesInv
<1> SUFFICES ASSUME QueriesInit PROVE QueriesInv OBVIOUS
<1>1. CallKey \ JsonInput \subseteq CallKey /\ MaxRows \in Nat \ {0} /\ MaxChanges \in Nat /\ JsonInput \subseteq CallKey
  BY QueryAssumption
<1>2. Stocked \subseteq Row /\ \A r \in Stocked : r[1] \in CallKey \ JsonInput /\ r[2] = 1
  BY <1>1 DEF Stocked, Row
<1>3. \A k \in CallKey \ JsonInput : <<k, 1>> \in Stocked BY DEF Stocked
<1>4. /\ made = [k \in CallKey |-> IF k \in JsonInput THEN 0 ELSE 1] /\ newest = made
      /\ identified = CallKey \ JsonInput /\ labels = [r \in Row |-> IF r \in Stocked THEN {"keep"} ELSE {}]
      /\ documents \in {Stocked \X {"out"}, Stocked \X Part} /\ intact = documents /\ files = documents
      /\ keyLock = [k \in CallKey |-> "free"] /\ changes = 0 /\ query = NoQuery
  BY DEF QueriesInit
<1>5. NoQuery \in Question BY QueryAssumption DEF NoQuery, Question, QuestionAt
<1>6. query.kind = "none" /\ query.at = "over" /\ query.outcome = "none" /\ query.lines = {} /\ query.within = CallKey
  BY <1>4 DEF NoQuery
<1>7. query \in Question BY <1>4, <1>5
<1>8. QueriesTypeOK
  <2>1. documents \subseteq Row \X Part BY <1>2, <1>4 DEF Part
  <2>2. labels \in [Row -> SUBSET Label] BY <1>4 DEF Label
  <2>3. newest \in [CallKey -> 0..MaxRows] /\ made \in [CallKey -> 0..MaxRows] BY <1>1, <1>4
  <2>4. keyLock \in [CallKey -> {"free", "put", "mark", "purge"}] /\ changes \in 0..MaxChanges BY <1>1, <1>4
  <2> QED BY <1>1, <1>4, <1>6, <2>1, <2>2, <2>3, <2>4 DEF QueriesTypeOK
<1>9. QuestionStands BY <1>6, <1>7 DEF QuestionStands, AtKey
<1>10. RowsSound
  <2>1. \A k \in CallKey : Shown(k) => k \in CallKey \ JsonInput /\ CurrentRow(k) = <<k, 1>>
    BY <1>4 DEF Shown, CurrentRow
  <2>2. \A k \in CallKey : Shown(k) => k \in identified /\ <<CurrentRow(k), "out">> \in documents
    BY <1>3, <1>4, <2>1 DEF Part
  <2>3. \A r \in Row : labels[r] # {} => r[2] <= made[r[1]] BY <1>2, <1>4 DEF Row
  <2> QED BY <1>4, <2>2, <2>3 DEF RowsSound
<1>11. FilesSound BY <1>4 DEF FilesSound
<1>12. LocksSound BY <1>4 DEF LocksSound
<1>13. ExportSound /\ MatchSound /\ QuietSound BY <1>6 DEF ExportSound, MatchSound, QuietSound
<1>14. ExportHonoursTags /\ ExportIsWhole /\ ShownIsThere
  BY <1>6 DEF ExportHonoursTags, ExportIsWhole, ShownIsThere, Exported
<1> QED BY <1>8, <1>9, <1>10, <1>11, <1>12, <1>13, <1>14 DEF QueriesInv

LEMMA QueriesStep == QueriesInv /\ [QueriesNext]_queryVars => QueriesInv'
<1> SUFFICES ASSUME QueriesInv, [QueriesNext]_queryVars PROVE QueriesInv' OBVIOUS
<1>1. ASSUME NEW k \in CallKey, RecordRow(k) PROVE QueriesInv' BY <1>1, RecordRowSound
<1>2. ASSUME NEW k \in CallKey, FillRow(k) PROVE QueriesInv' BY <1>2, FillRowSound
<1>3. ASSUME NEW k \in CallKey, PutInput(k) PROVE QueriesInv' BY <1>3, PutInputSound
<1>4. ASSUME NEW k \in CallKey, MarkInput(k) PROVE QueriesInv' BY <1>4, MarkInputSound
<1>5. ASSUME NEW k \in CallKey, PurgeKey(k) PROVE QueriesInv' BY <1>5, PurgeKeySound
<1>6. ASSUME NEW k \in CallKey, NEW label \in Label, AddTag(k, label) PROVE QueriesInv' BY <1>6, AddTagSound
<1>7. ASSUME NEW d \in files, PurgeFile(d) PROVE QueriesInv' BY <1>7, PurgeFileSound
<1>8. CASE StartList \/ StartExport \/ StartStats \/ StartInspect \/ StartCheck BY <1>8, StartsSound
<1>9. CASE Summarise \/ TotalStoredBytes \/ NoMoreSummaries \/ TagsFor \/ FindRow \/ LoadRow
  BY <1>9, SummariseSound, TotalSound, NoMoreSound, TagsForSound, FindRowSound, LoadRowSound
<1>10. ASSUME NEW k \in CallKey, NextSummary(k) PROVE QueriesInv' BY <1>10, NextSummarySound
<1>11. ASSUME NEW part \in Part, ReadPart(part) PROVE QueriesInv' BY <1>11, ReadPartSound
<1>12. CASE ForgetQuery \/ ExportLine \/ Match \/ ShowMatch
  BY <1>12, ForgetSound, ExportLineSound, MatchSteps, ShowMatchSound
<1>13. ASSUME NEW row \in query.found, LoadMatch(row) PROVE QueriesInv' BY <1>13, LoadMatchSound
<1>14. CASE UNCHANGED queryVars
  <2>1. /\ UNCHANGED <<newest, made, identified, labels, documents, intact, files, keyLock, changes>>
        /\ query' = query
    BY <1>14 DEF queryVars
  <2>2. Onward BY <2>1 DEF Onward, rowVars, QueriesInv, QuestionStands
  <2>3. QuestionStands' /\ ExportSound' /\ MatchSound' /\ ExportHonoursTags' /\ ExportIsWhole' /\ ShownIsThere'
    BY <2>1 DEF QueriesInv, QuestionStands, ExportSound, MatchSound, ExportHonoursTags, ExportIsWhole,
       ShownIsThere, Exported, AtKey, CurrentRow
  <2>4. QuietSound'
    <3>1. Summaries' = Summaries /\ Listed' = Listed /\ Full' = Full BY <2>2, OnwardKeeps
    <3>2. {LineOf(k)' : k \in (Looked \cap Listed)'} = {LineOf(k) : k \in Looked \cap Listed}
          /\ Looked' = Looked
      BY <2>1, <3>1 DEF Looked, AtKey, LineOf, CurrentRow
    <3>3. \A S \in SUBSET CallKey : {CurrentRow(k)' : k \in S} = {CurrentRow(k) : k \in S} BY <2>1 DEF CurrentRow
    <3>4. QuietSound BY DEF QueriesInv
    <3>5. Summaries \cap query.within \in SUBSET CallKey BY DEF Summaries
    <3> QED BY <2>1, <3>1, <3>2, <3>3, <3>4, <3>5 DEF QuietSound, AtKey, Telling
  <2> QED BY <2>2, <2>3, <2>4, OnwardKeeps DEF QueriesInv
<1> QED
  BY <1>1, <1>2, <1>3, <1>4, <1>5, <1>6, <1>7, <1>8, <1>9, <1>10, <1>11, <1>12, <1>13, <1>14 DEF QueriesNext

LEMMA QueriesInvHolds == QueriesSpec => []QueriesInv
BY QueriesBegin, QueriesStep, PTL DEF QueriesSpec

\* As many lines of a list have a tag as there are executions with it.
LEMMA TagsCounted ==
  ASSUME NEW keys \in SUBSET CallKey, NEW label
  PROVE  Cardinality({line \in {LineOf(k) : k \in keys} : label \in line.tags})
           = Cardinality({k \in keys : label \in labels[CurrentRow(k)]})
<1> DEFINE lines == {line \in {LineOf(k) : k \in keys} : label \in line.tags}
           labelled == {k \in keys : label \in labels[CurrentRow(k)]}
           f == [k \in labelled |-> LineOf(k)]
<1>1. \A k \in keys : LineOf(k).key = k /\ LineOf(k).tags = labels[CurrentRow(k)] BY DEF LineOf
<1> HIDE DEF LineOf
<1>2. f \in [labelled -> lines] BY <1>1
<1>3. \A j, k \in labelled : f[j] = f[k] => j = k BY <1>1
<1>4. \A line \in lines : \E k \in labelled : f[k] = line BY <1>1
<1>5. f \in Bijection(labelled, lines) BY <1>2, <1>3, <1>4 DEF Bijection, Injection, Surjection, IsInjective
<1>6. IsFiniteSet(labelled) BY QueryAssumption, FS_Subset
<1> HIDE DEF f, lines, labelled
<1>7. Cardinality(labelled) = Cardinality(lines) BY <1>5, <1>6, FS_Bijection DEF ExistsBijection
<1> QED BY <1>7 DEF lines, labelled

LEMMA QuietSoundAgrees == QueriesInv => QuietQueriesAgree
<1> SUFFICES ASSUME QueriesInv, query.quiet, query.outcome = "done" PROVE QuietQueriesAgree
  BY DEF QuietQueriesAgree
<1> DEFINE there == {k \in Summaries : Tagged(k)} \cap IF query.kind = "list" THEN query.within ELSE CallKey
           full  == {k \in there : <<CurrentRow(k), "in">> \in documents}
<1>1. /\ query.at = "over" /\ query.kind \in {"list", "export", "stats", "inspect", "check"}
      /\ query.within \subseteq CallKey
  BY DEF QueriesInv, QuestionStands, Question
<1>2. Telling /\ ~AtKey BY <1>1 DEF Telling, AtKey
<1>3. there = Listed /\ full = Listed \cap Full /\ Listed \subseteq Summaries /\ Summaries \subseteq CallKey
  BY DEF Listed, Full, Summaries
<1>4. query.kind \in {"list", "export"} => Looked = Summaries
  BY <1>1, <1>2 DEF QueriesInv, QuietSound, Looked
<1>5. query.kind = "export" => {line.key : line \in query.lines} = full /\ query.skipped = there \ full
  BY <1>2, <1>3, <1>4 DEF QueriesInv, QuietSound
<1>6. ASSUME query.kind = "list" PROVE query.lines = {LineOf(k) : k \in there}
  <2>1. query.lines = {LineOf(k) : k \in Looked \cap Listed} BY <1>2, <1>6 DEF QueriesInv, QuietSound
  <2>2. Looked \cap Listed = there BY <1>3, <1>4, <1>6
  <2> QED BY <2>1, <2>2
<1>7. ASSUME query.kind = "list"
      PROVE  /\ {<<line.key, line.tags>> : line \in query.lines} = {<<k, labels[CurrentRow(k)]>> : k \in there}
             /\ \A label \in Label : TagCounts[label] = Cardinality({k \in there : label \in labels[CurrentRow(k)]})
  <2>1. \A k \in there : LineOf(k).key = k /\ LineOf(k).tags = labels[CurrentRow(k)] BY DEF LineOf
  <2>2. there \in SUBSET CallKey BY <1>3
  <2> HIDE DEF there, LineOf
  <2>3. {<<line.key, line.tags>> : line \in query.lines} = {<<k, labels[CurrentRow(k)]>> : k \in there}
    BY <1>6, <1>7, <2>1
  <2>4. ASSUME NEW label \in Label
        PROVE  TagCounts[label] = Cardinality({k \in there : label \in labels[CurrentRow(k)]})
    <3>1. TagCounts[label] = Cardinality({line \in query.lines : label \in line.tags}) BY DEF TagCounts
    <3>2. query.lines = {LineOf(k) : k \in there} BY <1>6, <1>7
    <3>3. Cardinality({line \in {LineOf(k) : k \in there} : label \in line.tags})
            = Cardinality({k \in there : label \in labels[CurrentRow(k)]})
      BY <2>2, TagsCounted
    <3> QED BY <3>1, <3>2, <3>3
  <2> QED BY <2>3, <2>4
<1>8. query.kind \in {"inspect", "check"} => {doc.row[1] : doc \in query.shown} = Summaries \cap query.within
  BY <1>1 DEF QueriesInv, QuietSound
<1>9. query.kind = "stats" => query.bytes >= Cardinality(query.shown)
  BY <1>1 DEF QueriesInv, QuietSound
<1> HIDE DEF there, full
<1> QED BY <1>1, <1>5, <1>7, <1>8, <1>9 DEF QuietQueriesAgree, there, full

\* However a list, an export, statistics and a lookup interleave with runs that are
\* recorded, backfilled, retagged and purged beside them (execution_repository.py), an
\* export keeps no execution with a label that is left out and has the bytes of each it
\* names, and what is shown was there; undisturbed, each says all there is and nothing
\* else.
THEOREM QueriesTell == QueriesSpec => []QueriesTellTheStore
<1>1. QueriesInv => QueriesTellTheStore BY QuietSoundAgrees DEF QueriesInv, QueriesTellTheStore
<1> QED BY <1>1, QueriesInvHolds, PTL

\* The store a query reads and what it has read keep their shape, for any keys and labels
\* and whatever is recorded or purged beside the query.
THEOREM QueriesTypes == QueriesSpec => []QueriesTypeOK
<1>1. QueriesInv => QueriesTypeOK BY DEF QueriesInv
<1> QED BY <1>1, QueriesInvHolds, PTL

-----------------------------------------------------------------------------
(* Sums over a finite set, as the fold of the community modules takes      *)
(* them: as many as there are units, so they can be taken apart element by *)
(* element.                                                                *)

UnitsOf(g, W) == {u \in W \X Nat : u[2] \in 1..g[u[1]]}
Total(g, W)   == Cardinality(UnitsOf(g, W))

LEMMA SmallestSubset ==
  ASSUME NEW T, IsFiniteSet(T), NEW Bad, Bad \subseteq SUBSET T, Bad # {}
  PROVE  \E W \in Bad : \A V \in Bad : ~(V \subseteq W /\ V # W)
<1>1. FiniteSubsetsOf(T) = SUBSET T
  BY FS_Subset DEF FiniteSubsetsOf
<1>2. PICK W \in Bad : \A V \in Bad : ~(<<V, W>> \in StrictSubsetOrdering(T))
  BY <1>1, FS_StrictSubsetOrderingWellFounded, WFMin
<1>3. ASSUME NEW V \in Bad, V \subseteq W, V # W PROVE FALSE
  <2>1. <<V, W>> \in StrictSubsetOrdering(T) BY <1>3 DEF StrictSubsetOrdering
  <2> QED BY <2>1, <1>2
<1> QED BY <1>3

LEMMA UnitsApart ==
  ASSUME NEW W, NEW g \in [W -> Nat], NEW k \in W
  PROVE  /\ UnitsOf(g, W) = UnitsOf(g, W \ {k}) \cup ({k} \X (1..g[k]))
         /\ UnitsOf(g, W \ {k}) \cap ({k} \X (1..g[k])) = {}
<1>1. g[k] \in Nat OBVIOUS
<1>2. ASSUME NEW u \in UnitsOf(g, W) PROVE u \in UnitsOf(g, W \ {k}) \cup ({k} \X (1..g[k]))
  <2>1. PICK x \in W, n \in Nat : u = <<x, n>> /\ n \in 1..g[x] BY <1>2 DEF UnitsOf
  <2>2. CASE x = k BY <2>1, <2>2
  <2>3. CASE x # k BY <2>1, <2>3 DEF UnitsOf
  <2> QED BY <2>2, <2>3
<1>3. UnitsOf(g, W \ {k}) \subseteq UnitsOf(g, W) BY DEF UnitsOf
<1>4. ASSUME NEW u \in {k} \X (1..g[k]) PROVE u \in UnitsOf(g, W)
  <2>1. PICK n \in 1..g[k] : u = <<k, n>> OBVIOUS
  <2>2. n \in Nat BY <1>1
  <2> QED BY <2>1, <2>2 DEF UnitsOf
<1>5. UnitsOf(g, W \ {k}) \cap ({k} \X (1..g[k])) = {} BY DEF UnitsOf
<1> QED BY <1>2, <1>3, <1>4, <1>5

LEMMA UnitsOfOne ==
  ASSUME NEW k, NEW n \in Nat
  PROVE  IsFiniteSet({k} \X (1..n)) /\ Cardinality({k} \X (1..n)) = n
<1>1. IsFiniteSet(1..n) /\ Cardinality(1..n) = n BY FS_Interval
<1> DEFINE f == [i \in 1..n |-> <<k, i>>]
<1>2. f \in Bijection(1..n, {k} \X (1..n))
  <2>1. f \in [1..n -> {k} \X (1..n)] OBVIOUS
  <2>2. \A i, j \in 1..n : f[i] = f[j] => i = j OBVIOUS
  <2>3. \A t \in {k} \X (1..n) : \E i \in 1..n : f[i] = t OBVIOUS
  <2> HIDE DEF f
  <2>4. f \in Injection(1..n, {k} \X (1..n)) BY <2>1, <2>2 DEF Injection, IsInjective
  <2>5. f \in Surjection(1..n, {k} \X (1..n)) BY <2>1, <2>3 DEF Surjection
  <2> QED BY <2>4, <2>5 DEF Bijection
<1> HIDE DEF f
<1> QED BY <1>1, <1>2, FS_Bijection DEF ExistsBijection

LEMMA UnitsRestrict ==
  ASSUME NEW W, NEW V \in SUBSET W, NEW g \in [W -> Nat]
  PROVE  /\ [k \in V |-> g[k]] \in [V -> Nat]
         /\ UnitsOf([k \in V |-> g[k]], V) = UnitsOf(g, V)
BY DEF UnitsOf

LEMMA FiniteTogether ==
  ASSUME NEW S, NEW A, NEW B, S = A \cup B, IsFiniteSet(A), IsFiniteSet(B)
  PROVE  IsFiniteSet(S)
BY FS_Union

LEMMA UnitsFinite ==
  ASSUME NEW T, IsFiniteSet(T), NEW g \in [T -> Nat]
  PROVE  \A W \in SUBSET T : IsFiniteSet(UnitsOf(g, W))
<1> DEFINE Bad == {W \in SUBSET T : ~IsFiniteSet(UnitsOf(g, W))}
<1> SUFFICES ASSUME Bad # {} PROVE FALSE OBVIOUS
<1>0. Bad \subseteq SUBSET T OBVIOUS
<1> HIDE DEF Bad
<1>1. PICK W \in Bad : \A V \in Bad : ~(V \subseteq W /\ V # W) BY <1>0, SmallestSubset
<1> USE DEF Bad
<1>2. W # {}
  <2>1. UnitsOf(g, {}) = {} BY DEF UnitsOf
  <2> QED BY <1>1, <2>1, FS_EmptySet
<1>3. PICK k \in W : TRUE BY <1>2
<1>4. IsFiniteSet(UnitsOf(g, W \ {k})) BY <1>1
<1> DEFINE h == [x \in W |-> g[x]]
<1>5. h \in [W -> Nat] /\ g[k] \in Nat /\ h[k] = g[k] OBVIOUS
<1>6. UnitsOf(h, W) = UnitsOf(g, W) /\ UnitsOf(h, W \ {k}) = UnitsOf(g, W \ {k}) BY DEF UnitsOf
<1> HIDE DEF h
<1>7. UnitsOf(h, W) = UnitsOf(h, W \ {k}) \cup ({k} \X (1..h[k])) BY <1>5, UnitsApart
<1>9. IsFiniteSet({k} \X (1..h[k])) BY <1>5, UnitsOfOne
<1>10. IsFiniteSet(UnitsOf(h, W \ {k})) BY <1>4, <1>6
<1>11. IsFiniteSet(UnitsOf(h, W))
  <2> DEFINE A == UnitsOf(h, W \ {k})
             B == {k} \X (1..h[k])
             S == UnitsOf(h, W)
  <2>1. S = A \cup B /\ IsFiniteSet(A) /\ IsFiniteSet(B) BY <1>7, <1>9, <1>10
  <2> HIDE DEF A, B, S
  <2>2. IsFiniteSet(S) BY <2>1, FiniteTogether
  <2> QED BY <2>2 DEF S
<1>8. IsFiniteSet(UnitsOf(g, W)) BY <1>6, <1>11
<1> QED BY <1>1, <1>8

LEMMA TotalStep ==
  ASSUME NEW T, IsFiniteSet(T), NEW g \in [T -> Nat], NEW W \in SUBSET T
  PROVE  /\ Total(g, W) \in Nat
         /\ Total(g, {}) = 0
         /\ \A k \in W : Total(g, W) = g[k] + Total(g, W \ {k})
         /\ \A V \in SUBSET W : Total(g, V) <= Total(g, W)
<1>1. IsFiniteSet(UnitsOf(g, W)) BY UnitsFinite
<1>2. Total(g, W) \in Nat BY <1>1, FS_CardinalityType DEF Total
<1>3. Total(g, {}) = 0
  <2>1. UnitsOf(g, {}) = {} BY DEF UnitsOf
  <2> QED BY <2>1, FS_EmptySet DEF Total
<1>4. ASSUME NEW k \in W PROVE Total(g, W) = g[k] + Total(g, W \ {k})
  <2> DEFINE h == [x \in W |-> g[x]]
  <2>1. h \in [W -> Nat] /\ g[k] \in Nat /\ h[k] = g[k] OBVIOUS
  <2>2. UnitsOf(h, W) = UnitsOf(g, W) /\ UnitsOf(h, W \ {k}) = UnitsOf(g, W \ {k}) BY DEF UnitsOf
  <2> HIDE DEF h
  <2>9. /\ UnitsOf(h, W) = UnitsOf(h, W \ {k}) \cup ({k} \X (1..h[k]))
        /\ UnitsOf(h, W \ {k}) \cap ({k} \X (1..h[k])) = {} BY <2>1, UnitsApart
  <2>3. /\ UnitsOf(g, W) = UnitsOf(g, W \ {k}) \cup ({k} \X (1..g[k]))
        /\ UnitsOf(g, W \ {k}) \cap ({k} \X (1..g[k])) = {} BY <2>1, <2>2, <2>9
  <2>4. W \ {k} \in SUBSET T OBVIOUS
  <2>5. IsFiniteSet(UnitsOf(g, W \ {k})) BY <2>4, UnitsFinite
  <2>6. Cardinality(UnitsOf(g, W \ {k})) \in Nat BY <2>5, FS_CardinalityType
  <2>7. IsFiniteSet({k} \X (1..g[k])) /\ Cardinality({k} \X (1..g[k])) = g[k] BY <2>1, UnitsOfOne
  <2>8. Cardinality(UnitsOf(g, W)) = Cardinality(UnitsOf(g, W \ {k})) + g[k] - Cardinality({})
    BY <2>3, <2>5, <2>7, FS_Union
  <2> QED BY <2>1, <2>6, <2>8, FS_EmptySet DEF Total
<1>5. ASSUME NEW V \in SUBSET W PROVE Total(g, V) <= Total(g, W)
  <2>1. UnitsOf(g, V) \in SUBSET UnitsOf(g, W) BY DEF UnitsOf
  <2> QED BY <1>1, <2>1, FS_Subset DEF Total
<1> QED BY <1>2, <1>3, <1>4, <1>5

LEMMA TotalAgrees ==
  ASSUME NEW W, NEW g, NEW h, \A k \in W : g[k] = h[k]
  PROVE  Total(g, W) = Total(h, W)
<1>1. UnitsOf(g, W) = UnitsOf(h, W) BY DEF UnitsOf
<1> QED BY <1>1 DEF Total

\* The fold of the community modules adds up one element after the other.
SumOf(f, T) == (CHOOSE iter : iter = [s \in SUBSET T |->
                   IF s = {} THEN 0 ELSE f[CHOOSE x \in s : TRUE] + iter[s \ {CHOOSE x \in s : TRUE}]])[T]

LEMMA SumIsTotal ==
  ASSUME NEW T, IsFiniteSet(T), NEW g \in [T -> Nat]
  PROVE  SumOf(g, T) = Total(g, T)
<1> DEFINE pick(s) == CHOOSE x \in s : TRUE
           Adds(iter) == iter = [s \in SUBSET T |-> IF s = {} THEN 0 ELSE g[pick(s)] + iter[s \ {pick(s)}]]
           sum == [s \in SUBSET T |-> Total(g, s)]
           it == CHOOSE iter : Adds(iter)
<1>1. \A s \in SUBSET T : s # {} => pick(s) \in s OBVIOUS
<1> HIDE DEF pick
<1>2. Adds(sum)
  <2>1. ASSUME NEW s \in SUBSET T PROVE sum[s] = IF s = {} THEN 0 ELSE g[pick(s)] + sum[s \ {pick(s)}]
    <3>1. CASE s = {} BY <3>1, TotalStep
    <3>2. CASE s # {}
      <4>1. pick(s) \in s /\ s \ {pick(s)} \in SUBSET T BY <1>1, <3>2
      <4> QED BY <3>2, <4>1, TotalStep
    <3> QED BY <3>1, <3>2
  <2> QED BY <2>1
<1>3. Adds(it) BY <1>2
<1> HIDE DEF it
<1>4. \A s \in SUBSET T : it[s] = IF s = {} THEN 0 ELSE g[pick(s)] + it[s \ {pick(s)}] BY <1>3
<1> DEFINE Bad == {s \in SUBSET T : it[s] # Total(g, s)}
<1>5. Bad = {}
  <2> SUFFICES ASSUME Bad # {} PROVE FALSE OBVIOUS
  <2>0. Bad \subseteq SUBSET T OBVIOUS
  <2> HIDE DEF Bad
  <2>1. PICK W \in Bad : \A V \in Bad : ~(V \subseteq W /\ V # W) BY <2>0, SmallestSubset
  <2> USE DEF Bad
  <2>2. CASE W = {} BY <1>4, <2>1, <2>2, TotalStep
  <2>3. CASE W # {}
    <3>1. pick(W) \in W /\ W \ {pick(W)} \in SUBSET T BY <1>1, <2>3
    <3>2. it[W \ {pick(W)}] = Total(g, W \ {pick(W)}) BY <2>1, <3>1
    <3>3. it[W] = g[pick(W)] + it[W \ {pick(W)}] BY <1>4, <2>3
    <3>4. Total(g, W) = g[pick(W)] + Total(g, W \ {pick(W)}) BY <3>1, TotalStep
    <3> QED BY <2>1, <3>2, <3>3, <3>4
  <2> QED BY <2>2, <2>3
<1>6. it[T] = Total(g, T) BY <1>5
<1>7. SumOf(g, T) = it[T] BY DEF SumOf, it, pick
<1> QED BY <1>6, <1>7

LEMMA TotalIsNat ==
  ASSUME NEW T, IsFiniteSet(T), NEW g \in [T -> Nat]
  PROVE  Total(g, T) \in Nat /\ ((\A k \in T : g[k] = 0) => Total(g, T) = 0)
<1>1. Total(g, T) \in Nat BY TotalStep
<1>2. ASSUME \A k \in T : g[k] = 0 PROVE Total(g, T) = 0
  <2>1. UnitsOf(g, T) = {} BY <1>2 DEF UnitsOf
  <2> QED BY <2>1, FS_EmptySet DEF Total
<1> QED BY <1>1, <1>2

LEMMA TotalAtOne ==
  ASSUME NEW T, IsFiniteSet(T), NEW g \in [T -> Nat], NEW h \in [T -> Nat], NEW k \in T,
         \A j \in T \ {k} : h[j] = g[j]
  PROVE  Total(h, T) = Total(g, T) - g[k] + h[k]
<1>1. Total(g, T) = g[k] + Total(g, T \ {k}) /\ Total(h, T) = h[k] + Total(h, T \ {k}) BY TotalStep
<1>2. T \ {k} \in SUBSET T OBVIOUS
<1>3. Total(g, T \ {k}) \in Nat BY <1>2, TotalStep
<1>4. Total(h, T \ {k}) = Total(g, T \ {k}) BY TotalAgrees
<1>5. g[k] \in Nat /\ h[k] \in Nat OBVIOUS
<1> QED BY <1>1, <1>3, <1>4, <1>5

LEMMA TotalAdds ==
  ASSUME NEW T, IsFiniteSet(T), NEW f \in [T -> Nat], NEW g \in [T -> Nat], NEW h \in [T -> Nat],
         \A k \in T : h[k] = f[k] + g[k]
  PROVE  Total(h, T) = Total(f, T) + Total(g, T)
<1> DEFINE Bad == {W \in SUBSET T : Total(h, W) # Total(f, W) + Total(g, W)}
<1>1. Bad = {}
  <2> SUFFICES ASSUME Bad # {} PROVE FALSE OBVIOUS
  <2>0. Bad \subseteq SUBSET T OBVIOUS
  <2> HIDE DEF Bad
  <2>1. PICK W \in Bad : \A V \in Bad : ~(V \subseteq W /\ V # W) BY <2>0, SmallestSubset
  <2> USE DEF Bad
  <2>2. CASE W = {}
    <3>1. Total(f, {}) = 0 /\ Total(g, {}) = 0 /\ Total(h, {}) = 0 BY TotalStep
    <3> QED BY <2>1, <2>2, <3>1
  <2>3. CASE W # {}
    <3>1. PICK k \in W : TRUE BY <2>3
    <3>2. W \ {k} \in SUBSET T /\ k \in T BY <2>1
    <3>3. Total(h, W \ {k}) = Total(f, W \ {k}) + Total(g, W \ {k}) BY <2>1, <3>2
    <3>4. Total(f, W) = f[k] + Total(f, W \ {k}) /\ Total(f, W \ {k}) \in Nat BY <2>1, <3>2, TotalStep
    <3>5. Total(g, W) = g[k] + Total(g, W \ {k}) /\ Total(g, W \ {k}) \in Nat BY <2>1, <3>2, TotalStep
    <3>6. Total(h, W) = h[k] + Total(h, W \ {k}) BY <2>1, <3>2, TotalStep
    <3>7. h[k] = f[k] + g[k] /\ f[k] \in Nat /\ g[k] \in Nat BY <3>2
    <3>8. Total(h, W) = Total(f, W) + Total(g, W)
      <4> HIDE DEF Bad
      <4> QED BY <3>3, <3>4, <3>5, <3>6, <3>7
    <3> QED BY <2>1, <3>8
  <2> QED BY <2>2, <2>3
<1>2. T \in SUBSET T OBVIOUS
<1> QED BY <1>1, <1>2

-----------------------------------------------------------------------------
(* QuotaEviction. A sweep has counted, in what runs and in what was        *)
(* recorded since, every entry that is stored or that it is still to take; *)
(* what it has not seen was recorded since.                                *)

SeenKeys(w)      == {e.key : e \in w.left}
Cur(st)      == {k \in Entry : st[k].bytes > 0}
UsedAt(k, st, la) == IF la[k] >= 0 THEN la[k] ELSE st[k].created
Load(W)      == Total(SizeOf, W)

EntryRead == [key : Entry, bytes : Nat, age : Int]
SweepType == [at : SweepAt, running : Int, left : SUBSET EntryRead, cutoff : Int,
              grown : Nat, touched : BOOLEAN, evicted : SUBSET Int]

ReadWell(w) == \A e \in w.left : /\ e.bytes = SizeOf[e.key]
                                 /\ \A f \in w.left : e.key = f.key => e = f
Accounted(w, st) ==
  /\ w.at = "sizes" => w.left = {} /\ Load(Cur(st)) <= w.running + w.grown
  /\ w.at \in {"order", "evict"} => /\ ReadWell(w)
                                    /\ Load(Cur(st) \cup SeenKeys(w)) <= w.running + w.grown
                                    /\ Load(Cur(st) \ SeenKeys(w)) <= w.grown
  /\ w.at = "met" => Load(Cur(st)) <= MaxBytes + w.grown

Undisturbed(w, st, la) ==
  /\ w.at = "sizes" => w.evicted = {}
  /\ w.at = "order" => w.evicted = {} /\ SeenKeys(w) = Cur(st) /\ \A e \in w.left : e.age = st[e.key].created
  /\ w.at = "evict" => /\ SeenKeys(w) = Cur(st)
                       /\ \A e \in w.left : e.age = UsedAt(e.key, st, la)
                       /\ \A used \in w.evicted, e \in w.left : used <= e.age
  /\ w.at = "met" => \A used \in w.evicted, k \in Cur(st) : used <= UsedAt(k, st, la)

SweepSound(w, st, la) == /\ ForQuota(w) => Accounted(w, st)
                         /\ ForQuota(w) /\ ~w.touched => Undisturbed(w, st, la)

StoreType == [Entry -> [bytes : Nat, created : Second]]
QuotaTypes ==
  /\ second \in Second /\ recordings \in 0..MaxRecordings /\ loopTask \in {"on", "cancelled"}
  /\ stored \in StoreType /\ lastAccess \in [Entry -> Second \cup {-1}]
  /\ sweep \in [Sweeper -> SweepType]
  /\ \A k \in Entry : stored[k].bytes \in {0, SizeOf[k]}
QuotaInv == QuotaTypes /\ \A s \in Sweeper : SweepSound(sweep[s], stored, lastAccess)

LEMMA StoredIsLoad == ASSUME QuotaTypes PROVE StoredBytes = Load(Current)
<1> USE QuotaAssumption DEF QuotaTypes, StoreType
<1> DEFINE g == [k \in Entry |-> stored[k].bytes]
           c == [k \in Entry |-> IF k \in Current THEN SizeOf[k] ELSE 0]
<1>1. g \in [Entry -> Nat] OBVIOUS
<1>2. StoredBytes = SumOf(g, Entry)
  <2> DEFINE F(iter) == [s \in SUBSET Entry |-> IF s = {} THEN 0 ELSE stored[CHOOSE x \in s : TRUE].bytes + iter[s \ {CHOOSE x \in s : TRUE}]]
             G(iter) == [s \in SUBSET Entry |-> IF s = {} THEN 0 ELSE g[CHOOSE x \in s : TRUE] + iter[s \ {CHOOSE x \in s : TRUE}]]
  <2>1. StoredBytes = (CHOOSE iter : iter = F(iter))[Entry]
    BY DEF StoredBytes, MapThenSumSet, MapThenFoldSet
  <2>2. ASSUME NEW iter PROVE F(iter) = G(iter)
    <3>1. ASSUME NEW s \in SUBSET Entry, s # {}
          PROVE  stored[CHOOSE x \in s : TRUE].bytes = g[CHOOSE x \in s : TRUE]
      <4>1. (CHOOSE x \in s : TRUE) \in Entry BY <3>1
      <4> QED BY <4>1
    <3> HIDE DEF g
    <3> QED BY <3>1
  <2>3. SumOf(g, Entry) = (CHOOSE iter : iter = G(iter))[Entry] BY DEF SumOf
  <2> HIDE DEF F, G
  <2>4. \A iter : (iter = F(iter)) <=> (iter = G(iter)) BY <2>2
  <2>5. (CHOOSE iter : iter = F(iter)) = (CHOOSE iter : iter = G(iter)) BY <2>4, Zenon
  <2> QED BY <2>1, <2>3, <2>5
<1>3. StoredBytes = Total(g, Entry) BY <1>1, <1>2, SumIsTotal
<1>4. UnitsOf(g, Entry) = UnitsOf(SizeOf, Current)
  <2>1. ASSUME NEW k \in Entry, NEW n \in Nat, n \in 1..stored[k].bytes PROVE k \in Current /\ n \in 1..SizeOf[k]
    BY <2>1 DEF Current
  <2>2. ASSUME NEW k \in Current PROVE k \in Entry /\ stored[k].bytes = SizeOf[k]
    BY DEF Current
  <2> QED BY <2>1, <2>2 DEF UnitsOf
<1> QED BY <1>3, <1>4 DEF Total, Load

LEMMA Loads ==
  ASSUME NEW W \in SUBSET Entry
  PROVE  /\ Load(W) \in Nat
         /\ Load({}) = 0
         /\ \A k \in W : Load(W) = SizeOf[k] + Load(W \ {k})
         /\ \A V \in SUBSET W : Load(V) <= Load(W)
         /\ \A k \in Entry : Load(W \cup {k}) <= Load(W) + SizeOf[k]
<1> USE QuotaAssumption
<1>1. SizeOf \in [Entry -> Nat] OBVIOUS
<1>2. /\ Load(W) \in Nat /\ Load({}) = 0
      /\ \A k \in W : Load(W) = SizeOf[k] + Load(W \ {k})
      /\ \A V \in SUBSET W : Load(V) <= Load(W)
  BY <1>1, TotalStep DEF Load
<1>3. ASSUME NEW k \in Entry PROVE Load(W \cup {k}) <= Load(W) + SizeOf[k]
  <2>1. CASE k \in W
    <3>1. W \cup {k} = W BY <2>1
    <3> QED BY <3>1, <1>2
  <2>2. CASE k \notin W
    <3>1. Load(W \cup {k}) = SizeOf[k] + Load((W \cup {k}) \ {k}) BY <1>1, TotalStep DEF Load
    <3>2. (W \cup {k}) \ {k} = W BY <2>2
    <3> QED BY <3>1, <3>2, <1>2
  <2> QED BY <2>1, <2>2
<1> QED BY <1>2, <1>3

LEMMA SweepWith ==
  ASSUME NEW w \in SweepType, NEW a \in SweepAt, NEW r \in Int, NEW l \in SUBSET EntryRead
  PROVE  [w EXCEPT !.at = a, !.running = r, !.left = l] \in SweepType
BY DEF SweepType

LEMMA TouchedFields ==
  ASSUME NEW w \in SweepType
  PROVE  /\ Touched(w) \in SweepType /\ Touched(w).at = w.at /\ Touched(w).left = w.left
         /\ Touched(w).running = w.running /\ Touched(w).grown = w.grown
         /\ ForQuota(w) => Touched(w).touched
BY DEF Touched, SweepType, ForQuota

LEMMA GrownFields ==
  ASSUME NEW w \in SweepType, NEW n \in Nat
  PROVE  /\ Grown(w, n) \in SweepType /\ Grown(w, n).at = w.at /\ Grown(w, n).left = w.left
         /\ Grown(w, n).running = w.running
         /\ ForQuota(w) => Grown(w, n).touched /\ Grown(w, n).grown = w.grown + n
<1>1. CASE ForQuota(w)
  <2>1. Touched(w) = [w EXCEPT !.touched = TRUE] BY <1>1 DEF Touched
  <2> DEFINE v == [w EXCEPT !.touched = TRUE]
  <2>2. v \in SweepType /\ v.at = w.at /\ v.left = w.left /\ v.running = w.running /\ v.grown = w.grown
        /\ v.touched = TRUE BY DEF SweepType
  <2>3. Grown(w, n) = [v EXCEPT !.grown = @ + n] BY <1>1, <2>1 DEF Grown
  <2> HIDE DEF v
  <2> QED BY <2>2, <2>3 DEF SweepType
<1>2. CASE ~ForQuota(w) BY <1>2 DEF Grown
<1> QED BY <1>1, <1>2

LEMMA SeenAreEntries ==
  ASSUME NEW w \in SweepType PROVE SeenKeys(w) \in SUBSET Entry
BY DEF SeenKeys, SweepType, EntryRead

\* A sweep that was disturbed is accountable only for how much is left.
LEMMA DisturbedIsSound ==
  ASSUME NEW w, NEW v, NEW st, NEW la, v.at = w.at, ForQuota(w) => v.touched /\ Accounted(v, st)
  PROVE  SweepSound(v, st, la)
BY DEF SweepSound, ForQuota

LEMMA ShrinkingIsSound ==
  ASSUME NEW w \in SweepType, NEW st \in StoreType, NEW la, NEW la2, SweepSound(w, st, la),
         NEW st2 \in StoreType, Cur(st2) \subseteq Cur(st)
  PROVE  SweepSound(Touched(w), st2, la2)
<1> USE QuotaAssumption
<1>1. SeenKeys(w) \in SUBSET Entry BY SeenAreEntries
<1>2. Cur(st) \in SUBSET Entry /\ Cur(st2) \in SUBSET Cur(st) BY DEF Cur
<1>3. Load(Cur(st2)) <= Load(Cur(st)) BY <1>2, Loads
<1>4. Load(Cur(st2) \cup SeenKeys(w)) <= Load(Cur(st) \cup SeenKeys(w))
  <2>1. Cur(st) \cup SeenKeys(w) \in SUBSET Entry /\ Cur(st2) \cup SeenKeys(w) \in SUBSET (Cur(st) \cup SeenKeys(w)) BY <1>1, <1>2
  <2> QED BY <2>1, Loads
<1>5. Load(Cur(st2) \ SeenKeys(w)) <= Load(Cur(st) \ SeenKeys(w))
  <2>1. Cur(st) \ SeenKeys(w) \in SUBSET Entry /\ Cur(st2) \ SeenKeys(w) \in SUBSET (Cur(st) \ SeenKeys(w)) BY <1>1, <1>2
  <2> QED BY <2>1, Loads
<1>6. \A W \in SUBSET Entry : Load(W) \in Nat BY Loads
<1>7. Cur(st2) \cup SeenKeys(w) \in SUBSET Entry /\ Cur(st2) \ SeenKeys(w) \in SUBSET Entry /\ Cur(st2) \in SUBSET Entry
      /\ Cur(st) \cup SeenKeys(w) \in SUBSET Entry /\ Cur(st) \ SeenKeys(w) \in SUBSET Entry BY <1>1, <1>2
<1>8. w.running \in Int /\ w.grown \in Nat BY DEF SweepType
<1>9. ASSUME ForQuota(w) PROVE Accounted(Touched(w), st2)
  <2>1. Accounted(w, st) BY <1>9 DEF SweepSound
  <2>2. Accounted(w, st2) BY <2>1, <1>2, <1>3, <1>4, <1>5, <1>6, <1>7, <1>8 DEF Accounted
  <2>3. SeenKeys(Touched(w)) = SeenKeys(w) /\ (ReadWell(w) => ReadWell(Touched(w))) BY TouchedFields DEF SeenKeys, ReadWell
  <2> QED BY <2>2, <2>3, TouchedFields DEF Accounted
<1> QED BY <1>9, TouchedFields, DisturbedIsSound

LEMMA GrowingIsSound ==
  ASSUME NEW w \in SweepType, NEW st \in StoreType, NEW la, NEW la2, SweepSound(w, st, la),
         NEW st2 \in StoreType, NEW k \in Entry, Cur(st2) = Cur(st) \cup {k}
  PROVE  SweepSound(Grown(w, SizeOf[k]), st2, la2)
<1> USE QuotaAssumption
<1> DEFINE n == SizeOf[k]
<1>0. n \in Nat OBVIOUS
<1>1. SeenKeys(w) \in SUBSET Entry BY SeenAreEntries
<1>2. Cur(st) \in SUBSET Entry BY DEF Cur
<1>3. Load(Cur(st2)) <= Load(Cur(st)) + n BY <1>2, Loads
<1>4. Load(Cur(st2) \cup SeenKeys(w)) <= Load(Cur(st) \cup SeenKeys(w)) + n
  <2>1. Cur(st) \cup SeenKeys(w) \in SUBSET Entry /\ Cur(st2) \cup SeenKeys(w) = (Cur(st) \cup SeenKeys(w)) \cup {k} BY <1>1, <1>2
  <2> QED BY <2>1, Loads
<1>5. Load(Cur(st2) \ SeenKeys(w)) <= Load(Cur(st) \ SeenKeys(w)) + n
  <2> DEFINE A == Cur(st) \ SeenKeys(w)
  <2>1. A \in SUBSET Entry BY <1>1, <1>2
  <2>2. CASE k \in SeenKeys(w)
    <3>1. Cur(st2) \ SeenKeys(w) = A BY <2>2
    <3> QED BY <3>1, <2>1, <1>0, Loads
  <2>3. CASE k \notin SeenKeys(w)
    <3>1. Cur(st2) \ SeenKeys(w) = A \cup {k} BY <2>3
    <3> QED BY <3>1, <2>1, Loads
  <2> QED BY <2>2, <2>3
<1>6. \A W \in SUBSET Entry : Load(W) \in Nat BY Loads
<1>7. Cur(st2) \cup SeenKeys(w) \in SUBSET Entry /\ Cur(st2) \ SeenKeys(w) \in SUBSET Entry /\ Cur(st2) \in SUBSET Entry
      /\ Cur(st) \cup SeenKeys(w) \in SUBSET Entry /\ Cur(st) \ SeenKeys(w) \in SUBSET Entry BY <1>1, <1>2
<1>8. w.running \in Int /\ w.grown \in Nat BY DEF SweepType
<1>9. ASSUME ForQuota(w) PROVE Accounted(Grown(w, n), st2)
  <2> DEFINE v == Grown(w, n)
  <2>0. v.at = w.at /\ v.left = w.left /\ v.running = w.running /\ v.grown = w.grown + n
    BY <1>0, <1>9, GrownFields
  <2>1. Accounted(w, st) BY <1>9 DEF SweepSound
  <2>3. SeenKeys(v) = SeenKeys(w) /\ (ReadWell(w) => ReadWell(v)) BY <2>0 DEF SeenKeys, ReadWell
  <2> HIDE DEF v, n
  <2>4. w.at = "sizes" => v.left = {} /\ Load(Cur(st2)) <= v.running + v.grown
    BY <2>0, <2>1, <1>0, <1>2, <1>3, <1>6, <1>7, <1>8 DEF Accounted
  <2>5. w.at \in {"order", "evict"} => /\ ReadWell(v)
                                       /\ Load(Cur(st2) \cup SeenKeys(v)) <= v.running + v.grown
                                       /\ Load(Cur(st2) \ SeenKeys(v)) <= v.grown
    BY <2>0, <2>1, <2>3, <1>0, <1>4, <1>5, <1>6, <1>7, <1>8 DEF Accounted
  <2>6. w.at = "met" => Load(Cur(st2)) <= MaxBytes + v.grown
    BY <2>0, <2>1, <1>0, <1>2, <1>3, <1>6, <1>7, <1>8 DEF Accounted
  <2>7. Accounted(v, st2) BY <2>0, <2>4, <2>5, <2>6 DEF Accounted
  <2> QED BY <2>7 DEF v
<1>10. Grown(w, n).at = w.at /\ (ForQuota(w) => Grown(w, n).touched) BY <1>0, GrownFields
<1> HIDE DEF n
<1>11. SweepSound(Grown(w, n), st2, la2) BY <1>9, <1>10, DisturbedIsSound
<1> QED BY <1>11 DEF n

LEMMA AsleepIsASweep ==
  /\ Asleep \in SweepType /\ ~ForQuota(Asleep)
  /\ \A a \in SweepAt : [Asleep EXCEPT !.at = a] \in SweepType
<1>1. Asleep \in SweepType BY DEF Asleep, SweepType, SweepAt
<1>2. ~ForQuota(Asleep) BY DEF Asleep, ForQuota
<1>3. ASSUME NEW a \in SweepAt PROVE [Asleep EXCEPT !.at = a] \in SweepType
  BY <1>1 DEF SweepType
<1> QED BY <1>1, <1>2, <1>3

\* A step of one sweeper that only reads.
LEMMA ReadingKeepsTypes ==
  ASSUME QuotaTypes, NEW s \in Sweeper, NEW w \in SweepType, SweepGoes(s, w), ReadsOnly
  PROVE  QuotaTypes' /\ sweep'[s] = w /\ \A t \in Sweeper \ {s} : sweep'[t] = sweep[t]
BY DEF QuotaTypes, SweepGoes, ReadsOnly, StoreType, Second

LEMMA ReadingKeepsInv ==
  ASSUME QuotaInv, NEW s \in Sweeper, NEW w \in SweepType, SweepGoes(s, w), ReadsOnly,
         SweepSound(w, stored, lastAccess)
  PROVE  QuotaInv'
<1>1. QuotaTypes' /\ sweep'[s] = w /\ \A t \in Sweeper \ {s} : sweep'[t] = sweep[t]
  BY ReadingKeepsTypes DEF QuotaInv
<1>2. stored' = stored /\ lastAccess' = lastAccess BY DEF ReadsOnly
<1>3. ASSUME NEW t \in Sweeper PROVE SweepSound(sweep'[t], stored', lastAccess')
  BY <1>1, <1>2 DEF QuotaInv
<1> QED BY <1>1, <1>3 DEF QuotaInv

\* A step that takes an entry out of the store.
LEMMA TakingKeepsTypes ==
  ASSUME QuotaTypes, NEW k \in Entry, stored' = [stored EXCEPT ![k] = Empty],
         UNCHANGED <<second, lastAccess, recordings, loopTask>>, sweep' \in [Sweeper -> SweepType]
  PROVE  QuotaTypes' /\ Cur(stored') = Cur(stored) \ {k}
         /\ \A j \in Entry \ {k} : stored'[j] = stored[j]
<1> USE QuotaAssumption
<1>1. Empty \in [bytes : Nat, created : Second] /\ Empty.bytes = 0 BY DEF Empty, Second
<1>2. stored' \in StoreType BY <1>1 DEF QuotaTypes, StoreType
<1>3. \A j \in Entry : stored'[j] = IF j = k THEN Empty ELSE stored[j] BY DEF QuotaTypes, StoreType
<1>4. Cur(stored') = Cur(stored) \ {k} BY <1>1, <1>3 DEF Cur
<1>5. \A j \in Entry : stored'[j].bytes \in {0, SizeOf[j]} BY <1>1, <1>3 DEF QuotaTypes
<1> QED BY <1>2, <1>3, <1>4, <1>5 DEF QuotaTypes, Second

LEMMA InitSound == QuotaInit => QuotaInv
<1> SUFFICES ASSUME QuotaInit PROVE QuotaInv OBVIOUS
<1> USE QuotaAssumption DEF QuotaInit
<1>1. Empty \in [bytes : Nat, created : Second] /\ Empty.bytes = 0 BY DEF Empty, Second
<1>2. QuotaTypes BY <1>1, AsleepIsASweep DEF QuotaTypes, StoreType, Second
<1>3. \A s \in Sweeper : SweepSound(sweep[s], stored, lastAccess) BY AsleepIsASweep DEF SweepSound
<1> QED BY <1>2, <1>3 DEF QuotaInv

LEMMA OthersKeepInv ==
  ASSUME QuotaInv, \/ \E k \in Entry : RecordEntry(k) \/ HitEntry(k) \/ PurgeEntry(k)
                   \/ Tick \/ CancelLoop
  PROVE  QuotaInv'
<1> USE QuotaAssumption
<1>1. ASSUME NEW k \in Entry, RecordEntry(k) PROVE QuotaInv'
  <2> DEFINE new == [bytes |-> SizeOf[k], created |-> second]
  <2>1. PICK told \in BOOLEAN, sweeps \in BOOLEAN :
          /\ stored' = [stored EXCEPT ![k] = new]
          /\ lastAccess' = [lastAccess EXCEPT ![k] = IF told THEN second ELSE @]
          /\ sweep' = [s \in Sweeper |-> IF sweeps /\ s = "run" THEN [Asleep EXCEPT !.at = "total"]
                                                                ELSE Grown(sweep[s], SizeOf[k])]
    BY <1>1 DEF RecordEntry
  <2>2. QuotaTypes BY DEF QuotaInv
  <2>3. second \in Second /\ second \in Nat BY <2>2 DEF QuotaTypes, Second
  <2>4. new \in [bytes : Nat, created : Second] /\ new.bytes = SizeOf[k] /\ SizeOf[k] > 0 /\ SizeOf[k] \in Nat BY <2>3
  <2> HIDE DEF new
  <2>5. stored' \in StoreType BY <2>1, <2>2, <2>4 DEF QuotaTypes, StoreType
  <2>6. \A j \in Entry : stored'[j] = IF j = k THEN new ELSE stored[j] BY <2>1, <2>2 DEF QuotaTypes, StoreType
  <2>7. Cur(stored') = Cur(stored) \cup {k} BY <2>4, <2>6 DEF Cur
  <2>8. \A j \in Entry : stored'[j].bytes \in {0, SizeOf[j]} BY <2>2, <2>4, <2>6 DEF QuotaTypes
  <2>9. lastAccess' \in [Entry -> Second \cup {-1}] BY <2>1, <2>2, <2>3 DEF QuotaTypes
  <2>10. ASSUME NEW s \in Sweeper
         PROVE  sweep'[s] \in SweepType /\ SweepSound(sweep'[s], stored', lastAccess')
    <3>1. sweep[s] \in SweepType /\ SweepSound(sweep[s], stored, lastAccess) /\ stored \in StoreType
      BY DEF QuotaInv, QuotaTypes
    <3>2. CASE sweeps /\ s = "run"
      <4>1. sweep'[s] = [Asleep EXCEPT !.at = "total"] BY <2>1, <3>2
      <4>2. sweep'[s] \in SweepType BY <4>1, AsleepIsASweep DEF SweepAt
      <4>3. ~ForQuota(sweep'[s]) BY <4>1 DEF ForQuota, Asleep
      <4> QED BY <4>2, <4>3 DEF SweepSound
    <3>3. CASE ~(sweeps /\ s = "run")
      <4>1. sweep'[s] = Grown(sweep[s], SizeOf[k]) BY <2>1, <3>3
      <4>2. SweepSound(Grown(sweep[s], SizeOf[k]), stored', lastAccess') BY <3>1, <2>5, <2>7, GrowingIsSound
      <4>3. Grown(sweep[s], SizeOf[k]) \in SweepType BY <3>1, <2>4, GrownFields
      <4> QED BY <4>1, <4>2, <4>3
    <3> QED BY <3>2, <3>3
  <2>11. sweep' \in [Sweeper -> SweepType]
    <3>1. sweep' = [s \in Sweeper |-> sweep'[s]] BY <2>1
    <3> QED BY <3>1, <2>10
  <2>12. second' = second /\ loopTask' = loopTask /\ recordings' \in 0..MaxRecordings
    BY <1>1, <2>2 DEF RecordEntry, QuotaTypes
  <2>13. QuotaTypes' BY <2>2, <2>5, <2>8, <2>9, <2>11, <2>12 DEF QuotaTypes, Second
  <2> QED BY <2>10, <2>13 DEF QuotaInv
<1>2. ASSUME NEW k \in Entry, HitEntry(k) PROVE QuotaInv'
  <2>1. QuotaTypes BY DEF QuotaInv
  <2>2. /\ lastAccess' = [lastAccess EXCEPT ![k] = second] /\ sweep' = [s \in Sweeper |-> Touched(sweep[s])]
        /\ second' = second /\ stored' = stored /\ recordings' = recordings /\ loopTask' = loopTask
    BY <1>2 DEF HitEntry
  <2>3. lastAccess' \in [Entry -> Second \cup {-1}] BY <2>1, <2>2 DEF QuotaTypes
  <2>4. ASSUME NEW s \in Sweeper
        PROVE  sweep'[s] = Touched(sweep[s]) /\ sweep'[s] \in SweepType /\ SweepSound(sweep'[s], stored', lastAccess')
    <3>1. sweep[s] \in SweepType /\ SweepSound(sweep[s], stored, lastAccess) /\ stored \in StoreType
      BY DEF QuotaInv, QuotaTypes
    <3>2. sweep'[s] = Touched(sweep[s]) BY <2>2
    <3>3. SweepSound(Touched(sweep[s]), stored, lastAccess') BY <3>1, ShrinkingIsSound
    <3> QED BY <3>1, <3>2, <3>3, <2>2, TouchedFields
  <2>5. sweep' \in [Sweeper -> SweepType] BY <2>2, <2>4
  <2>6. QuotaTypes' BY <2>1, <2>2, <2>3, <2>5 DEF QuotaTypes, Second, StoreType
  <2> QED BY <2>4, <2>6 DEF QuotaInv
<1>3. ASSUME NEW k \in Entry, PurgeEntry(k) PROVE QuotaInv'
  <2>1. QuotaTypes BY DEF QuotaInv
  <2>2. /\ stored' = [stored EXCEPT ![k] = Empty] /\ sweep' = [s \in Sweeper |-> Touched(sweep[s])]
        /\ UNCHANGED <<second, lastAccess, recordings, loopTask>>
    BY <1>3 DEF PurgeEntry
  <2>3. \A s \in Sweeper : sweep'[s] = Touched(sweep[s]) /\ sweep'[s] \in SweepType
    BY <2>1, <2>2, TouchedFields DEF QuotaTypes
  <2>4. sweep' \in [Sweeper -> SweepType] BY <2>2, <2>3
  <2>5. QuotaTypes' /\ Cur(stored') = Cur(stored) \ {k} BY <2>1, <2>2, <2>4, TakingKeepsTypes
  <2>6. ASSUME NEW s \in Sweeper PROVE SweepSound(sweep'[s], stored', lastAccess')
    <3>1. sweep[s] \in SweepType /\ SweepSound(sweep[s], stored, lastAccess) /\ stored \in StoreType
      BY DEF QuotaInv, QuotaTypes
    <3>2. stored' \in StoreType /\ Cur(stored') \subseteq Cur(stored) BY <2>5 DEF QuotaTypes
    <3> QED BY <3>1, <3>2, <2>3, ShrinkingIsSound
  <2> QED BY <2>5, <2>6 DEF QuotaInv
<1>4. ASSUME Tick PROVE QuotaInv'
  <2>1. second' \in Second /\ UNCHANGED <<stored, lastAccess, recordings, sweep, loopTask>>
    BY <1>4 DEF Tick, QuotaInv, QuotaTypes, Second
  <2> QED BY <2>1 DEF QuotaInv, QuotaTypes, SweepSound, Second, StoreType
<1>5. ASSUME CancelLoop PROVE QuotaInv'
  <2>1. QuotaTypes BY DEF QuotaInv
  <2> DEFINE w == IF sweep["loop"].at = "asleep" THEN [Asleep EXCEPT !.at = "off"] ELSE sweep["loop"]
  <2>2. w \in SweepType /\ SweepSound(w, stored, lastAccess)
    <3>1. CASE sweep["loop"].at = "asleep"
      <4>1. w = [Asleep EXCEPT !.at = "off"] /\ w.at = "off" BY <3>1 DEF Asleep
      <4>2. w \in SweepType BY <4>1, AsleepIsASweep DEF SweepAt
      <4> QED BY <4>1, <4>2 DEF SweepSound, ForQuota
    <3>2. CASE sweep["loop"].at # "asleep" BY <3>2 DEF QuotaInv, QuotaTypes, Sweeper
    <3> QED BY <3>1, <3>2
  <2>3. /\ sweep' = [sweep EXCEPT !["loop"] = w] /\ loopTask' = "cancelled"
        /\ UNCHANGED <<second, stored, lastAccess, recordings>> BY <1>5 DEF CancelLoop
  <2> HIDE DEF w
  <2>4. QuotaTypes' BY <2>1, <2>2, <2>3 DEF QuotaTypes, Second, StoreType
  <2>5. \A s \in Sweeper : sweep'[s] = IF s = "loop" THEN w ELSE sweep[s] BY <2>1, <2>3 DEF QuotaTypes
  <2> QED BY <2>2, <2>3, <2>4, <2>5 DEF QuotaInv
<1> QED BY <1>1, <1>2, <1>3, <1>4, <1>5

LEMMA IdleIsSound ==
  ASSUME NEW w, NEW st, NEW la, ~ForQuota(w) PROVE SweepSound(w, st, la)
BY DEF SweepSound

LEMMA SeenEntriesAre ==
  ASSUME QuotaTypes
  PROVE  /\ SeenEntries \in SUBSET EntryRead
         /\ \A e \in SeenEntries : /\ e.key \in Current /\ e.bytes = SizeOf[e.key] /\ e.age = stored[e.key].created
                                   /\ e = [key |-> e.key, bytes |-> e.bytes, age |-> e.age]
         /\ \A k \in Current : \E e \in SeenEntries : e.key = k
<1> USE QuotaAssumption
<1>1. ASSUME NEW k \in Current
      PROVE  k \in Entry /\ stored[k].bytes \in Nat /\ stored[k].bytes = SizeOf[k] /\ stored[k].created \in Int
  BY DEF Current, QuotaTypes, StoreType, Second
<1>2. ASSUME NEW e \in SeenEntries
      PROVE  /\ e \in EntryRead /\ e.key \in Current /\ e.bytes = SizeOf[e.key] /\ e.age = stored[e.key].created
             /\ e = [key |-> e.key, bytes |-> e.bytes, age |-> e.age]
  <2>1. PICK k \in Current : e = [key |-> k, bytes |-> stored[k].bytes, age |-> stored[k].created]
    BY DEF SeenEntries
  <2> QED BY <1>1, <2>1 DEF EntryRead
<1>3. ASSUME NEW k \in Current PROVE \E e \in SeenEntries : e.key = k
  <2>1. [key |-> k, bytes |-> stored[k].bytes, age |-> stored[k].created] \in SeenEntries BY DEF SeenEntries
  <2> QED BY <2>1
<1> QED BY <1>2, <1>3

LEMMA OrderedAre ==
  ASSUME QuotaTypes, NEW left \in SUBSET EntryRead
  PROVE  /\ Ordered(left) \in SUBSET EntryRead
         /\ \A e \in left : \E f \in Ordered(left) : f = ByAccess(e)
         /\ \A f \in Ordered(left) : \E e \in left :
              /\ f = ByAccess(e) /\ f.key = e.key /\ f.bytes = e.bytes
              /\ f.age = IF lastAccess[e.key] >= 0 THEN lastAccess[e.key] ELSE e.age
<1>1. ASSUME NEW e \in left
      PROVE  /\ ByAccess(e) \in EntryRead /\ ByAccess(e).key = e.key /\ ByAccess(e).bytes = e.bytes
             /\ ByAccess(e).age = IF lastAccess[e.key] >= 0 THEN lastAccess[e.key] ELSE e.age
  <2>1. e \in EntryRead OBVIOUS
  <2>2. e.key \in Entry BY <2>1 DEF EntryRead
  <2>3. lastAccess[e.key] \in Int BY <2>2 DEF QuotaTypes, Second
  <2>4. CASE lastAccess[e.key] >= 0 BY <2>1, <2>3, <2>4 DEF ByAccess, EntryRead
  <2>5. CASE ~(lastAccess[e.key] >= 0) BY <2>1, <2>5 DEF ByAccess
  <2> QED BY <2>4, <2>5
<1>2. \A f \in Ordered(left) : \E e \in left : f = ByAccess(e) BY DEF Ordered
<1>3. \A e \in left : ByAccess(e) \in Ordered(left) BY DEF Ordered
<1> QED BY <1>1, <1>2, <1>3

LEMMA WakeUpKeepsInv == ASSUME QuotaInv, WakeUp PROVE QuotaInv'
<1>1. [Asleep EXCEPT !.at = "total"] \in SweepType /\ ~ForQuota([Asleep EXCEPT !.at = "total"])
  BY AsleepIsASweep DEF SweepAt, ForQuota, Asleep
<1>2. SweepGoes("loop", [Asleep EXCEPT !.at = "total"]) /\ ReadsOnly BY DEF WakeUp
<1> DEFINE w == [Asleep EXCEPT !.at = "total"]
<1>3. w \in SweepType /\ ~ForQuota(w) /\ SweepGoes("loop", w) BY <1>1, <1>2
<1> HIDE DEF w
<1> QED BY <1>2, <1>3, IdleIsSound, ReadingKeepsInv DEF Sweeper

LEMMA ReadTotalKeepsInv == ASSUME QuotaInv, NEW s \in Sweeper, ReadTotal(s) PROVE QuotaInv'
<1> USE QuotaAssumption
<1> DEFINE at == IF OverQuota(StoredBytes) THEN "sizes" ELSE "met"
           total == IF OverQuota(StoredBytes) THEN StoredBytes ELSE 0
           w == [Asleep EXCEPT !.at = at, !.running = total]
<1>1. SweepGoes(s, w) /\ ReadsOnly BY DEF ReadTotal
<1>2. StoredBytes = Load(Current) BY StoredIsLoad DEF QuotaInv
<1>3. Current \in SUBSET Entry /\ Cur(stored) = Current BY DEF Current, Cur
<1>4. StoredBytes \in Nat BY <1>2, <1>3, Loads
<1>5. at \in SweepAt /\ total \in Int /\ (at = "met" => StoredBytes <= MaxBytes) /\ at \in {"sizes", "met"}
      /\ (at = "sizes" => total = StoredBytes)
  BY <1>4 DEF SweepAt, OverQuota
<1> HIDE DEF at, total
<1>6. /\ w \in SweepType /\ w.at = at /\ w.running = total
      /\ w.left = {} /\ w.grown = 0 /\ w.touched = FALSE /\ w.evicted = {}
  <2>1. /\ Asleep \in SweepType /\ Asleep.left = {} /\ Asleep.grown = 0
        /\ Asleep.touched = FALSE /\ Asleep.evicted = {} BY AsleepIsASweep DEF Asleep
  <2> QED BY <1>5, <2>1 DEF SweepType
<1> HIDE DEF w
<1>7. Accounted(w, stored) BY <1>2, <1>3, <1>4, <1>5, <1>6 DEF Accounted
<1>8. Undisturbed(w, stored, lastAccess) BY <1>5, <1>6 DEF Undisturbed
<1> QED BY <1>1, <1>6, <1>7, <1>8, ReadingKeepsInv DEF SweepSound

LEMMA ReadSizesKeepsInv == ASSUME QuotaInv, NEW s \in Sweeper, ReadSizes(s) PROVE QuotaInv'
<1> USE QuotaAssumption
<1> DEFINE v == sweep[s]
           w == [v EXCEPT !.at = "order", !.left = SeenEntries]
<1>1. SweepGoes(s, w) /\ ReadsOnly /\ v.at = "sizes" BY DEF ReadSizes
<1>2. v \in SweepType /\ QuotaTypes /\ SweepSound(v, stored, lastAccess) BY DEF QuotaInv, QuotaTypes
<1> HIDE DEF v
<1>3. /\ w.at = "order" /\ w.left = SeenEntries /\ w.running = v.running /\ w.grown = v.grown
      /\ w.touched = v.touched /\ w.evicted = v.evicted /\ w \in SweepType
  BY <1>2, SeenEntriesAre DEF SweepType, SweepAt
<1> HIDE DEF w
<1>4. Current \in SUBSET Entry /\ Cur(stored) = Current BY DEF Current, Cur
<1>5. SeenKeys(w) = Cur(stored) BY <1>2, <1>3, <1>4, SeenEntriesAre DEF SeenKeys
<1>6. ReadWell(w)
  <2>1. ASSUME NEW e \in w.left, NEW f \in w.left, e.key = f.key PROVE e = f
    <3>1. e = [key |-> e.key, bytes |-> SizeOf[e.key], age |-> stored[e.key].created] BY <1>2, <1>3, SeenEntriesAre
    <3>2. f = [key |-> f.key, bytes |-> SizeOf[f.key], age |-> stored[f.key].created] BY <1>2, <1>3, SeenEntriesAre
    <3> QED BY <2>1, <3>1, <3>2
  <2> QED BY <1>2, <1>3, <2>1, SeenEntriesAre DEF ReadWell
<1>7. Accounted(v, stored) BY <1>1, <1>2 DEF SweepSound, ForQuota
<1>8. Cur(stored) \cup SeenKeys(w) = Cur(stored) /\ Cur(stored) \ SeenKeys(w) = {} BY <1>5
<1>9. Accounted(w, stored)
  <2>1. Load(Cur(stored)) <= w.running + w.grown BY <1>1, <1>3, <1>7 DEF Accounted
  <2>2. Load({}) = 0 /\ w.grown \in Nat BY <1>3, <1>4, Loads DEF SweepType
  <2>3. Load(Cur(stored) \cup SeenKeys(w)) <= w.running + w.grown BY <2>1, <1>8
  <2>4. Load(Cur(stored) \ SeenKeys(w)) <= w.grown BY <2>2, <1>8
  <2> QED BY <1>3, <1>6, <2>3, <2>4 DEF Accounted
<1>10. ~w.touched => Undisturbed(w, stored, lastAccess)
  <2>1. ~v.touched => Undisturbed(v, stored, lastAccess) BY <1>1, <1>2 DEF SweepSound, ForQuota
  <2> QED BY <1>1, <1>2, <1>3, <1>5, <2>1, SeenEntriesAre DEF Undisturbed
<1> QED BY <1>1, <1>3, <1>9, <1>10, ReadingKeepsInv DEF SweepSound

LEMMA ReadAccessesKeepsInv == ASSUME QuotaInv, NEW s \in Sweeper, ReadAccesses(s) PROVE QuotaInv'
<1> USE QuotaAssumption
<1> DEFINE v == sweep[s]
           w1 == [v EXCEPT !.at = "evict", !.left = Ordered(@)]
           w2 == [v EXCEPT !.at = "evict", !.touched = TRUE]
<1>1. ReadsOnly /\ v.at = "order" /\ (SweepGoes(s, w1) \/ SweepGoes(s, w2)) BY DEF ReadAccesses
<1>2. v \in SweepType /\ QuotaTypes /\ SweepSound(v, stored, lastAccess) BY DEF QuotaInv, QuotaTypes
<1> HIDE DEF v
<1>3. Accounted(v, stored) BY <1>1, <1>2 DEF SweepSound, ForQuota
<1>4. v.left \in SUBSET EntryRead BY <1>2 DEF SweepType
<1>5. CASE SweepGoes(s, w1)
  <2>1. /\ w1.at = "evict" /\ w1.left = Ordered(v.left) /\ w1.running = v.running /\ w1.grown = v.grown
        /\ w1.touched = v.touched /\ w1.evicted = v.evicted /\ w1 \in SweepType
    BY <1>2, <1>4, OrderedAre DEF SweepType, SweepAt
  <2> HIDE DEF w1
  <2>2. SeenKeys(w1) = SeenKeys(v)
    <3>1. ASSUME NEW e \in v.left PROVE \E f \in w1.left : f.key = e.key
      <4>1. ByAccess(e) \in w1.left BY <1>2, <1>4, <2>1, OrderedAre
      <4>2. ByAccess(e).key = e.key BY DEF ByAccess, EntryRead
      <4> QED BY <4>1, <4>2
    <3>2. ASSUME NEW f \in w1.left PROVE \E e \in v.left : f.key = e.key BY <1>2, <1>4, <2>1, OrderedAre
    <3> QED BY <3>1, <3>2 DEF SeenKeys
  <2>3. ReadWell(w1)
    <3>1. ReadWell(v) BY <1>1, <1>3 DEF Accounted
    <3>2. ASSUME NEW e \in w1.left PROVE e.bytes = SizeOf[e.key] BY <1>2, <1>4, <2>1, <3>1, OrderedAre DEF ReadWell
    <3>3. ASSUME NEW e \in w1.left, NEW f \in w1.left, e.key = f.key PROVE e = f
      <4>1. PICK a \in v.left : e = ByAccess(a) /\ e.key = a.key BY <1>2, <1>4, <2>1, OrderedAre
      <4>2. PICK b \in v.left : f = ByAccess(b) /\ f.key = b.key BY <1>2, <1>4, <2>1, OrderedAre
      <4> QED BY <3>1, <3>3, <4>1, <4>2 DEF ReadWell
    <3> QED BY <3>2, <3>3 DEF ReadWell
  <2>4. Accounted(w1, stored) BY <1>1, <1>3, <2>1, <2>2, <2>3 DEF Accounted
  <2>5. ASSUME ~w1.touched PROVE Undisturbed(w1, stored, lastAccess)
    <3>1. Undisturbed(v, stored, lastAccess) BY <1>1, <1>2, <2>1, <2>5 DEF SweepSound, ForQuota
    <3>2. SeenKeys(w1) = Cur(stored) /\ w1.evicted = {} BY <1>1, <2>1, <2>2, <3>1 DEF Undisturbed
    <3>3. ASSUME NEW f \in w1.left PROVE f.age = UsedAt(f.key, stored, lastAccess)
      <4>1. PICK e \in v.left : f.key = e.key /\ f.age = IF lastAccess[e.key] >= 0 THEN lastAccess[e.key] ELSE e.age
        BY <1>2, <1>4, <2>1, OrderedAre
      <4>2. e.age = stored[e.key].created BY <1>1, <3>1 DEF Undisturbed
      <4> QED BY <4>1, <4>2 DEF UsedAt
    <3> QED BY <2>1, <3>2, <3>3 DEF Undisturbed
  <2> QED BY <1>1, <1>5, <2>1, <2>4, <2>5, ReadingKeepsInv DEF SweepSound
<1>6. CASE SweepGoes(s, w2)
  <2>1. /\ w2.at = "evict" /\ w2.left = v.left /\ w2.running = v.running /\ w2.grown = v.grown
        /\ w2.touched = TRUE /\ w2 \in SweepType
    BY <1>2 DEF SweepType, SweepAt
  <2> HIDE DEF w2
  <2>2. SeenKeys(w2) = SeenKeys(v) /\ (ReadWell(v) => ReadWell(w2)) BY <2>1 DEF SeenKeys, ReadWell
  <2>3. Accounted(w2, stored) BY <1>1, <1>3, <2>1, <2>2 DEF Accounted
  <2> QED BY <1>1, <1>6, <2>1, <2>3, ReadingKeepsInv DEF SweepSound
<1> QED BY <1>1, <1>5, <1>6

LEMMA EvictNextKeepsInv == ASSUME QuotaInv, NEW s \in Sweeper, EvictNext(s) PROVE QuotaInv'
<1> USE QuotaAssumption
<1> DEFINE v == sweep[s]
<1>1. PICK e \in v.left :
        /\ \A f \in v.left : e.age <= f.age
        /\ OthersTouched(s, [v EXCEPT !.left = @ \ {e}, !.running = @ - e.bytes,
                                      !.evicted = @ \cup {LastUse(e.key)}])
        /\ Purge(s, e)
  BY DEF EvictNext
<1> DEFINE use == LastUse(e.key)
           w == [v EXCEPT !.left = @ \ {e}, !.running = @ - e.bytes, !.evicted = @ \cup {use}]
<1>2. v.at = "evict" BY DEF EvictNext
<1>3. v \in SweepType /\ QuotaTypes /\ SweepSound(v, stored, lastAccess) BY DEF QuotaInv, QuotaTypes
<1>4. \A t \in Sweeper : sweep'[t] = IF t = s THEN w ELSE Touched(sweep[t]) BY <1>1 DEF OthersTouched
<1>5. sweep' = [t \in Sweeper |-> sweep'[t]] BY <1>1 DEF OthersTouched
<1>6. stored' = [stored EXCEPT ![e.key] = Empty] /\ UNCHANGED <<second, lastAccess, recordings, loopTask>>
  BY <1>1 DEF Purge
<1> HIDE DEF v
<1>7. e \in EntryRead /\ e.key \in Entry /\ e.bytes \in Nat /\ e.age \in Int BY <1>3 DEF SweepType, EntryRead
<1>8. use \in Int /\ use = UsedAt(e.key, stored, lastAccess)
  BY <1>3, <1>7 DEF LastUse, UsedAt, QuotaTypes, StoreType, Second
<1> HIDE DEF use
<1>9. /\ w.at = "evict" /\ w.left = v.left \ {e} /\ w.running = v.running - e.bytes /\ w.grown = v.grown
      /\ w.touched = v.touched /\ w.evicted = v.evicted \cup {use} /\ w \in SweepType
      /\ v.running \in Int /\ v.grown \in Nat
  <2>1. v.running \in Int /\ v.grown \in Nat /\ v.left \in SUBSET EntryRead /\ v.evicted \in SUBSET Int
    BY <1>3 DEF SweepType
  <2>2. v.left \ {e} \in SUBSET EntryRead /\ v.evicted \cup {use} \in SUBSET Int /\ v.running - e.bytes \in Int
    BY <1>7, <1>8, <2>1
  <2>3. /\ w.at = "evict" /\ w.left = v.left \ {e} /\ w.running = v.running - e.bytes /\ w.grown = v.grown
        /\ w.touched = v.touched /\ w.evicted = v.evicted \cup {use}
    BY <1>2, <1>3 DEF SweepType
  <2>4. w \in SweepType BY <1>3, <2>2 DEF SweepType
  <2> QED BY <2>1, <2>3, <2>4
<1> HIDE DEF w
<1>10. \A t \in Sweeper : sweep'[t] \in SweepType
  BY <1>3, <1>4, <1>9, TouchedFields DEF QuotaTypes
<1>11. sweep' \in [Sweeper -> SweepType] BY <1>5, <1>10
<1>12. /\ QuotaTypes' /\ Cur(stored') = Cur(stored) \ {e.key}
       /\ \A j \in Entry \ {e.key} : stored'[j] = stored[j]
  BY <1>3, <1>6, <1>7, <1>11, TakingKeepsTypes
<1>13. Accounted(v, stored) BY <1>2, <1>3 DEF SweepSound, ForQuota
<1>14. ReadWell(v) /\ e.bytes = SizeOf[e.key] BY <1>1, <1>2, <1>13 DEF Accounted, ReadWell
<1>15. SeenKeys(w) = SeenKeys(v) \ {e.key}
  <2>1. ASSUME NEW f \in w.left PROVE f \in v.left /\ f.key # e.key BY <1>1, <1>9, <1>14 DEF ReadWell
  <2>2. ASSUME NEW f \in v.left, f.key # e.key PROVE f \in w.left BY <1>9, <2>2
  <2> QED BY <2>1, <2>2 DEF SeenKeys
<1>16. e.key \in SeenKeys(v) /\ SeenKeys(v) \in SUBSET Entry BY <1>1, <1>3, SeenAreEntries DEF SeenKeys
<1>17. Cur(stored) \in SUBSET Entry BY DEF Cur
<1>18. Accounted(w, stored')
  <2> DEFINE A == Cur(stored) \cup SeenKeys(v)
             B == Cur(stored) \ SeenKeys(v)
  <2>1. Load(A) <= v.running + v.grown /\ Load(B) <= v.grown BY <1>2, <1>13 DEF Accounted
  <2>2. A \in SUBSET Entry /\ e.key \in A BY <1>16, <1>17
  <2>3. Cur(stored') \cup SeenKeys(w) = A \ {e.key} BY <1>12, <1>15
  <2>4. Cur(stored') \ SeenKeys(w) = B BY <1>12, <1>15, <1>16
  <2>5. Load(A) = SizeOf[e.key] + Load(A \ {e.key}) /\ Load(A) \in Nat BY <2>2, Loads
  <2>6. Load(A \ {e.key}) \in Nat BY <2>2, Loads
  <2> HIDE DEF A, B
  <2>10. SizeOf[e.key] \in Nat BY <1>7
  <2>7. Load(Cur(stored') \cup SeenKeys(w)) <= w.running + w.grown
    <3>1. Load(A \ {e.key}) = Load(A) - SizeOf[e.key] BY <2>5, <2>6, <2>10
    <3>2. w.running = v.running - SizeOf[e.key] /\ w.grown = v.grown BY <1>9, <1>14
    <3>3. Load(A \ {e.key}) <= w.running + w.grown BY <1>9, <2>1, <2>5, <2>10, <3>1, <3>2
    <3> QED BY <2>3, <3>3
  <2>8. Load(Cur(stored') \ SeenKeys(w)) <= w.grown BY <1>9, <2>1, <2>4
  <2>9. ReadWell(w) BY <1>9, <1>14 DEF ReadWell
  <2> QED BY <1>9, <2>7, <2>8, <2>9 DEF Accounted
<1>19. ASSUME ~w.touched PROVE Undisturbed(w, stored', lastAccess')
  <2>1. Undisturbed(v, stored, lastAccess) BY <1>2, <1>3, <1>9, <1>19 DEF SweepSound, ForQuota
  <2>2. /\ SeenKeys(v) = Cur(stored)
        /\ \A f \in v.left : f.age = UsedAt(f.key, stored, lastAccess)
        /\ \A used \in v.evicted, f \in v.left : used <= f.age BY <1>2, <2>1 DEF Undisturbed
  <2>3. SeenKeys(w) = Cur(stored') BY <1>12, <1>15, <2>2
  <2>4. ASSUME NEW f \in w.left
        PROVE  f.age = UsedAt(f.key, stored', lastAccess') /\ \A used \in w.evicted : used <= f.age
    <3>1. f \in v.left /\ f.key \in Entry BY <1>3, <1>9 DEF SweepType, EntryRead
    <3>2. f.key # e.key BY <1>1, <1>9, <1>14, <3>1 DEF ReadWell
    <3>3. stored'[f.key] = stored[f.key] /\ lastAccess' = lastAccess BY <1>6, <1>12, <3>1, <3>2
    <3>4. f.age = UsedAt(f.key, stored', lastAccess') BY <2>2, <3>1, <3>3 DEF UsedAt
    <3>5. use = e.age BY <1>1, <1>8, <2>2
    <3> QED BY <1>1, <1>9, <2>2, <3>1, <3>4, <3>5
  <2> QED BY <1>9, <2>3, <2>4 DEF Undisturbed
<1>20. ASSUME NEW t \in Sweeper PROVE SweepSound(sweep'[t], stored', lastAccess')
  <2>1. CASE t = s BY <1>4, <1>18, <1>19, <2>1 DEF SweepSound
  <2>2. CASE t # s
    <3>1. sweep'[t] = Touched(sweep[t]) BY <1>4, <2>2
    <3>2. sweep[t] \in SweepType /\ SweepSound(sweep[t], stored, lastAccess) /\ stored \in StoreType
          /\ stored' \in StoreType /\ Cur(stored') \subseteq Cur(stored) BY <1>12 DEF QuotaInv, QuotaTypes
    <3> QED BY <3>1, <3>2, ShrinkingIsSound
  <2> QED BY <2>1, <2>2
<1> QED BY <1>12, <1>20 DEF QuotaInv

LEMMA QuotaMetKeepsInv == ASSUME QuotaInv, NEW s \in Sweeper, QuotaMet(s) PROVE QuotaInv'
<1> USE QuotaAssumption
<1> DEFINE v == sweep[s]
           w == [v EXCEPT !.at = "met", !.running = 0, !.left = {}]
<1>1. /\ v.at = "evict" /\ (v.left = {} \/ ~OverQuota(v.running))
      /\ SweepGoes(s, w) /\ ReadsOnly BY DEF QuotaMet
<1>2. v \in SweepType /\ QuotaTypes /\ SweepSound(v, stored, lastAccess) BY DEF QuotaInv, QuotaTypes
<1> HIDE DEF v
<1>3. /\ w.at = "met" /\ w.grown = v.grown /\ w.touched = v.touched /\ w.evicted = v.evicted /\ w \in SweepType
      /\ v.running \in Int /\ v.grown \in Nat
  <2>1. v.running \in Int /\ v.grown \in Nat BY <1>2 DEF SweepType
  <2>2. w.at = "met" /\ w.grown = v.grown /\ w.touched = v.touched /\ w.evicted = v.evicted
    BY <1>2 DEF SweepType
  <2>3. w \in SweepType
    <3>1. "met" \in SweepAt /\ {} \in SUBSET EntryRead /\ 0 \in Int BY DEF SweepAt
    <3> QED BY <1>2, <3>1, SweepWith
  <2> QED BY <2>1, <2>2, <2>3
<1> HIDE DEF w
<1>4. Accounted(v, stored) BY <1>1, <1>2 DEF SweepSound, ForQuota
<1>5. /\ Load(Cur(stored) \cup SeenKeys(v)) <= v.running + v.grown
      /\ Load(Cur(stored) \ SeenKeys(v)) <= v.grown BY <1>1, <1>4 DEF Accounted
<1>6. Cur(stored) \in SUBSET Entry /\ SeenKeys(v) \in SUBSET Entry BY <1>2, SeenAreEntries DEF Cur
<1>7. Load(Cur(stored)) <= MaxBytes + v.grown
  <2>1. CASE v.left = {}
    <3>1. Cur(stored) \ SeenKeys(v) = Cur(stored) BY <2>1 DEF SeenKeys
    <3> QED BY <1>3, <1>5, <1>6, <3>1, Loads
  <2>2. CASE ~OverQuota(v.running)
    <3>1. Cur(stored) \cup SeenKeys(v) \in SUBSET Entry /\ Cur(stored) \in SUBSET (Cur(stored) \cup SeenKeys(v)) BY <1>6
    <3>2. Load(Cur(stored)) <= Load(Cur(stored) \cup SeenKeys(v)) /\ Load(Cur(stored) \cup SeenKeys(v)) \in Nat
          /\ Load(Cur(stored)) \in Nat
      BY <1>6, <3>1, Loads
    <3> QED BY <1>3, <1>5, <2>2, <3>2 DEF OverQuota
  <2> QED BY <1>1, <2>1, <2>2
<1>8. Accounted(w, stored) BY <1>3, <1>7 DEF Accounted
<1>9. ASSUME ~w.touched PROVE Undisturbed(w, stored, lastAccess)
  <2>1. Undisturbed(v, stored, lastAccess) BY <1>1, <1>2, <1>3, <1>9 DEF SweepSound, ForQuota
  <2>2. ASSUME NEW used \in w.evicted, NEW k \in Cur(stored) PROVE used <= UsedAt(k, stored, lastAccess)
    <3>1. k \in SeenKeys(v) BY <1>1, <2>1 DEF Undisturbed
    <3>2. PICK e \in v.left : e.key = k BY <3>1 DEF SeenKeys
    <3> QED BY <1>1, <1>3, <2>1, <3>2 DEF Undisturbed
  <2> QED BY <1>3, <2>2 DEF Undisturbed
<1> QED BY <1>1, <1>3, <1>8, <1>9, ReadingKeepsInv DEF SweepSound

\* What a sweep does once the quota is met is no longer for the quota.
LEMMA AfterQuotaKeepsInv ==
  ASSUME QuotaInv, NEW s \in Sweeper, \/ StartAge \/ ReadAges \/ EndOfSweep \/ EndOfRun \/ Raises(s)
  PROVE  QuotaInv'
<1> USE QuotaAssumption
<1>0. QuotaTypes /\ "loop" \in Sweeper /\ "run" \in Sweeper BY DEF QuotaInv, Sweeper
<1>1. ASSUME StartAge PROVE QuotaInv'
  <2> DEFINE c == second - MaxAge
             w == [Asleep EXCEPT !.at = "age_order", !.cutoff = c, !.left = SeenEntries]
  <2>1. SweepGoes("loop", w) /\ ReadsOnly BY <1>1 DEF StartAge
  <2>2. c \in Int BY <1>0 DEF QuotaTypes, Second
  <2> HIDE DEF c
  <2>3. w \in SweepType /\ w.at = "age_order"
    <3>1. Asleep \in SweepType BY AsleepIsASweep
    <3> QED BY <1>0, <2>2, <3>1, SeenEntriesAre DEF SweepType, SweepAt
  <2> HIDE DEF w
  <2>4. ~ForQuota(w) BY <2>3 DEF ForQuota
  <2> QED BY <1>0, <2>1, <2>3, <2>4, IdleIsSound, ReadingKeepsInv
<1>2. ASSUME ReadAges PROVE QuotaInv'
  <2> DEFINE v == sweep["loop"]
  <2>1. PICK readable \in BOOLEAN :
          LET seen == IF readable THEN Ordered(v.left) ELSE v.left
          IN  SweepGoes("loop", [v EXCEPT !.at = "stale", !.left = {e \in seen : e.age < v.cutoff}])
    BY <1>2 DEF ReadAges
  <2>2. v \in SweepType BY <1>0 DEF QuotaTypes
  <2> DEFINE seen == IF readable THEN Ordered(v.left) ELSE v.left
             stale == {e \in seen : e.age < v.cutoff}
             w == [v EXCEPT !.at = "stale", !.left = stale]
  <2>3. SweepGoes("loop", w) /\ ReadsOnly BY <1>2, <2>1 DEF ReadAges
  <2> HIDE DEF v
  <2>4. v.left \in SUBSET EntryRead BY <2>2 DEF SweepType
  <2>5. stale \in SUBSET EntryRead BY <1>0, <2>4, OrderedAre
  <2> HIDE DEF seen, stale
  <2>6. w \in SweepType /\ w.at = "stale" BY <2>2, <2>5 DEF SweepType, SweepAt
  <2> HIDE DEF w
  <2>7. ~ForQuota(w) BY <2>6 DEF ForQuota
  <2> QED BY <1>0, <2>3, <2>6, <2>7, IdleIsSound, ReadingKeepsInv
<1>3. ASSUME NEW a \in {"asleep", "off", "dead"}, NEW t \in Sweeper, NEW w, w = [Asleep EXCEPT !.at = a],
             SweepGoes(t, w), ReadsOnly
      PROVE  QuotaInv'
  <2>1. w \in SweepType /\ w.at = a BY <1>3, AsleepIsASweep DEF SweepAt, Asleep
  <2>2. ~ForQuota(w) BY <2>1 DEF ForQuota
  <2> QED BY <1>3, <2>1, <2>2, IdleIsSound, ReadingKeepsInv
<1>4. Asleep = [Asleep EXCEPT !.at = "asleep"] BY DEF Asleep
<1>5. ASSUME EndOfSweep PROVE QuotaInv'
  <2>1. SweepGoes("loop", Rest("loop")) /\ ReadsOnly BY <1>5 DEF EndOfSweep
  <2>2. Rest("loop") = [Asleep EXCEPT !.at = "off"] \/ Rest("loop") = [Asleep EXCEPT !.at = "asleep"] BY <1>4 DEF Rest
  <2> QED BY <1>0, <1>3, <2>1, <2>2
<1>6. ASSUME EndOfRun PROVE QuotaInv'
  <2>1. SweepGoes("run", Asleep) /\ ReadsOnly BY <1>6 DEF EndOfRun
  <2> QED BY <1>0, <1>3, <1>4, <2>1
<1>7. ASSUME Raises(s) PROVE QuotaInv'
  <2> DEFINE w == IF s = "loop" THEN [Asleep EXCEPT !.at = "dead"] ELSE Asleep
  <2>1. SweepGoes(s, w) /\ ReadsOnly BY <1>7 DEF Raises
  <2>2. w = [Asleep EXCEPT !.at = "dead"] \/ w = [Asleep EXCEPT !.at = "asleep"] BY <1>4
  <2> HIDE DEF w
  <2> QED BY <1>3, <2>1, <2>2
<1> QED BY <1>1, <1>2, <1>5, <1>6, <1>7

LEMMA PurgeStaleKeepsInv == ASSUME QuotaInv, PurgeStale PROVE QuotaInv'
<1> USE QuotaAssumption
<1> DEFINE v == sweep["loop"]
<1>1. PICK e \in v.left : OthersTouched("loop", [v EXCEPT !.left = @ \ {e}]) /\ Purge("loop", e) BY DEF PurgeStale
<1> DEFINE w == [v EXCEPT !.left = @ \ {e}]
<1>2. QuotaTypes /\ v \in SweepType /\ v.at = "stale" BY DEF QuotaInv, QuotaTypes, Sweeper, PurgeStale
<1>3. \A t \in Sweeper : sweep'[t] = IF t = "loop" THEN w ELSE Touched(sweep[t]) BY <1>1 DEF OthersTouched
<1>4. sweep' = [t \in Sweeper |-> sweep'[t]] BY <1>1 DEF OthersTouched
<1>5. stored' = [stored EXCEPT ![e.key] = Empty] /\ UNCHANGED <<second, lastAccess, recordings, loopTask>>
  BY <1>1 DEF Purge
<1> HIDE DEF v
<1>6. e.key \in Entry BY <1>2 DEF SweepType, EntryRead
<1>7. w \in SweepType /\ w.at = "stale" BY <1>2 DEF SweepType
<1> HIDE DEF w
<1>8. \A t \in Sweeper : sweep'[t] \in SweepType BY <1>2, <1>3, <1>7, TouchedFields DEF QuotaTypes
<1>9. sweep' \in [Sweeper -> SweepType] BY <1>4, <1>8
<1>10. QuotaTypes' /\ Cur(stored') = Cur(stored) \ {e.key} BY <1>2, <1>5, <1>6, <1>9, TakingKeepsTypes
<1>11. ASSUME NEW t \in Sweeper PROVE SweepSound(sweep'[t], stored', lastAccess')
  <2>1. CASE t = "loop"
    <3>1. ~ForQuota(w) BY <1>7 DEF ForQuota
    <3> QED BY <1>3, <2>1, <3>1, IdleIsSound
  <2>2. CASE t # "loop"
    <3>1. sweep'[t] = Touched(sweep[t]) BY <1>3, <2>2
    <3>2. sweep[t] \in SweepType /\ SweepSound(sweep[t], stored, lastAccess) /\ stored \in StoreType
          /\ stored' \in StoreType /\ Cur(stored') \subseteq Cur(stored) BY <1>10 DEF QuotaInv, QuotaTypes
    <3> QED BY <3>1, <3>2, ShrinkingIsSound
  <2> QED BY <2>1, <2>2
<1> QED BY <1>10, <1>11 DEF QuotaInv

LEMMA QuotaStep == QuotaInv /\ [QuotaNext]_quotaVars => QuotaInv'
<1> SUFFICES ASSUME QuotaInv, [QuotaNext]_quotaVars PROVE QuotaInv' OBVIOUS
<1>1. CASE UNCHANGED quotaVars
  BY <1>1 DEF quotaVars, QuotaInv, QuotaTypes, SweepSound, Second, StoreType
<1>2. CASE (\E k \in Entry : RecordEntry(k) \/ HitEntry(k) \/ PurgeEntry(k)) \/ Tick \/ CancelLoop
  BY <1>2, OthersKeepInv
<1>3. CASE LoopStep \/ RunStep
  <2>1. "loop" \in Sweeper /\ "run" \in Sweeper BY DEF Sweeper
  <2> QED BY <1>3, <2>1, WakeUpKeepsInv, ReadTotalKeepsInv, ReadSizesKeepsInv, ReadAccessesKeepsInv,
             EvictNextKeepsInv, QuotaMetKeepsInv, AfterQuotaKeepsInv, PurgeStaleKeepsInv DEF LoopStep, RunStep
<1>4. CASE \E s \in Sweeper : Raises(s) BY <1>4, AfterQuotaKeepsInv
<1> QED BY <1>1, <1>2, <1>3, <1>4 DEF QuotaNext

LEMMA QuotaAlways == QuotaSpec => []QuotaInv
BY InitSound, QuotaStep, PTL DEF QuotaSpec

LEMMA InvIsRight == QuotaInv => EvictionIsRight /\ QuotaTypeOK
<1> SUFFICES ASSUME QuotaInv PROVE EvictionIsRight /\ QuotaTypeOK OBVIOUS
<1> USE QuotaAssumption
<1>1. QuotaTypes /\ Cur(stored) = Current BY DEF QuotaInv, Cur, Current
<1>2. StoredBytes = Load(Current) BY <1>1, StoredIsLoad
<1>3. QuotaIsMet
  <2>1. ASSUME NEW s \in Sweeper, sweep[s].at = "met" PROVE StoredBytes <= MaxBytes + sweep[s].grown
    BY <1>1, <1>2, <2>1 DEF QuotaInv, SweepSound, ForQuota, Accounted
  <2> QED BY <2>1 DEF QuotaIsMet
<1>4. LeastRecentlyUsed
  <2>1. ASSUME NEW s \in Sweeper, sweep[s].at = "met", ~sweep[s].touched,
               NEW used \in sweep[s].evicted, NEW k \in Current
        PROVE  used <= LastUse(k)
    <3>1. Undisturbed(sweep[s], stored, lastAccess) BY <2>1 DEF QuotaInv, SweepSound, ForQuota
    <3>2. used <= UsedAt(k, stored, lastAccess) BY <1>1, <2>1, <3>1 DEF Undisturbed
    <3> QED BY <3>2 DEF UsedAt, LastUse
  <2> QED BY <2>1 DEF LeastRecentlyUsed
<1>5. QuotaTypeOK
  <2>1. ASSUME NEW s \in Sweeper
        PROVE  /\ sweep[s].at \in SweepAt /\ sweep[s].running \in Int
               /\ sweep[s].cutoff \in Int /\ sweep[s].grown \in Nat
    <3>1. sweep[s] \in SweepType BY <1>1 DEF QuotaTypes
    <3> QED BY <3>1 DEF SweepType
  <2> QED BY <1>1, <2>1 DEF QuotaTypes, QuotaTypeOK, StoreType
<1> QED BY <1>3, <1>4, <1>5 DEF EvictionIsRight

\* Sweeps, the clock and the entries keep their shape, for any entries, quota and age.
THEOREM EvictionTypes == QuotaSpec => []QuotaTypeOK
BY QuotaAlways, InvIsRight, PTL

\* For any entries of any sizes, whatever is recorded, hit and purged beside the sweeps
\* of the daemon and of the runs (quota eviction, age eviction): a sweep that is done has
\* brought the store under its quota, but for what was recorded since it read the total,
\* and one that nobody disturbed has taken the least recently used.
THEOREM SweepsEvictRightly == QuotaSpec => []EvictionIsRight
BY QuotaAlways, InvIsRight, PTL

-----------------------------------------------------------------------------
(* SessionJournal. The rows of a session add up to what it paid and saved, *)
(* at the usage their keys have now or had when they were priced, and what *)
(* they price stays stored while a report reads them; what a hard purge has*)
(* been through is gone while nobody calls.                                *)

Kinds == SUBSET Event
Rows  == [Key \X Event -> Nat]
Prices == [Key -> Nat]
\* What the rows of some kinds cost, each at the price of its key.
Cost(rows, kinds, price)  == [r \in Key \X kinds |-> rows[r] * price[r[1]]]
Value(rows, kinds, price) == Total(Cost(rows, kinds, price), Key \X kinds)
Priced == Executed \cup {"hit"}
TruthType == [paid : Nat, saved : Nat, told : BOOLEAN]

\* Rows tell the truth t: they add up to it, and what they price is stored.
Tells(rows, t, cur, price) ==
  t.told => /\ Value(rows, Executed, price) = t.paid /\ Value(rows, {"hit"}, price) = t.saved
            /\ \A k \in Key, e \in Priced : rows[<<k, e>>] > 0 => k \in cur

LEMMA KindsAre == /\ Executed \in Kinds /\ {"hit"} \in Kinds /\ "hit" \notin Executed
                  /\ "miss" \notin Executed /\ "record" \in Executed /\ Priced \in Kinds /\ "miss" \notin Priced
                  /\ "hit" \in Event /\ "miss" \in Event /\ "record" \in Event /\ IsFiniteSet(Event)
<1>1. IsFiniteSet(Event)
  <2>1. Event = (((({"hit"} \cup {"record"}) \cup {"run"}) \cup {"miss"}) \cup {"would_hit"}) \cup {"would_miss"} BY DEF Event
  <2>2. IsFiniteSet({"hit"}) BY FS_Singleton
  <2>3. IsFiniteSet({"hit"} \cup {"record"}) BY <2>2, FS_AddElement
  <2>4. IsFiniteSet(({"hit"} \cup {"record"}) \cup {"run"}) BY <2>3, FS_AddElement
  <2>5. IsFiniteSet((({"hit"} \cup {"record"}) \cup {"run"}) \cup {"miss"}) BY <2>4, FS_AddElement
  <2>6. IsFiniteSet(((({"hit"} \cup {"record"}) \cup {"run"}) \cup {"miss"}) \cup {"would_hit"}) BY <2>5, FS_AddElement
  <2>7. IsFiniteSet((((({"hit"} \cup {"record"}) \cup {"run"}) \cup {"miss"}) \cup {"would_hit"}) \cup {"would_miss"}) BY <2>6, FS_AddElement
  <2> QED BY <2>1, <2>7
<1> QED BY <1>1 DEF Kinds, Executed, Event, Priced

LEMMA CostType ==
  ASSUME NEW rows \in Rows, NEW kinds \in Kinds, NEW price \in Prices
  PROVE  /\ Cost(rows, kinds, price) \in [Key \X kinds -> Nat] /\ IsFiniteSet(Key \X kinds)
         /\ \A k \in Key, e \in kinds : Cost(rows, kinds, price)[<<k, e>>] = rows[<<k, e>>] * price[k]
         /\ Value(rows, kinds, price) \in Nat
<1> USE JournalAssumption DEF Prices
<1>1. IsFiniteSet(kinds) BY KindsAre, FS_Subset DEF Kinds
<1>2. IsFiniteSet(Key \X kinds) BY <1>1, FS_Product
<1>3. ASSUME NEW r \in Key \X kinds PROVE rows[r] * price[r[1]] \in Nat
  <2>1. r \in Key \X Event /\ r[1] \in Key BY DEF Kinds
  <2>2. rows[r] \in Nat /\ price[r[1]] \in Nat BY <2>1 DEF Rows
  <2>3. \A a, b \in Nat : a * b \in Nat OBVIOUS
  <2> QED BY <2>2, <2>3
<1>4. Cost(rows, kinds, price) \in [Key \X kinds -> Nat] BY <1>3 DEF Cost
<1>5. \A k \in Key, e \in kinds : Cost(rows, kinds, price)[<<k, e>>] = rows[<<k, e>>] * price[k] BY DEF Cost
<1> QED BY <1>2, <1>4, <1>5, TotalIsNat DEF Value

LEMMA NothingCostsNothing ==
  ASSUME NEW rows \in Rows, NEW kinds \in Kinds, NEW price \in Prices, \A r \in Key \X Event : rows[r] = 0
  PROVE  Value(rows, kinds, price) = 0
<1> USE JournalAssumption DEF Prices
<1>1. ASSUME NEW r \in Key \X kinds PROVE Cost(rows, kinds, price)[r] = 0
  <2>1. PICK k \in Key, e \in kinds : r = <<k, e>> OBVIOUS
  <2>2. rows[<<k, e>>] = 0 /\ price[k] \in Nat BY DEF Kinds
  <2>3. \A b \in Nat : 0 * b = 0 OBVIOUS
  <2> QED BY <2>1, <2>2, <2>3, CostType
<1> QED BY <1>1, CostType, TotalIsNat DEF Value

LEMMA ValueAdds ==
  ASSUME NEW a \in Rows, NEW b \in Rows, NEW c \in Rows, NEW kinds \in Kinds, NEW price \in Prices,
         \A r \in Key \X Event : c[r] = a[r] + b[r]
  PROVE  Value(c, kinds, price) = Value(a, kinds, price) + Value(b, kinds, price)
<1> USE JournalAssumption DEF Prices
<1>1. ASSUME NEW r \in Key \X kinds PROVE Cost(c, kinds, price)[r] = Cost(a, kinds, price)[r] + Cost(b, kinds, price)[r]
  <2>1. PICK k \in Key, e \in kinds : r = <<k, e>> OBVIOUS
  <2>2. <<k, e>> \in Key \X Event BY DEF Kinds
  <2>3. a[<<k, e>>] \in Nat /\ b[<<k, e>>] \in Nat /\ price[k] \in Nat BY <2>2 DEF Rows
  <2>4. \A x, y, u \in Nat : (x + y) * u = x * u + y * u OBVIOUS
  <2>5. c[<<k, e>>] = a[<<k, e>>] + b[<<k, e>>] BY <2>2
  <2>6. c[<<k, e>>] * price[k] = a[<<k, e>>] * price[k] + b[<<k, e>>] * price[k] BY <2>3, <2>4, <2>5
  <2>7. Cost(a, kinds, price)[<<k, e>>] = a[<<k, e>>] * price[k] BY CostType
  <2>8. Cost(b, kinds, price)[<<k, e>>] = b[<<k, e>>] * price[k] BY CostType
  <2>9. Cost(c, kinds, price)[<<k, e>>] = c[<<k, e>>] * price[k]
    <3>1. <<k, e>> \in Key \X kinds /\ <<k, e>>[1] = k OBVIOUS
    <3> QED BY <3>1, Zenon DEF Cost
  <2> QED BY <2>1, <2>6, <2>7, <2>8, <2>9
<1> DEFINE f == Cost(a, kinds, price)
           g == Cost(b, kinds, price)
           h == Cost(c, kinds, price)
<1>2. /\ f \in [Key \X kinds -> Nat] /\ g \in [Key \X kinds -> Nat] /\ h \in [Key \X kinds -> Nat]
      /\ IsFiniteSet(Key \X kinds)
  <2>1. f \in [Key \X kinds -> Nat] /\ IsFiniteSet(Key \X kinds) BY CostType
  <2>2. g \in [Key \X kinds -> Nat] BY CostType
  <2>3. h \in [Key \X kinds -> Nat]
    <3> HIDE DEF h
    <3>1. ASSUME NEW rows \in Rows PROVE Cost(rows, kinds, price) \in [Key \X kinds -> Nat] BY CostType
    <3> QED BY <3>1 DEF h
  <2> QED BY <2>1, <2>2, <2>3
<1>3. \A r \in Key \X kinds : h[r] = f[r] + g[r] BY <1>1
<1> HIDE DEF f, g, h
<1>4. Total(h, Key \X kinds) = Total(f, Key \X kinds) + Total(g, Key \X kinds) BY <1>2, <1>3, TotalAdds
<1> QED BY <1>4 DEF Value, f, g, h

LEMMA ValueOfOneMore ==
  ASSUME NEW a \in Rows, NEW c \in Rows, NEW kinds \in Kinds, NEW price \in Prices, NEW k \in Key, NEW e \in Event,
         c[<<k, e>>] = a[<<k, e>>] + 1, \A r \in (Key \X Event) \ {<<k, e>>} : c[r] = a[r]
  PROVE  Value(c, kinds, price) = IF e \in kinds THEN Value(a, kinds, price) + price[k] ELSE Value(a, kinds, price)
<1> USE JournalAssumption DEF Prices
<1>1. ASSUME NEW r \in Key \X kinds, r # <<k, e>> PROVE Cost(c, kinds, price)[r] = Cost(a, kinds, price)[r]
  <2>1. r \in (Key \X Event) \ {<<k, e>>} BY <1>1 DEF Kinds
  <2> QED BY <2>1 DEF Cost
<1>2. CASE e \in kinds
  <2>1. a[<<k, e>>] \in Nat /\ price[k] \in Nat BY DEF Rows
  <2>2. \A x, u \in Nat : (x + 1) * u = x * u + u /\ x * u \in Nat OBVIOUS
  <2>3. <<k, e>> \in Key \X kinds BY <1>2
  <2>4. Value(c, kinds, price) = Value(a, kinds, price) - Cost(a, kinds, price)[<<k, e>>] + Cost(c, kinds, price)[<<k, e>>]
    <3> DEFINE g == Cost(a, kinds, price)
               h == Cost(c, kinds, price)
    <3>1. g \in [Key \X kinds -> Nat] /\ h \in [Key \X kinds -> Nat] /\ IsFiniteSet(Key \X kinds) BY CostType
    <3>2. \A r \in (Key \X kinds) \ {<<k, e>>} : h[r] = g[r] BY <1>1
    <3> HIDE DEF g, h
    <3>3. Total(h, Key \X kinds) = Total(g, Key \X kinds) - g[<<k, e>>] + h[<<k, e>>]
      BY <2>3, <3>1, <3>2, TotalAtOne
    <3> QED BY <3>3 DEF Value, g, h
  <2>5. Cost(c, kinds, price)[<<k, e>>] = Cost(a, kinds, price)[<<k, e>>] + price[k] /\ Cost(a, kinds, price)[<<k, e>>] \in Nat
    <3>1. Cost(c, kinds, price)[<<k, e>>] = (a[<<k, e>>] + 1) * price[k] BY <1>2, CostType
    <3>2. Cost(a, kinds, price)[<<k, e>>] = a[<<k, e>>] * price[k] BY <1>2, CostType
    <3>3. /\ (a[<<k, e>>] + 1) * price[k] = a[<<k, e>>] * price[k] + price[k]
          /\ a[<<k, e>>] * price[k] \in Nat BY <2>1, <2>2
    <3> QED BY <3>1, <3>2, <3>3
  <2>6. Value(a, kinds, price) \in Nat BY CostType
  <2> QED BY <1>2, <2>1, <2>4, <2>5, <2>6
<1>3. CASE e \notin kinds
  <2>1. \A r \in Key \X kinds : r # <<k, e>> BY <1>3
  <2>2. Value(c, kinds, price) = Value(a, kinds, price) BY <1>1, <2>1, TotalAgrees DEF Value
  <2> QED BY <1>3, <2>2
<1> QED BY <1>2, <1>3

\* A price only counts where there are rows.
LEMMA ValueAtPrice ==
  ASSUME NEW rows \in Rows, NEW kinds \in Kinds, NEW p \in Prices, NEW q \in Prices,
         \A k \in Key, e \in kinds : rows[<<k, e>>] = 0 \/ p[k] = q[k]
  PROVE  Value(rows, kinds, p) = Value(rows, kinds, q)
<1>1. ASSUME NEW r \in Key \X kinds PROVE Cost(rows, kinds, p)[r] = Cost(rows, kinds, q)[r]
  <2>1. PICK k \in Key, e \in kinds : r = <<k, e>> OBVIOUS
  <2>2. /\ Cost(rows, kinds, p)[<<k, e>>] = rows[<<k, e>>] * p[k]
        /\ Cost(rows, kinds, q)[<<k, e>>] = rows[<<k, e>>] * q[k] BY CostType
  <2>3. p[k] \in Nat /\ q[k] \in Nat BY DEF Prices
  <2>4. \A x \in Nat : 0 * x = 0 OBVIOUS
  <2>5. rows[<<k, e>>] = 0 \/ p[k] = q[k] OBVIOUS
  <2>6. CASE rows[<<k, e>>] = 0
    <3>1. rows[<<k, e>>] * p[k] = 0 /\ rows[<<k, e>>] * q[k] = 0 BY <2>3, <2>4, <2>6
    <3> QED BY <2>1, <2>2, <3>1
  <2>7. CASE p[k] = q[k] BY <2>1, <2>2, <2>7
  <2> QED BY <2>5, <2>6, <2>7
<1> QED BY <1>1, CostType, TotalAgrees DEF Value

\* The sum the report takes, with the fold of the community modules.
LEMMA TokensAdd ==
  ASSUME NEW rows \in Rows, NEW price \in Prices, NEW kinds \in Kinds
  PROVE  Tokens(rows, price, kinds) = Value(rows, kinds, price)
<1> DEFINE T == Key \X kinds
           Term(r) == rows[r] * price[r[1]]
           g == Cost(rows, kinds, price)
           F(iter) == [s \in SUBSET T |-> IF s = {} THEN 0 ELSE Term(CHOOSE x \in s : TRUE) + iter[s \ {CHOOSE x \in s : TRUE}]]
           G(iter) == [s \in SUBSET T |-> IF s = {} THEN 0 ELSE g[CHOOSE x \in s : TRUE] + iter[s \ {CHOOSE x \in s : TRUE}]]
<1>1. Tokens(rows, price, kinds) = (CHOOSE iter : iter = F(iter))[T]
  BY DEF Tokens, MapThenSumSet, MapThenFoldSet
<1>2. ASSUME NEW r \in T PROVE Term(r) = g[r] BY DEF Cost
<1> HIDE DEF Term, g, T
<1>3. ASSUME NEW iter PROVE F(iter) = G(iter)
  <2>1. ASSUME NEW s \in SUBSET T, s # {}
        PROVE  Term(CHOOSE x \in s : TRUE) = g[CHOOSE x \in s : TRUE]
    <3>1. (CHOOSE x \in s : TRUE) \in T BY <2>1
    <3> QED BY <1>2, <3>1
  <2> QED BY <2>1
<1>4. SumOf(g, T) = (CHOOSE iter : iter = G(iter))[T] BY DEF SumOf
<1> HIDE DEF F, G
<1>5. \A iter : (iter = F(iter)) <=> (iter = G(iter)) BY <1>3
<1>6. (CHOOSE iter : iter = F(iter)) = (CHOOSE iter : iter = G(iter)) BY <1>5, Zenon
<1>7. Tokens(rows, price, kinds) = SumOf(g, T) BY <1>1, <1>4, <1>6
<1>8. SumOf(g, T) = Total(g, T) BY CostType, SumIsTotal DEF g, T
<1> QED BY <1>7, <1>8 DEF g, T, Value

RowsOf(ev, s) == [r \in Key \X Event |-> ev[<<s, r[1], r[2]>>]]

ReportType == [at : {"none", "events", "usage", "awaiting", "ready"}, todo : SUBSET Session,
               priced : SUBSET Key, price : Prices, rows : Rows, truth : TruthType, failed : Nat]
PurgeType  == [at : {"none", "sessions", "rows", "events", "done"}, hard : BOOLEAN, sessions : SUBSET Session,
               keys : SUBSET Key, all : SUBSET Key, doing : SUBSET Key, quiet : BOOLEAN]
JournalTypes ==
  /\ current \in SUBSET Key /\ awaiting \in SUBSET Key /\ tagged \in SUBSET Session /\ usage \in Prices
  /\ events \in [Session \X Key \X Event -> Nat] /\ calls \in 0..MaxCalls
  /\ truth \in [Session -> TruthType] /\ report \in ReportType /\ purge \in PurgeType

NoMoreThanCalls == \A r \in Session \X Key \X Event : events[r] <= calls
SessionsTell    == \A s \in Session : Tells(RowsOf(events, s), truth[s], current, usage)

\* The price of a key in the report: what was read for it, or would be now.
AtPrice(rep, use) == [k \in Key |-> IF k \in rep.priced THEN rep.price[k] ELSE use[k]]

\* No purge runs beside a report, so what the report prices stays stored.
ReportTells ==
  /\ report.at = "none" \/ purge.at = "none"
  /\ report.at = "none" => report = NoReport
  /\ report.at = "events" => report.priced = {}
  /\ Tells(report.rows, report.truth, current, AtPrice(report, usage))
  /\ report.at = "ready" => Seen(report.rows) \subseteq report.priced

\* What a hard purge has been through is gone, while nobody called.
Gone(k) == k \notin current \cup awaiting /\ \A s \in Session, e \in Event : events[<<s, k, e>>] = 0
PurgeForgets ==
  /\ purge.at \in {"sessions", "rows", "done"} => purge.doing = {}
  /\ \A i, j \in purge.doing : i = j
  /\ purge.at = "sessions" => purge.keys = purge.all
  /\ purge.at = "done" => purge.keys = {}
  /\ purge.at \in {"rows", "events", "done"} /\ purge.hard /\ purge.quiet =>
       /\ \A k \in purge.all \ (purge.keys \cup purge.doing) : Gone(k)
       /\ \A k \in purge.doing : k \notin current \cup awaiting

JournalInv == JournalTypes /\ NoMoreThanCalls /\ SessionsTell /\ ReportTells /\ PurgeForgets

LEMMA RowsAre ==
  ASSUME NEW ev \in [Session \X Key \X Event -> Nat], NEW s \in Session
  PROVE  RowsOf(ev, s) \in Rows /\ \A k \in Key, e \in Event : RowsOf(ev, s)[<<k, e>>] = ev[<<s, k, e>>]
<1>1. ASSUME NEW r \in Key \X Event PROVE ev[<<s, r[1], r[2]>>] \in Nat
  <2>1. <<s, r[1], r[2]>> \in Session \X Key \X Event OBVIOUS
  <2> QED BY <2>1
<1>2. RowsOf(ev, s) \in Rows BY <1>1 DEF RowsOf, Rows
<1>3. ASSUME NEW k \in Key, NEW e \in Event PROVE RowsOf(ev, s)[<<k, e>>] = ev[<<s, k, e>>]
  BY DEF RowsOf
<1> QED BY <1>2, <1>3

LEMMA EmptyTells ==
  ASSUME NEW rows \in Rows, \A r \in Key \X Event : rows[r] = 0, NEW cur, NEW price \in Prices
  PROVE  Tells(rows, Untouched, cur, price)
<1>1. Value(rows, Executed, price) = 0 /\ Value(rows, {"hit"}, price) = 0 BY NothingCostsNothing, KindsAre
<1>2. \A k \in Key, e \in Priced : ~(rows[<<k, e>>] > 0) BY KindsAre DEF Kinds
<1> QED BY <1>1, <1>2 DEF Tells, Untouched

LEMMA NoReportIs ==
  NoReport \in ReportType /\ Untouched \in TruthType /\ Untold \in TruthType /\ ~Untold.told
  /\ \A cur, price : price \in Prices => Tells(NoReport.rows, NoReport.truth, cur, price)
<1> DEFINE none == [r \in Key \X Event |-> 0]
<1>1. none \in Rows /\ \A r \in Key \X Event : none[r] = 0 BY DEF Rows
<1>2. Untouched \in TruthType /\ Untold \in TruthType /\ ~Untold.told BY DEF Untouched, Untold, TruthType
<1> HIDE DEF none
<1>3. NoReport = [at |-> "none", todo |-> {}, priced |-> {}, price |-> [k \in Key |-> 0],
                  rows |-> none, truth |-> Untouched, failed |-> 0] BY DEF NoReport, none
<1>4. NoReport \in ReportType BY <1>1, <1>2, <1>3 DEF ReportType, Prices
<1>5. \A cur, price : price \in Prices => Tells(NoReport.rows, NoReport.truth, cur, price) BY <1>1, <1>3, EmptyTells
<1> QED BY <1>2, <1>4, <1>5

LEMMA NoPurgeIs == NoPurge \in PurgeType /\ NoPurge.at = "none" /\ NoPurge.doing = {}
BY DEF NoPurge, PurgeType

\* The two truths of a session before and after a call.
LEMMA TogetherIs ==
  ASSUME NEW x \in TruthType, NEW y \in TruthType
  PROVE  /\ Together(x, y) \in TruthType
         /\ Together(x, y).told => /\ x.told /\ y.told
                                   /\ Together(x, y).paid = x.paid + y.paid
                                   /\ Together(x, y).saved = x.saved + y.saved
<1>1. CASE x.told /\ y.told
  <2>1. Together(x, y) = [paid |-> x.paid + y.paid, saved |-> x.saved + y.saved, told |-> TRUE] BY <1>1 DEF Together
  <2> QED BY <1>1, <2>1 DEF TruthType
<1>2. CASE ~(x.told /\ y.told)
  <2>1. Together(x, y) = Untold BY <1>2 DEF Together
  <2> QED BY <2>1, NoReportIs
<1> QED BY <1>1, <1>2

LEMMA TellsTogether ==
  ASSUME NEW a \in Rows, NEW b \in Rows, NEW c \in Rows, NEW x \in TruthType, NEW y \in TruthType, NEW cur, NEW price \in Prices,
         Tells(a, x, cur, price), Tells(b, y, cur, price), \A r \in Key \X Event : c[r] = a[r] + b[r]
  PROVE  Tells(c, Together(x, y), cur, price)
<1> SUFFICES ASSUME Together(x, y).told
             PROVE  /\ Value(c, Executed, price) = Together(x, y).paid /\ Value(c, {"hit"}, price) = Together(x, y).saved
                    /\ \A k \in Key, e \in Priced : c[<<k, e>>] > 0 => k \in cur
  BY DEF Tells
<1>1. /\ x.told /\ y.told /\ Together(x, y).paid = x.paid + y.paid
      /\ Together(x, y).saved = x.saved + y.saved BY TogetherIs
<1>2. Value(c, Executed, price) = Value(a, Executed, price) + Value(b, Executed, price) BY KindsAre, ValueAdds
<1>3. Value(c, {"hit"}, price) = Value(a, {"hit"}, price) + Value(b, {"hit"}, price) BY KindsAre, ValueAdds
<1>4. ASSUME NEW k \in Key, NEW e \in Priced, c[<<k, e>>] > 0 PROVE k \in cur
  <2>1. <<k, e>> \in Key \X Event BY KindsAre DEF Kinds
  <2>2. a[<<k, e>>] \in Nat /\ b[<<k, e>>] \in Nat /\ c[<<k, e>>] = a[<<k, e>>] + b[<<k, e>>] BY <2>1 DEF Rows
  <2>3. a[<<k, e>>] > 0 \/ b[<<k, e>>] > 0 BY <1>4, <2>2
  <2> QED BY <1>1, <2>3 DEF Tells
<1> QED BY <1>1, <1>2, <1>3, <1>4 DEF Tells

\* What Tells says outlives a store that only grows, and another price of a key that
\* the rows do not price or that was not stored.
LEMMA TellsMore ==
  ASSUME NEW rows \in Rows, NEW t, NEW cur, NEW cur2, NEW p \in Prices, NEW q \in Prices, NEW k,
         Tells(rows, t, cur, p), cur \subseteq cur2, \A j \in Key \ {k} : p[j] = q[j],
         k \in cur /\ t.told => p[k] = q[k] \/ (\A e \in Event : ~(rows[<<k, e>>] > 0))
  PROVE  Tells(rows, t, cur2, q)
<1> SUFFICES ASSUME t.told
             PROVE  /\ Value(rows, Executed, q) = t.paid /\ Value(rows, {"hit"}, q) = t.saved
                    /\ \A j \in Key, e \in Priced : rows[<<j, e>>] > 0 => j \in cur2
  BY DEF Tells
<1>1. ASSUME NEW j \in Key, NEW e \in Priced PROVE rows[<<j, e>>] = 0 \/ p[j] = q[j]
  <2>1. e \in Event /\ rows[<<j, e>>] \in Nat BY KindsAre DEF Kinds, Rows
  <2>2. j # k \/ k \in cur \/ ~(rows[<<j, e>>] > 0) BY DEF Tells
  <2> QED BY <2>1, <2>2
<1>2. Executed \subseteq Priced /\ {"hit"} \subseteq Priced BY DEF Priced
<1>3. Value(rows, Executed, p) = Value(rows, Executed, q) BY <1>1, <1>2, KindsAre, ValueAtPrice
<1>4. Value(rows, {"hit"}, p) = Value(rows, {"hit"}, q) BY <1>1, <1>2, KindsAre, ValueAtPrice
<1> QED BY <1>3, <1>4 DEF Tells

LEMMA AtPriceIs ==
  ASSUME NEW rep \in ReportType, NEW use \in Prices PROVE AtPrice(rep, use) \in Prices
BY DEF ReportType, Prices, AtPrice

LEMMA NoReportTells ==
  ASSUME report' = NoReport, usage' \in Prices PROVE ReportTells'
<1>1. NoReport.at = "none" BY DEF NoReport
<1>2. AtPrice(NoReport, usage') \in Prices BY AtPriceIs, NoReportIs
<1>3. Tells(NoReport.rows, NoReport.truth, current', AtPrice(NoReport, usage')) BY <1>2, NoReportIs
<1> QED BY <1>1, <1>3 DEF ReportTells

\* An execution of k becomes the current one: what sessions and report tell stays true.
LEMMA SupersedesKeeps ==
  ASSUME JournalInv, NEW k \in Key, NEW u \in Usage, Supersedes(k, u)
  PROVE  /\ current' \in SUBSET Key /\ awaiting' \in SUBSET Key /\ usage' \in Prices /\ usage'[k] = u
         /\ current \subseteq current' /\ k \in current'
         /\ report' \in ReportType /\ (purge'.at = purge.at => ReportTells')
         /\ \A s \in Session : /\ After(s, k, u) \in TruthType
                                /\ Tells(RowsOf(events, s), After(s, k, u), current', usage')
<1> USE JournalAssumption
<1>1. JournalTypes /\ ReportTells /\ SessionsTell /\ current \in SUBSET Key /\ awaiting \in SUBSET Key
      /\ usage \in Prices /\ report \in ReportType /\ truth \in [Session -> TruthType]
  BY DEF JournalInv, JournalTypes
<1>2. /\ current' = current \cup {k} /\ awaiting' = awaiting \ {k} /\ usage' = [usage EXCEPT ![k] = u]
  BY DEF Supersedes
<1>3. usage' \in Prices /\ usage'[k] = u /\ \A j \in Key \ {k} : usage[j] = usage'[j]
  BY <1>1, <1>2 DEF Prices
<1> DEFINE stale == k \in current /\ usage[k] # u /\ k \in Seen(report.rows) \ report.priced
<1>4. report' = IF stale THEN [report EXCEPT !.truth = Untold] ELSE report BY DEF Supersedes
<1>5. /\ report' \in ReportType /\ report'.at = report.at /\ report'.rows = report.rows
      /\ report'.priced = report.priced /\ report'.price = report.price
      /\ report'.truth = IF stale THEN Untold ELSE report.truth
  <2> HIDE DEF stale
  <2> QED BY <1>1, <1>4, NoReportIs DEF ReportType
<1>6. ASSUME purge'.at = purge.at PROVE ReportTells'
  <2>1. report.at = "none" => ~stale
    <3>1. report.at = "none" => \A e \in Event : ~(report.rows[<<k, e>>] > 0) BY <1>1 DEF ReportTells, NoReport
    <3> QED BY <3>1 DEF Seen
  <2>2. Tells(report'.rows, report'.truth, current', AtPrice(report', usage'))
    <3>1. CASE stale BY <1>5, <3>1, NoReportIs DEF Tells
    <3>2. CASE ~stale
      <4> DEFINE p == AtPrice(report, usage)
                 q == AtPrice(report', usage')
      <4>1. p \in Prices BY <1>1, AtPriceIs
      <4>2. q \in Prices BY <1>1, <1>3, <1>5 DEF AtPrice, ReportType, Prices
      <4>3. \A j \in Key \ {k} : p[j] = q[j] BY <1>3, <1>5 DEF AtPrice
      <4>4. k \in current => p[k] = q[k] \/ (\A e \in Event : ~(report.rows[<<k, e>>] > 0))
        BY <1>3, <1>5, <3>2 DEF AtPrice, Seen
      <4>5. report.rows \in Rows /\ Tells(report.rows, report.truth, current, p)
        BY <1>1 DEF ReportTells, ReportType
      <4> HIDE DEF p, q, stale
      <4>6. Tells(report.rows, report.truth, current', q) BY <1>2, <4>1, <4>2, <4>3, <4>4, <4>5, TellsMore
      <4> QED BY <1>5, <3>2, <4>6 DEF q
    <3> QED BY <3>1, <3>2
  <2> HIDE DEF stale
  <2>3. report'.at = "none" => report' = NoReport BY <1>1, <1>4, <1>5, <2>1 DEF ReportTells
  <2> QED BY <1>1, <1>5, <1>6, <2>2, <2>3 DEF ReportTells
<1>7. ASSUME NEW s \in Session
      PROVE  /\ After(s, k, u) \in TruthType
             /\ Tells(RowsOf(events, s), After(s, k, u), current', usage')
  <2>1. After(s, k, u) \in TruthType BY <1>1, NoReportIs DEF After
  <2>2. CASE After(s, k, u) = Untold BY <2>2, NoReportIs DEF Tells
  <2>3. CASE After(s, k, u) = truth[s] /\ After(s, k, u) # Untold
    <3>1. Tells(RowsOf(events, s), truth[s], current, usage) BY <1>1 DEF SessionsTell
    <3>2. events \in [Session \X Key \X Event -> Nat] BY <1>1 DEF JournalTypes
    <3>3. k \in current => usage[k] = u \/ (\A e \in Event : ~(events[<<s, k, e>>] > 0))
      BY <2>3 DEF After, KeysOf
    <3>4. k \in current => usage[k] = usage'[k] \/ (\A e \in Event : ~(RowsOf(events, s)[<<k, e>>] > 0))
      BY <1>3, <3>2, <3>3, RowsAre
    <3>5. RowsOf(events, s) \in Rows BY <3>2, RowsAre
    <3>6. /\ usage \in Prices /\ usage' \in Prices /\ current \subseteq current'
          /\ \A j \in Key \ {k} : usage[j] = usage'[j]
      BY <1>1, <1>2, <1>3
    <3> DEFINE rows == RowsOf(events, s)
    <3> HIDE DEF rows, stale
    <3>7. Tells(rows, truth[s], current', usage') BY <3>1, <3>4, <3>5, <3>6, TellsMore DEF rows
    <3> QED BY <2>1, <2>3, <3>7 DEF rows
  <2> QED BY <2>1, <2>2, <2>3 DEF After
<1> QED BY <1>1, <1>2, <1>3, <1>5, <1>6, <1>7

LEMMA CallKeepsInv ==
  ASSUME JournalInv, NEW s \in Session, NEW k \in Key, NEW e \in Event, NEW told \in BOOLEAN,
         NEW y \in TruthType, BeginCall, Journal(s, k, e, told),
         NEW was \in [Session -> TruthType],
         \A t \in Session : Tells(RowsOf(events, t), was[t], current', usage'),
         \A t \in Session : truth'[t] = IF t = s THEN Together(was[s], y) ELSE was[t],
         truth' = [t \in Session |-> truth'[t]],
         current' \in SUBSET Key, awaiting' \in SUBSET Key, usage' \in Prices,
         report' \in ReportType, purge'.at = purge.at => ReportTells',
         y.told => \/ /\ told /\ (e \in Priced => k \in current')
                      /\ y.paid = (IF e \in Executed THEN usage'[k] ELSE 0)
                      /\ y.saved = (IF e = "hit" THEN usage'[k] ELSE 0)
                   \/ e = "miss" /\ y.paid = 0 /\ y.saved = 0
  PROVE  JournalInv'
<1> USE JournalAssumption
<1>1. JournalTypes BY DEF JournalInv
<1>2. /\ calls < MaxCalls /\ calls' = calls + 1 /\ tagged' = tagged
      /\ purge' = [purge EXCEPT !.quiet = @ /\ purge.at \in {"none", "sessions"}] BY DEF BeginCall
<1>3. events' = [events EXCEPT ![<<s, k, e>>] = IF told THEN @ + 1 ELSE @] BY DEF Journal
<1>4. <<s, k, e>> \in Session \X Key \X Event OBVIOUS
<1>5. events \in [Session \X Key \X Event -> Nat] BY <1>1 DEF JournalTypes
<1>6. events[<<s, k, e>>] \in Nat BY <1>4, <1>5
<1>7. \A r \in Session \X Key \X Event :
        events'[r] = IF r = <<s, k, e>> /\ told THEN events[r] + 1 ELSE events[r]
  BY <1>3, <1>5
<1>8. events' \in [Session \X Key \X Event -> Nat] BY <1>3, <1>4, <1>5, <1>6
<1>11. truth' \in [Session -> TruthType]
  <2>1. Together(was[s], y) \in TruthType BY TogetherIs
  <2> QED BY <2>1
<1>12. /\ purge' \in PurgeType /\ purge'.at = purge.at /\ purge'.hard = purge.hard
       /\ purge'.keys = purge.keys /\ purge'.all = purge.all /\ purge'.doing = purge.doing
       /\ purge'.quiet => purge.quiet /\ purge.at \in {"none", "sessions"}
  <2>1. purge \in PurgeType BY <1>1 DEF JournalTypes
  <2> DEFINE q == purge.quiet /\ purge.at \in {"none", "sessions"}
  <2>2. q \in BOOLEAN BY <2>1 DEF PurgeType
  <2>3. q => purge.quiet /\ purge.at \in {"none", "sessions"} OBVIOUS
  <2>4. purge' = [purge EXCEPT !.quiet = q] BY <1>2
  <2> HIDE DEF q
  <2> QED BY <2>1, <2>2, <2>3, <2>4 DEF PurgeType
<1>13. calls \in 0..MaxCalls /\ calls' \in 0..MaxCalls /\ calls \in Nat BY <1>1, <1>2 DEF JournalTypes
<1>14. JournalTypes'
  BY <1>1, <1>2, <1>8, <1>11, <1>12, <1>13 DEF JournalTypes
<1>15. NoMoreThanCalls'
  <2>1. ASSUME NEW r \in Session \X Key \X Event PROVE events'[r] <= calls'
    <3>1. events[r] <= calls /\ events[r] \in Nat BY <1>5 DEF JournalInv, NoMoreThanCalls
    <3> QED BY <1>2, <1>7, <1>13, <3>1
  <2> QED BY <2>1 DEF NoMoreThanCalls
<1>16. SessionsTell'
  <2>1. ASSUME NEW t \in Session PROVE Tells(RowsOf(events', t), truth'[t], current', usage')
    <3> DEFINE a == RowsOf(events, t)
               c == RowsOf(events', t)
    <3>1. a \in Rows /\ c \in Rows BY <1>5, <1>8, RowsAre
    <3>2. Tells(a, was[t], current', usage') OBVIOUS
    <3>3. ASSUME NEW j \in Key, NEW f \in Event
          PROVE  c[<<j, f>>] = IF t = s /\ j = k /\ f = e /\ told THEN a[<<j, f>>] + 1 ELSE a[<<j, f>>]
      <4>1. a[<<j, f>>] = events[<<t, j, f>>] /\ c[<<j, f>>] = events'[<<t, j, f>>] BY <1>5, <1>8, RowsAre
      <4>2. <<t, j, f>> \in Session \X Key \X Event OBVIOUS
      <4>3. <<t, j, f>> = <<s, k, e>> <=> t = s /\ j = k /\ f = e OBVIOUS
      <4> HIDE DEF a, c
      <4> QED BY <1>7, <4>1, <4>2, <4>3
    <3> HIDE DEF a, c
    <3>4. CASE t # s \/ ~told
      <4>1. \A r \in Key \X Event : c[r] = a[r] BY <3>3, <3>4
      <4>2. c = a BY <3>1, <4>1 DEF Rows
      <4>3. CASE t # s BY <3>2, <4>2, <4>3 DEF a, c
      <4>4. CASE t = s /\ ~told
        <5>1. SUFFICES ASSUME Together(was[s], y).told
                       PROVE  Tells(a, Together(was[s], y), current', usage')
          BY <4>2, <4>4 DEF Tells, c
        <5>2. /\ was[s].told /\ y.told /\ Together(was[s], y).paid = was[s].paid + y.paid
              /\ Together(was[s], y).saved = was[s].saved + y.saved BY <5>1, TogetherIs
        <5>3. y.paid = 0 /\ y.saved = 0 BY <4>4, <5>2
        <5>4. was[s].paid \in Nat /\ was[s].saved \in Nat BY DEF TruthType
        <5> QED BY <3>2, <4>4, <5>2, <5>3, <5>4 DEF Tells
      <4> QED BY <3>4, <4>3, <4>4
    <3>5. CASE t = s /\ told
      <4>1. SUFFICES ASSUME Together(was[s], y).told
                     PROVE  Tells(c, Together(was[s], y), current', usage')
        BY <3>5 DEF Tells, c
      <4>2. /\ was[s].told /\ y.told /\ Together(was[s], y).paid = was[s].paid + y.paid
            /\ Together(was[s], y).saved = was[s].saved + y.saved BY <4>1, TogetherIs
      <4>3. c[<<k, e>>] = a[<<k, e>>] + 1 /\ \A r \in (Key \X Event) \ {<<k, e>>} : c[r] = a[r]
        BY <3>3, <3>5
      <4>4. Value(c, Executed, usage') = IF e \in Executed THEN Value(a, Executed, usage') + usage'[k]
                                         ELSE Value(a, Executed, usage')
        BY <3>1, <4>3, KindsAre, ValueOfOneMore
      <4>5. Value(c, {"hit"}, usage') = IF e \in {"hit"} THEN Value(a, {"hit"}, usage') + usage'[k]
                                        ELSE Value(a, {"hit"}, usage')
        BY <3>1, <4>3, KindsAre, ValueOfOneMore
      <4>6. Value(a, Executed, usage') = was[s].paid /\ Value(a, {"hit"}, usage') = was[s].saved
        BY <3>2, <3>5, <4>2 DEF Tells
      <4>7. was[s].paid \in Nat /\ was[s].saved \in Nat /\ usage'[k] \in Nat BY DEF TruthType, Prices
      <4>8. /\ y.paid = (IF e \in Executed THEN usage'[k] ELSE 0)
            /\ y.saved = (IF e = "hit" THEN usage'[k] ELSE 0)
            /\ (e \in Priced => k \in current')
        BY <4>2, KindsAre
      <4>9. /\ Value(c, Executed, usage') = Together(was[s], y).paid
            /\ Value(c, {"hit"}, usage') = Together(was[s], y).saved
        BY <4>2, <4>4, <4>5, <4>6, <4>7, <4>8
      <4>10. ASSUME NEW j \in Key, NEW f \in Priced, c[<<j, f>>] > 0 PROVE j \in current'
        <5>1. f \in Event BY KindsAre DEF Kinds
        <5>2. CASE j = k /\ f = e BY <4>8, <5>2
        <5>3. CASE ~(j = k /\ f = e)
          <6>1. a[<<j, f>>] > 0 BY <3>3, <4>10, <5>1, <5>3
          <6> QED BY <3>2, <3>5, <4>2, <6>1 DEF Tells
        <5> QED BY <5>2, <5>3
      <4> QED BY <4>9, <4>10 DEF Tells
    <3> QED BY <3>4, <3>5
  <2> QED BY <2>1 DEF SessionsTell
<1>17. ReportTells' BY <1>12
<1>18. PurgeForgets'
  <2>1. PurgeForgets BY DEF JournalInv
  <2>2. ~(purge'.at \in {"rows", "events", "done"} /\ purge'.quiet) BY <1>12
  <2> QED BY <1>12, <2>1, <2>2 DEF PurgeForgets
<1> QED BY <1>14, <1>15, <1>16, <1>17, <1>18 DEF JournalInv

\* Calls that record nothing leave usage and report alone.
LEMMA QuietCallKeepsInv ==
  ASSUME JournalInv, NEW s \in Session, NEW k \in Key, NEW e \in Event, NEW told \in BOOLEAN,
         NEW p \in Nat, NEW v \in Nat, NEW knows \in BOOLEAN,
         BeginCall, Journal(s, k, e, told), Learn(s, p, v, knows),
         UNCHANGED <<current, usage, report>>, awaiting' \in SUBSET Key,
         knows => \/ /\ told /\ (e \in Priced => k \in current)
                     /\ p = (IF e \in Executed THEN usage[k] ELSE 0)
                     /\ v = (IF e = "hit" THEN usage[k] ELSE 0)
                  \/ e = "miss" /\ p = 0 /\ v = 0
  PROVE  JournalInv'
<1> DEFINE y == [paid |-> p, saved |-> v, told |-> knows]
<1>1. y \in TruthType /\ y.paid = p /\ y.saved = v /\ y.told = knows BY DEF TruthType
<1>2. truth' = [truth EXCEPT ![s] = Together(@, y)] BY DEF Learn
<1> HIDE DEF y
<1>3. truth \in [Session -> TruthType] /\ report \in ReportType /\ usage \in Prices /\ current \in SUBSET Key
      /\ ReportTells
  BY DEF JournalInv, JournalTypes
<1>4. \A t \in Session : truth'[t] = IF t = s THEN Together(truth[s], y) ELSE truth[t] BY <1>2, <1>3
<1>5. truth' = [t \in Session |-> truth'[t]] BY <1>2, <1>3
<1>6. \A t \in Session : Tells(RowsOf(events, t), truth[t], current', usage') BY DEF JournalInv, SessionsTell
<1>7. purge'.at = purge.at => ReportTells' BY <1>3 DEF ReportTells
<1> QED BY <1>1, <1>3, <1>4, <1>5, <1>6, <1>7, CallKeepsInv

LEMMA CallsKeepInv ==
  ASSUME JournalInv, NEW s \in Session, NEW k \in Key,
         Hit(s, k) \/ Miss(s, k) \/ Record(s, k) \/ RunUnstored(s, k) \/ Meter(s, k)
  PROVE  JournalInv'
<1> USE JournalAssumption
<1>1. current \in SUBSET Key /\ awaiting \in SUBSET Key /\ usage[k] \in Nat
  BY DEF JournalInv, JournalTypes, Prices
<1>2. "run" \in Event /\ "would_hit" \in Event /\ "would_miss" \in Event BY DEF Event
<1>3. CASE Hit(s, k)
  <2>1. PICK told \in BOOLEAN : Journal(s, k, "hit", told) /\ Learn(s, 0, usage[k], told) BY <1>3 DEF Hit
  <2> QED BY <1>1, <1>3, <2>1, KindsAre, QuietCallKeepsInv DEF Hit
<1>4. CASE Miss(s, k)
  <2>1. PICK told \in BOOLEAN : Journal(s, k, "miss", told) /\ Learn(s, 0, 0, TRUE) BY <1>4 DEF Miss
  <2> QED BY <1>1, <1>4, <2>1, KindsAre, QuietCallKeepsInv DEF Miss
<1>5. CASE RunUnstored(s, k)
  <2>1. PICK told \in BOOLEAN, stays \in BOOLEAN :
          /\ Journal(s, k, "run", told) /\ Learn(s, 0, 0, FALSE)
          /\ awaiting' = IF stays THEN awaiting \cup {k} ELSE awaiting BY <1>5 DEF RunUnstored
  <2>2. awaiting' \in SUBSET Key BY <1>1, <2>1
  <2> QED BY <1>1, <1>2, <1>5, <2>1, <2>2, QuietCallKeepsInv DEF RunUnstored
<1>6. CASE Meter(s, k)
  <2> DEFINE e == IF k \in current THEN "would_hit" ELSE "would_miss"
  <2>1. PICK told \in BOOLEAN : Journal(s, k, e, told) /\ Learn(s, 0, 0, FALSE) BY <1>6 DEF Meter
  <2>2. e \in Event BY <1>2
  <2> HIDE DEF e
  <2> QED BY <1>1, <1>6, <2>1, <2>2, QuietCallKeepsInv DEF Meter
<1>7. CASE Record(s, k)
  <2>1. PICK told \in BOOLEAN, u \in Usage :
          /\ Journal(s, k, "record", told) /\ Supersedes(k, u)
          /\ truth' = [t \in Session |->
               IF t = s THEN Together(After(t, k, u), [paid |-> u, saved |-> 0, told |-> told])
               ELSE After(t, k, u)]
    BY <1>7 DEF Record
  <2> DEFINE y == [paid |-> u, saved |-> 0, told |-> told]
             was == [t \in Session |-> After(t, k, u)]
  <2>2. y \in TruthType /\ y.paid = u /\ y.saved = 0 /\ y.told = told BY DEF TruthType
  <2>3. /\ current' \in SUBSET Key /\ awaiting' \in SUBSET Key /\ usage' \in Prices /\ usage'[k] = u
        /\ k \in current' /\ report' \in ReportType /\ (purge'.at = purge.at => ReportTells')
        /\ \A t \in Session : /\ After(t, k, u) \in TruthType
                               /\ Tells(RowsOf(events, t), After(t, k, u), current', usage')
    BY <2>1, SupersedesKeeps
  <2>4. was \in [Session -> TruthType] /\ \A t \in Session : was[t] = After(t, k, u) BY <2>3
  <2>5. truth' = [t \in Session |-> IF t = s THEN Together(After(t, k, u), y) ELSE After(t, k, u)] BY <2>1
  <2> HIDE DEF y, was
  <2>6. \A t \in Session : truth'[t] = IF t = s THEN Together(was[s], y) ELSE was[t] BY <2>4, <2>5
  <2>7. truth' = [t \in Session |-> truth'[t]] BY <2>5
  <2>8. BeginCall BY <1>7 DEF Record
  <2> QED BY <2>1, <2>2, <2>3, <2>4, <2>6, <2>7, <2>8, KindsAre, CallKeepsInv
<1> QED BY <1>3, <1>4, <1>5, <1>6, <1>7

LEMMA RepairKeepsJournal == ASSUME JournalInv, NEW k \in Key, RepairAwaiting(k) PROVE JournalInv'
<1>1. PICK u \in Usage : Supersedes(k, u) /\ truth' = [t \in Session |-> After(t, k, u)]
  BY DEF RepairAwaiting
<1>2. k \in awaiting /\ events' = events /\ tagged' = tagged /\ calls' = calls /\ purge' = purge
  BY DEF RepairAwaiting
<1>3. /\ current' \in SUBSET Key /\ awaiting' \in SUBSET Key /\ usage' \in Prices
      /\ report' \in ReportType /\ ReportTells'
      /\ \A t \in Session : /\ After(t, k, u) \in TruthType
                             /\ Tells(RowsOf(events, t), After(t, k, u), current', usage')
  BY <1>1, <1>2, SupersedesKeeps
<1>4. truth' \in [Session -> TruthType] BY <1>1, <1>3
<1>5. JournalTypes' BY <1>2, <1>3, <1>4 DEF JournalInv, JournalTypes
<1>6. NoMoreThanCalls' BY <1>2 DEF JournalInv, NoMoreThanCalls
<1>7. SessionsTell' BY <1>1, <1>2, <1>3 DEF SessionsTell
<1>8. PurgeForgets'
  <2>1. current' = current \cup {k} /\ awaiting' = awaiting \ {k} BY <1>1 DEF Supersedes
  <2>2. \A j : j \notin current \cup awaiting => j \notin current' \cup awaiting' BY <1>2, <2>1
  <2>3. \A j : Gone(j) => Gone(j)' BY <1>2, <2>2 DEF Gone
  <2>4. PurgeForgets BY DEF JournalInv
  <2> QED BY <1>2, <2>2, <2>3, <2>4 DEF PurgeForgets
<1> QED BY <1>3, <1>5, <1>6, <1>7, <1>8 DEF JournalInv

LEMMA InitKeepsJournal == JournalInit => JournalInv
<1> SUFFICES ASSUME JournalInit PROVE JournalInv OBVIOUS
<1> USE JournalAssumption DEF JournalInit
<1>1. \A r \in Session \X Key \X Event : events[r] = 0 OBVIOUS
<1>2. events \in [Session \X Key \X Event -> Nat] /\ truth \in [Session -> TruthType] BY NoReportIs
<1>3. JournalTypes
  <2>1. usage \in Prices BY DEF Prices
  <2> QED BY <1>2, <2>1, NoReportIs, NoPurgeIs DEF JournalTypes
<1>4. NoMoreThanCalls BY <1>1 DEF NoMoreThanCalls
<1>5. SessionsTell
  <2>1. ASSUME NEW s \in Session PROVE Tells(RowsOf(events, s), truth[s], current, usage)
    <3>1. RowsOf(events, s) \in Rows BY <1>2, RowsAre
    <3>2. ASSUME NEW r \in Key \X Event PROVE RowsOf(events, s)[r] = 0
      <4>1. PICK k \in Key, e \in Event : r = <<k, e>> OBVIOUS
      <4>2. RowsOf(events, s)[<<k, e>>] = events[<<s, k, e>>] BY <1>2, RowsAre
      <4>3. <<s, k, e>> \in Session \X Key \X Event OBVIOUS
      <4> QED BY <1>1, <4>1, <4>2, <4>3
    <3> QED BY <1>3, <3>1, <3>2, EmptyTells DEF JournalTypes
  <2> QED BY <2>1 DEF SessionsTell
<1>6. ReportTells
  <2>1. NoReport.at = "none" BY DEF NoReport
  <2>2. report \in ReportType /\ usage \in Prices BY <1>3 DEF JournalTypes
  <2>3. AtPrice(report, usage) \in Prices BY <2>2, AtPriceIs
  <2> QED BY <2>1, <2>3, NoReportIs, NoPurgeIs DEF ReportTells
<1>7. PurgeForgets BY NoPurgeIs DEF PurgeForgets
<1> QED BY <1>3, <1>4, <1>5, <1>6, <1>7 DEF JournalInv

\* Only the report moves.
LEMMA ReportStep ==
  ASSUME JournalInv, Reads, report' \in ReportType, ReportTells'
  PROVE  JournalInv'
<1>1. /\ current' = current /\ usage' = usage /\ awaiting' = awaiting /\ events' = events /\ tagged' = tagged
      /\ calls' = calls /\ truth' = truth /\ purge' = purge BY DEF Reads
<1>2. JournalTypes' BY <1>1 DEF JournalInv, JournalTypes
<1>3. NoMoreThanCalls' /\ SessionsTell' BY <1>1 DEF JournalInv, NoMoreThanCalls, SessionsTell, RowsOf
<1>4. PurgeForgets' BY <1>1 DEF JournalInv, PurgeForgets, Gone
<1> QED BY <1>2, <1>3, <1>4 DEF JournalInv

LEMMA TagsKeepJournal ==
  ASSUME JournalInv, NEW s \in Session, TagSession(s) \/ UntagSession(s) PROVE JournalInv'
<1>1. /\ current' = current /\ usage' = usage /\ awaiting' = awaiting /\ events' = events
      /\ calls' = calls /\ truth' = truth /\ purge' = purge /\ report' = report
      /\ tagged' \in SUBSET Session
  BY DEF TagSession, UntagSession, JournalInv, JournalTypes
<1>2. JournalTypes' BY <1>1 DEF JournalInv, JournalTypes
<1>3. NoMoreThanCalls' /\ SessionsTell' BY <1>1 DEF JournalInv, NoMoreThanCalls, SessionsTell, RowsOf
<1>4. PurgeForgets' /\ ReportTells' BY <1>1 DEF JournalInv, PurgeForgets, Gone, ReportTells
<1> QED BY <1>2, <1>3, <1>4 DEF JournalInv

LEMMA SeenAre ==
  ASSUME NEW rows \in Rows
  PROVE  Seen(rows) \in SUBSET Key /\ \A k \in Key, e \in Event : rows[<<k, e>>] > 0 => k \in Seen(rows)
BY DEF Seen

LEMMA ReportsKeepJournal ==
  ASSUME JournalInv,
         \/ StartReport \/ (\E s \in Session : ReadEvents(s)) \/ EventsRead
         \/ (\E k \in Key : PriceKey(k)) \/ CountAwaiting \/ EndReport
  PROVE  JournalInv'
<1> USE JournalAssumption
<1> DEFINE R == report
<1>1. R \in ReportType /\ ReportTells /\ SessionsTell /\ JournalTypes /\ tagged \in SUBSET Session
  BY DEF JournalInv, JournalTypes
<1>2. R.rows \in Rows /\ R.truth \in TruthType BY <1>1 DEF ReportType
<1>3. ASSUME StartReport PROVE JournalInv'
  <2>1. PICK sessions \in {tagged} \cup {{s} : s \in Session} :
          report' = [NoReport EXCEPT !.at = "events", !.todo = sessions] BY <1>3 DEF StartReport
  <2>2. sessions \in SUBSET Session BY <1>1
  <2>3. report' \in ReportType BY <2>1, <2>2, NoReportIs DEF ReportType
  <2>4. /\ report'.at = "events" /\ report'.rows = NoReport.rows /\ report'.truth = NoReport.truth
        /\ report'.priced = {}
    <3>1. NoReport.priced = {} BY DEF NoReport
    <3> QED BY <2>1, <3>1, NoReportIs DEF ReportType
  <2>5. purge'.at = "none" /\ usage' \in Prices BY <1>1, <1>3 DEF StartReport, AtRest, Reads, JournalTypes
  <2>51. AtPrice(report', usage') \in Prices BY <2>3, <2>5, AtPriceIs
  <2>6. ReportTells' BY <2>4, <2>5, <2>51, NoReportIs DEF ReportTells
  <2>7. Reads BY <1>3 DEF StartReport
  <2> QED BY <2>3, <2>6, <2>7, ReportStep
<1>4. ASSUME NEW s \in Session, ReadEvents(s) PROVE JournalInv'
  <2> DEFINE rows == [r \in Key \X Event |-> R.rows[r] + events[<<s, r[1], r[2]>>]]
             t == Together(R.truth, truth[s])
             todo == R.todo \ {s}
  <2>0. Reads /\ R.at = "events" BY <1>4 DEF ReadEvents
  <2>1. report' = [R EXCEPT !.todo = todo, !.rows = rows, !.truth = t] BY <1>4 DEF ReadEvents
  <2>2. events \in [Session \X Key \X Event -> Nat] /\ truth[s] \in TruthType BY <1>1 DEF JournalTypes
  <2>3. RowsOf(events, s) \in Rows BY <2>2, RowsAre
  <2>4. rows \in Rows /\ \A r \in Key \X Event : rows[r] = R.rows[r] + RowsOf(events, s)[r]
    <3>1. \A r \in Key \X Event : rows[r] = R.rows[r] + RowsOf(events, s)[r] BY DEF RowsOf
    <3>2. rows = [r \in Key \X Event |-> rows[r]] OBVIOUS
    <3>3. \A r \in Key \X Event : R.rows[r] \in Nat /\ RowsOf(events, s)[r] \in Nat BY <1>2, <2>3 DEF Rows
    <3> HIDE DEF rows, R
    <3>4. \A r \in Key \X Event : rows[r] \in Nat BY <3>1, <3>3
    <3> QED BY <3>1, <3>2, <3>4 DEF Rows
  <2>5. t \in TruthType BY <1>2, <2>2, TogetherIs
  <2>6. todo \in SUBSET Session BY <1>1 DEF ReportType
  <2>70. usage \in Prices /\ R.priced = {} BY <1>1, <2>0 DEF JournalTypes, ReportTells
  <2>71. AtPrice(R, usage) = usage BY <2>70 DEF AtPrice, Prices
  <2>7. Tells(R.rows, R.truth, current, usage) /\ Tells(RowsOf(events, s), truth[s], current, usage)
    BY <1>1, <2>71 DEF ReportTells, SessionsTell
  <2> HIDE DEF rows, R
  <2>8. Tells(rows, t, current, usage) BY <1>2, <2>2, <2>3, <2>4, <2>7, <2>70, TellsTogether
  <2> HIDE DEF t, todo
  <2>9. /\ report' \in ReportType /\ report'.rows = rows /\ report'.truth = t /\ report'.at = "events"
        /\ report'.priced = {}
    BY <1>1, <2>0, <2>1, <2>4, <2>5, <2>6, <2>70 DEF ReportType
  <2>10. purge'.at = "none" /\ current' = current /\ usage' = usage BY <1>1, <2>0 DEF ReportTells, Reads, R
  <2>101. AtPrice(report', usage') = usage BY <2>9, <2>10, <2>70 DEF AtPrice, Prices
  <2>11. ReportTells' BY <2>8, <2>9, <2>10, <2>101 DEF ReportTells
  <2> QED BY <2>0, <2>9, <2>11, ReportStep
<1>5. ASSUME EventsRead PROVE JournalInv'
  <2>0. Reads /\ R.at = "events" /\ report' = [R EXCEPT !.at = "usage"] BY <1>5 DEF EventsRead
  <2>2. Tells(R.rows, R.truth, current, AtPrice(R, usage)) /\ purge.at = "none" BY <1>1, <2>0 DEF ReportTells
  <2> HIDE DEF R
  <2>3. /\ report' \in ReportType /\ report'.at = "usage" /\ report'.priced = R.priced
        /\ report'.price = R.price /\ report'.rows = R.rows /\ report'.truth = R.truth
    BY <1>1, <2>0 DEF ReportType
  <2>4. purge'.at = "none" /\ current' = current /\ usage' = usage BY <2>0, <2>2 DEF Reads
  <2>5. AtPrice(report', usage') = AtPrice(R, usage) BY <2>3, <2>4 DEF AtPrice
  <2>6. ReportTells' BY <2>2, <2>3, <2>4, <2>5 DEF ReportTells
  <2> QED BY <2>0, <2>3, <2>6, ReportStep
<1>6. ASSUME NEW k \in Key, PriceKey(k) PROVE JournalInv'
  <2> DEFINE priced == R.priced \cup {k}
             price == [R.price EXCEPT ![k] = IF k \in current THEN usage[k] ELSE 0]
  <2>0. /\ Reads /\ R.at = "usage" /\ k \notin R.priced
        /\ report' = [R EXCEPT !.priced = priced, !.price = price] BY <1>6 DEF PriceKey
  <2>1. usage \in Prices /\ R.price \in Prices /\ R.priced \in SUBSET Key /\ current \in SUBSET Key
    BY <1>1 DEF ReportType, JournalTypes
  <2>2. priced \in SUBSET Key /\ price \in Prices BY <2>1 DEF Prices
  <2>3. price[k] = (IF k \in current THEN usage[k] ELSE 0) /\ \A j \in Key \ {k} : price[j] = R.price[j]
    BY <2>1 DEF Prices
  <2>4. priced = R.priced \cup {k} OBVIOUS
  <2>5. Tells(R.rows, R.truth, current, AtPrice(R, usage)) /\ purge.at = "none" BY <1>1, <2>0 DEF ReportTells
  <2> HIDE DEF priced, price, R
  <2>6. /\ report' \in ReportType /\ report'.at = "usage" /\ report'.priced = priced
        /\ report'.price = price /\ report'.rows = R.rows /\ report'.truth = R.truth
    BY <1>1, <2>0, <2>2 DEF ReportType
  <2>7. purge'.at = "none" /\ current' = current /\ usage' = usage BY <2>0, <2>5 DEF Reads
  <2>8. AtPrice(R, usage) \in Prices /\ AtPrice(report', usage') \in Prices
    BY <1>1, <2>1, <2>6, <2>7, AtPriceIs
  <2>9. ASSUME NEW j \in Key, AtPrice(report', usage')[j] # AtPrice(R, usage)[j] PROVE j = k /\ k \notin current
    BY <2>0, <2>3, <2>4, <2>6, <2>7, <2>9 DEF AtPrice
  <2>10. R.truth.told => \A e \in Priced : ~(R.rows[<<k, e>>] > 0) \/ k \in current BY <2>5 DEF Tells
  <2>11. Tells(R.rows, R.truth, current, AtPrice(report', usage'))
    <3>1. CASE k \in current
      <4>1. AtPrice(report', usage') = AtPrice(R, usage) BY <2>8, <2>9, <3>1 DEF Prices
      <4> QED BY <2>5, <4>1
    <3>2. CASE k \notin current
      <4>1. ASSUME R.truth.told PROVE \A j \in Key, e \in Priced :
              R.rows[<<j, e>>] = 0 \/ AtPrice(report', usage')[j] = AtPrice(R, usage)[j]
        <5>1. ASSUME NEW e \in Priced PROVE R.rows[<<k, e>>] = 0
          <6>1. <<k, e>> \in Key \X Event BY KindsAre DEF Kinds
          <6>2. R.rows[<<k, e>>] \in Nat BY <1>2, <6>1 DEF Rows
          <6>3. ~(R.rows[<<k, e>>] > 0) BY <2>10, <3>2, <4>1
          <6> QED BY <6>2, <6>3
        <5> QED BY <2>9, <5>1
      <4>2. ASSUME R.truth.told
            PROVE  /\ Value(R.rows, Executed, AtPrice(report', usage')) = Value(R.rows, Executed, AtPrice(R, usage))
                   /\ Value(R.rows, {"hit"}, AtPrice(report', usage')) = Value(R.rows, {"hit"}, AtPrice(R, usage))
        <5>1. Executed \subseteq Priced /\ {"hit"} \subseteq Priced BY DEF Priced
        <5> QED BY <1>2, <2>8, <4>1, <4>2, <5>1, KindsAre, ValueAtPrice
      <4> QED BY <2>5, <4>2 DEF Tells
    <3> QED BY <3>1, <3>2
  <2>12. ReportTells' BY <2>6, <2>7, <2>11 DEF ReportTells
  <2> QED BY <2>0, <2>6, <2>12, ReportStep
<1>7. ASSUME CountAwaiting PROVE JournalInv'
  <2> DEFINE n == Cardinality(Seen(R.rows) \cap awaiting)
  <2>0. /\ Reads /\ R.at = "usage" /\ Seen(R.rows) \subseteq R.priced
        /\ report' = [R EXCEPT !.at = "ready", !.failed = n]
    BY <1>7 DEF CountAwaiting
  <2>1. n \in Nat
    <3>1. Seen(R.rows) \cap awaiting \in SUBSET Key BY <1>2, SeenAre
    <3> QED BY <3>1, FS_Subset, FS_CardinalityType
  <2>2. ReportTells /\ purge.at = "none" BY <1>1, <2>0 DEF ReportTells
  <2> HIDE DEF n, R
  <2>4. /\ report' \in ReportType /\ report'.at = "ready" /\ report'.price = R.price
        /\ report'.priced = R.priced /\ report'.rows = R.rows /\ report'.truth = R.truth
    BY <1>1, <2>0, <2>1 DEF ReportType
  <2>5. purge'.at = "none" /\ current' = current /\ usage' = usage BY <2>0, <2>2 DEF Reads
  <2>51. AtPrice(report', usage') = AtPrice(R, usage) BY <2>4, <2>5 DEF AtPrice
  <2>52. Tells(R.rows, R.truth, current, AtPrice(R, usage)) BY <2>2 DEF ReportTells, R
  <2>6. ReportTells' BY <2>0, <2>4, <2>5, <2>51, <2>52 DEF ReportTells
  <2> QED BY <2>0, <2>4, <2>6, ReportStep
<1>8. ASSUME EndReport PROVE JournalInv'
  <2>0. Reads /\ report' = NoReport /\ report.at = "ready" BY <1>8 DEF EndReport
  <2>1. NoReport.at = "none" /\ NoReport \in ReportType BY NoReportIs DEF NoReport
  <2>2. usage' \in Prices BY <1>1, <2>0 DEF Reads, JournalTypes
  <2>3. AtPrice(report', usage') \in Prices BY <2>0, <2>1, <2>2, AtPriceIs
  <2>4. ReportTells' BY <2>0, <2>1, <2>3, NoReportIs DEF ReportTells
  <2> QED BY <2>0, <2>1, <2>4, ReportStep
<1> QED BY <1>3, <1>4, <1>5, <1>6, <1>7, <1>8

\* Only the purge moves.
LEMMA PurgeMoves ==
  ASSUME JournalInv, UNCHANGED <<current, awaiting, events, truth>>, Purges,
         purge' \in PurgeType, PurgeForgets', report.at = "none" \/ purge'.at = "none"
  PROVE  JournalInv'
<1>1. /\ current' = current /\ usage' = usage /\ awaiting' = awaiting /\ events' = events /\ tagged' = tagged
      /\ calls' = calls /\ truth' = truth /\ report' = report BY DEF Purges
<1>2. JournalTypes' BY <1>1 DEF JournalInv, JournalTypes
<1>3. NoMoreThanCalls' /\ SessionsTell' BY <1>1 DEF JournalInv, NoMoreThanCalls, SessionsTell, RowsOf
<1>4. ReportTells' BY <1>1 DEF JournalInv, ReportTells, AtPrice
<1> QED BY <1>2, <1>3, <1>4 DEF JournalInv

LEMMA PurgeRowsKeepsJournal ==
  ASSUME JournalInv, NEW k \in Key, PurgeRows(k) PROVE JournalInv'
<1> DEFINE P == purge
<1>1. /\ P.at = "rows" /\ k \in P.keys /\ current' = current \ {k} /\ Losing(k)
      /\ usage' = usage /\ events' = events /\ tagged' = tagged /\ calls' = calls /\ report' = report
  BY DEF PurgeRows, Purges
<1>2. /\ P.hard => /\ awaiting' = awaiting \ {k}
                   /\ purge' = [P EXCEPT !.at = "events", !.keys = @ \ {k}, !.doing = {k}]
      /\ ~P.hard => awaiting' = awaiting /\ purge' = [P EXCEPT !.keys = @ \ {k}]
  BY DEF PurgeRows
<1>3. JournalTypes /\ P \in PurgeType /\ ReportTells /\ PurgeForgets /\ SessionsTell
  BY DEF JournalInv, JournalTypes
<1>4. report.at = "none" /\ report = NoReport BY <1>1, <1>3 DEF ReportTells
<1> HIDE DEF P
<1>5. /\ purge' \in PurgeType /\ purge'.hard = P.hard /\ purge'.quiet = P.quiet /\ purge'.all = P.all
      /\ purge'.keys = P.keys \ {k}
      /\ P.hard => purge'.at = "events" /\ purge'.doing = {k}
      /\ ~P.hard => purge'.at = "rows" /\ purge'.doing = P.doing
  <2>1. CASE P.hard
    <3>1. P.keys \ {k} \in SUBSET Key /\ {k} \in SUBSET Key BY <1>3 DEF PurgeType
    <3>2. purge' = [P EXCEPT !.at = "events", !.keys = P.keys \ {k}, !.doing = {k}] BY <1>2, <2>1
    <3>3. purge' \in PurgeType BY <1>3, <3>1, <3>2 DEF PurgeType
    <3>4. /\ purge'.hard = P.hard /\ purge'.quiet = P.quiet /\ purge'.all = P.all
          /\ purge'.keys = P.keys \ {k} /\ purge'.at = "events" /\ purge'.doing = {k}
      BY <1>3, <3>2 DEF PurgeType
    <3> QED BY <2>1, <3>3, <3>4
  <2>2. CASE ~P.hard BY <1>1, <1>2, <1>3, <2>2 DEF PurgeType
  <2> QED BY <2>1, <2>2
<1>6. truth' = [s \in Session |-> IF k \in KeysOf(s) THEN Untold ELSE truth[s]] BY <1>1 DEF Losing
<1>7. JournalTypes'
  <2>1. truth' \in [Session -> TruthType] BY <1>3, <1>6, NoReportIs DEF JournalTypes
  <2>2. current' \in SUBSET Key /\ awaiting' \in SUBSET Key BY <1>1, <1>2, <1>3 DEF JournalTypes
  <2> QED BY <1>1, <1>3, <1>5, <2>1, <2>2 DEF JournalTypes
<1>8. NoMoreThanCalls' BY <1>1 DEF JournalInv, NoMoreThanCalls
<1>9. SessionsTell'
  <2>1. ASSUME NEW s \in Session PROVE Tells(RowsOf(events, s), truth'[s], current', usage)
    <3>1. CASE k \in KeysOf(s) BY <1>6, <3>1, NoReportIs DEF Tells
    <3>2. CASE k \notin KeysOf(s)
      <4>1. Tells(RowsOf(events, s), truth[s], current, usage) BY <1>3 DEF SessionsTell
      <4>2. ASSUME NEW j \in Key, NEW e \in Priced, RowsOf(events, s)[<<j, e>>] > 0 PROVE j # k
        <5>1. e \in Event BY KindsAre DEF Kinds
        <5>2. events[<<s, j, e>>] > 0 BY <1>3, <4>2, <5>1, RowsAre DEF JournalTypes
        <5> QED BY <3>2, <5>1, <5>2 DEF KeysOf
      <4>3. truth'[s] = truth[s] BY <1>6, <3>2
      <4> QED BY <1>1, <4>1, <4>2, <4>3 DEF Tells
    <3> QED BY <3>1, <3>2
  <2> QED BY <1>1, <2>1 DEF SessionsTell
<1>10. ReportTells' BY <1>1, <1>3, <1>4, NoReportTells DEF JournalTypes
<1>11. PurgeForgets'
  <2>1. P.doing = {} BY <1>1, <1>3 DEF PurgeForgets, P
  <2>2. ASSUME P.hard, P.quiet
        PROVE  /\ \A j \in purge'.all \ (purge'.keys \cup purge'.doing) : Gone(j)'
               /\ \A j \in purge'.doing : j \notin current' \cup awaiting'
    <3>1. \A j \in P.all \ (P.keys \cup P.doing) : Gone(j) BY <1>1, <1>3, <2>2 DEF PurgeForgets, P
    <3>2. \A j : Gone(j) => Gone(j)' BY <1>1, <1>2, <2>2 DEF Gone
    <3>3. purge'.all \ (purge'.keys \cup purge'.doing) \subseteq P.all \ (P.keys \cup P.doing)
      BY <1>1, <1>5, <2>1, <2>2
    <3>4. \A j \in purge'.doing : j \notin current' \cup awaiting' BY <1>1, <1>2, <1>5, <2>2
    <3> QED BY <3>1, <3>2, <3>3, <3>4
  <2>3. P.hard \in BOOLEAN /\ P.quiet \in BOOLEAN BY <1>3 DEF PurgeType
  <2> QED BY <1>5, <2>1, <2>2, <2>3 DEF PurgeForgets
<1> QED BY <1>7, <1>8, <1>9, <1>10, <1>11 DEF JournalInv

LEMMA PurgeEventsKeepsJournal ==
  ASSUME JournalInv, NEW k \in Key, PurgeEvents(k) PROVE JournalInv'
<1> DEFINE P == purge
<1>1. /\ P.at = "events" /\ k \in P.doing /\ usage' = usage /\ current' = current /\ awaiting' = awaiting /\ Losing(k)
      /\ tagged' = tagged /\ calls' = calls /\ report' = report
      /\ \/ events' = WithoutEvents(k) /\ purge' = [P EXCEPT !.at = "rows", !.doing = {}]
         \/ events' = events /\ purge' = [P EXCEPT !.at = "rows", !.doing = {}, !.quiet = FALSE]
  BY DEF PurgeEvents, Purges
<1>3. JournalTypes /\ P \in PurgeType /\ ReportTells /\ PurgeForgets /\ SessionsTell
  BY DEF JournalInv, JournalTypes
<1>4. report.at = "none" /\ report = NoReport BY <1>1, <1>3 DEF ReportTells
<1> HIDE DEF P
<1>5. /\ purge' \in PurgeType /\ purge'.hard = P.hard /\ purge'.all = P.all
      /\ purge'.keys = P.keys /\ purge'.at = "rows" /\ purge'.doing = {}
      /\ purge'.quiet => P.quiet /\ events' = WithoutEvents(k)
  <2>1. CASE events' = WithoutEvents(k) /\ purge' = [P EXCEPT !.at = "rows", !.doing = {}]
    BY <1>3, <2>1 DEF PurgeType
  <2>2. CASE purge' = [P EXCEPT !.at = "rows", !.doing = {}, !.quiet = FALSE]
    BY <1>3, <2>2 DEF PurgeType
  <2> QED BY <1>1, <2>1, <2>2
<1>6. truth' = [s \in Session |-> IF k \in KeysOf(s) THEN Untold ELSE truth[s]] BY <1>1 DEF Losing
<1>7. events \in [Session \X Key \X Event -> Nat] BY <1>3 DEF JournalTypes
<1>8. /\ events' \in [Session \X Key \X Event -> Nat]
      /\ \A r \in Session \X Key \X Event : events'[r] # events[r] => r[2] = k /\ events'[r] = 0
  <2>1. CASE events' = events BY <1>7, <2>1, Zenon
  <2>2. CASE events' = WithoutEvents(k)
    <3>1. events' = [r \in Session \X Key \X Event |-> IF r[2] = k THEN 0 ELSE events[r]]
      BY <1>7, <2>2 DEF WithoutEvents
    <3>2. events' \in [Session \X Key \X Event -> Nat] BY <1>7, <3>1
    <3>3. ASSUME NEW r \in Session \X Key \X Event
          PROVE  events'[r] = IF r[2] = k THEN 0 ELSE events[r]
      BY <3>1, Zenon
    <3>4. ASSUME NEW r \in Session \X Key \X Event, events'[r] # events[r]
          PROVE  r[2] = k /\ events'[r] = 0
      BY <3>3, <3>4, Zenon
    <3> QED BY <3>2, <3>4, Zenon
  <2> QED BY <1>1, <2>1, <2>2
<1>9. JournalTypes'
  <2>1. truth' \in [Session -> TruthType] BY <1>3, <1>6, NoReportIs DEF JournalTypes
  <2> QED BY <1>1, <1>3, <1>5, <1>8, <2>1 DEF JournalTypes
<1>10. NoMoreThanCalls'
  <2>1. calls \in Nat BY <1>3 DEF JournalTypes
  <2> QED BY <1>1, <1>8, <2>1 DEF JournalInv, NoMoreThanCalls
<1>11. SessionsTell'
  <2>1. ASSUME NEW s \in Session PROVE Tells(RowsOf(events', s), truth'[s], current', usage)
    <3>1. CASE k \in KeysOf(s) BY <1>6, <3>1, NoReportIs DEF Tells
    <3>2. CASE k \notin KeysOf(s)
      <4>1. Tells(RowsOf(events, s), truth[s], current, usage) BY <1>3 DEF SessionsTell
      <4>2. ASSUME NEW r \in Key \X Event PROVE events'[<<s, r[1], r[2]>>] = events[<<s, r[1], r[2]>>]
        <5>1. PICK j \in Key, e \in Event : r = <<j, e>> OBVIOUS
        <5>2. <<s, j, e>> \in Session \X Key \X Event /\ <<s, j, e>>[2] = j OBVIOUS
        <5>3. j = k => events[<<s, j, e>>] = 0
          <6>1. events[<<s, j, e>>] \in Nat BY <1>7, <5>2
          <6> QED BY <3>2, <6>1 DEF KeysOf
        <5>4. events'[<<s, j, e>>] = events[<<s, j, e>>] BY <1>8, <5>2, <5>3
        <5> QED BY <5>1, <5>4
      <4>3. RowsOf(events', s) = RowsOf(events, s) BY <4>2 DEF RowsOf
      <4>4. truth'[s] = truth[s] BY <1>6, <3>2
      <4> QED BY <1>1, <4>1, <4>3, <4>4
    <3> QED BY <3>1, <3>2
  <2> QED BY <1>1, <2>1 DEF SessionsTell
<1>12. ReportTells' BY <1>1, <1>3, <1>4, NoReportTells DEF JournalTypes
<1>13. PurgeForgets'
  <2>1. ASSUME purge'.hard, purge'.quiet, NEW j \in purge'.all \ purge'.keys PROVE Gone(j)'
    <3>1. /\ \A i \in P.all \ (P.keys \cup P.doing) : Gone(i)
          /\ \A i \in P.doing : i \notin current \cup awaiting
      BY <1>1, <1>3, <1>5, <2>1 DEF PurgeForgets, P
    <3>2. P.doing = {k} BY <1>1, <1>3 DEF PurgeForgets, P
    <3>3. j \in Key BY <1>5 DEF PurgeType
    <3>4. ASSUME NEW s \in Session, NEW e \in Event PROVE events'[<<s, j, e>>] = 0
      <4>1. <<s, j, e>> \in Session \X Key \X Event /\ <<s, j, e>>[2] = j BY <3>3
      <4>2. CASE j = k
        <5>1. events' = WithoutEvents(k) BY <1>5, <2>1
        <5> QED BY <1>7, <4>1, <4>2, <5>1 DEF WithoutEvents
      <4>3. CASE j # k
        <5>1. Gone(j) BY <1>5, <2>1, <3>1, <3>2, <4>3
        <5>2. events[<<s, j, e>>] = 0 BY <5>1 DEF Gone
        <5> QED BY <1>8, <4>1, <5>2
      <4> QED BY <4>2, <4>3
    <3>5. j \notin current' \cup awaiting'
      <4>1. CASE j = k BY <1>1, <3>1, <3>2, <4>1
      <4>2. CASE j # k BY <1>1, <1>5, <2>1, <3>1, <3>2, <4>2 DEF Gone
      <4> QED BY <4>1, <4>2
    <3> QED BY <3>4, <3>5 DEF Gone
  <2> QED BY <1>5, <2>1 DEF PurgeForgets
<1> QED BY <1>9, <1>10, <1>11, <1>12, <1>13 DEF JournalInv

LEMMA PurgesKeepJournal ==
  ASSUME JournalInv,
         \/ StartPurge \/ (\E s \in Session : CollectKeys(s)) \/ KeysCollected \/ PurgeDone \/ EndPurge
  PROVE  JournalInv'
<1> DEFINE P == purge
<1>1. P \in PurgeType /\ PurgeForgets /\ ReportTells /\ tagged \in SUBSET Session
  BY DEF JournalInv, JournalTypes
<1>2. ASSUME StartPurge PROVE JournalInv'
  <2>1. PICK hard \in BOOLEAN, sessions \in {tagged} \cup {{s} : s \in Session} :
          purge' = [NoPurge EXCEPT !.at = "sessions", !.hard = hard, !.sessions = sessions]
    BY <1>2 DEF StartPurge
  <2>2. sessions \in SUBSET Session BY <1>1
  <2>3. /\ purge' \in PurgeType /\ purge'.at = "sessions" /\ purge'.keys = purge'.all /\ purge'.doing = {}
    <3>1. NoPurge \in PurgeType /\ NoPurge.keys = NoPurge.all /\ NoPurge.doing = {} BY NoPurgeIs DEF NoPurge
    <3> QED BY <2>1, <2>2, <3>1 DEF PurgeType
  <2>4. PurgeForgets' BY <2>3 DEF PurgeForgets
  <2>5. report.at = "none" /\ UNCHANGED <<current, awaiting, events, truth>> /\ Purges
    BY <1>2 DEF StartPurge, AtRest
  <2> QED BY <2>3, <2>4, <2>5, PurgeMoves
<1>3. ASSUME NEW s \in Session, CollectKeys(s) PROVE JournalInv'
  <2> DEFINE K == KeysOf(s)
  <2>0. K \in SUBSET Key BY DEF KeysOf
  <2>1. /\ P.at = "sessions" /\ UNCHANGED <<current, awaiting, events, truth>> /\ Purges
        /\ purge' = [P EXCEPT !.sessions = @ \ {s}, !.keys = @ \cup K, !.all = @ \cup K]
    BY <1>3 DEF CollectKeys
  <2>2. P.keys = P.all /\ P.doing = {} /\ report.at = "none" BY <1>1, <2>1 DEF PurgeForgets, ReportTells
  <2> HIDE DEF K, P
  <2>3. purge' \in PurgeType /\ purge'.at = "sessions" /\ purge'.keys = purge'.all /\ purge'.doing = {}
    BY <1>1, <2>0, <2>1, <2>2 DEF PurgeType
  <2>4. PurgeForgets' BY <2>3 DEF PurgeForgets
  <2> QED BY <2>1, <2>2, <2>3, <2>4, PurgeMoves
<1>4. ASSUME KeysCollected PROVE JournalInv'
  <2>1. /\ P.at = "sessions" /\ UNCHANGED <<current, awaiting, events, truth>> /\ Purges
        /\ purge' = [P EXCEPT !.at = "rows"]
    BY <1>4 DEF KeysCollected
  <2>2. P.keys = P.all /\ P.doing = {} /\ report.at = "none" BY <1>1, <2>1 DEF PurgeForgets, ReportTells
  <2> HIDE DEF P
  <2>3. purge' \in PurgeType /\ purge'.at = "rows" /\ purge'.keys = purge'.all /\ purge'.doing = P.doing
    BY <1>1, <2>1, <2>2 DEF PurgeType
  <2>4. PurgeForgets' BY <2>2, <2>3 DEF PurgeForgets
  <2> QED BY <2>1, <2>2, <2>3, <2>4, PurgeMoves
<1>5. ASSUME PurgeDone PROVE JournalInv'
  <2>1. /\ P.at = "rows" /\ P.keys = {} /\ UNCHANGED <<current, awaiting, events, truth>> /\ Purges
        /\ purge' = [P EXCEPT !.at = "done"]
    BY <1>5 DEF PurgeDone
  <2>2. report.at = "none" BY <1>1, <2>1 DEF ReportTells
  <2>3. /\ P.doing = {}
        /\ P.hard /\ P.quiet => \A k \in P.all \ (P.keys \cup P.doing) : Gone(k)
    BY <1>1, <2>1 DEF PurgeForgets
  <2> HIDE DEF P
  <2>4. /\ purge' \in PurgeType /\ purge'.at = "done" /\ purge'.keys = {} /\ purge'.doing = P.doing
        /\ purge'.all = P.all /\ purge'.hard = P.hard /\ purge'.quiet = P.quiet
    BY <1>1, <2>1 DEF PurgeType
  <2>5. \A k : Gone(k) => Gone(k)' BY <2>1 DEF Gone
  <2>6. PurgeForgets' BY <2>1, <2>3, <2>4, <2>5 DEF PurgeForgets
  <2> QED BY <2>1, <2>2, <2>4, <2>6, PurgeMoves
<1>6. ASSUME EndPurge PROVE JournalInv'
  <2>1. purge' = NoPurge /\ UNCHANGED <<current, awaiting, events, truth>> /\ Purges BY <1>6 DEF EndPurge
  <2>2. PurgeForgets' BY <2>1, NoPurgeIs DEF PurgeForgets
  <2> QED BY <2>1, <2>2, NoPurgeIs, PurgeMoves
<1> QED BY <1>2, <1>3, <1>4, <1>5, <1>6

LEMMA JournalStep == JournalInv /\ [JournalNext]_journalVars => JournalInv'
<1> SUFFICES ASSUME JournalInv, [JournalNext]_journalVars PROVE JournalInv' OBVIOUS
<1>1. CASE UNCHANGED journalVars
  <2>1. JournalTypes' BY <1>1 DEF journalVars, JournalInv, JournalTypes
  <2>2. NoMoreThanCalls' /\ SessionsTell' BY <1>1 DEF journalVars, JournalInv, NoMoreThanCalls, SessionsTell, RowsOf
  <2>3. ReportTells' BY <1>1 DEF journalVars, JournalInv, ReportTells, AtPrice
  <2>4. PurgeForgets' BY <1>1 DEF journalVars, JournalInv, PurgeForgets, Gone
  <2> QED BY <2>1, <2>2, <2>3, <2>4 DEF JournalInv
<1>2. CASE JournalNext
  BY <1>2, CallsKeepInv, TagsKeepJournal, ReportsKeepJournal, PurgesKeepJournal, PurgeRowsKeepsJournal,
     PurgeEventsKeepsJournal, RepairKeepsJournal DEF JournalNext
<1> QED BY <1>1, <1>2

LEMMA JournalAlways == JournalSpec => []JournalInv
BY InitKeepsJournal, JournalStep, PTL DEF JournalSpec

LEMMA InvIsHonest == JournalInv => JournalIsHonest /\ JournalTypeOK
<1> SUFFICES ASSUME JournalInv PROVE JournalIsHonest /\ JournalTypeOK OBVIOUS
<1> USE JournalAssumption
<1>1. JournalTypes /\ ReportTells /\ PurgeForgets BY DEF JournalInv
<1>2. TheReportIsTrue
  <2> SUFFICES ASSUME report.at = "ready", report.truth.told
               PROVE  Spent(report) = report.truth.paid /\ Saved(report) = report.truth.saved
    BY DEF TheReportIsTrue
  <2> DEFINE at == AtPrice(report, usage)
  <2>1. report.rows \in Rows /\ report.price \in Prices /\ usage \in Prices /\ report \in ReportType
    BY <1>1 DEF JournalTypes, ReportType
  <2>2. at \in Prices BY <2>1, AtPriceIs
  <2>3. Tells(report.rows, report.truth, current, at) BY <1>1 DEF ReportTells
  <2>4. ASSUME NEW k \in Key, NEW e \in Event PROVE report.rows[<<k, e>>] = 0 \/ report.price[k] = at[k]
    <3>1. report.rows[<<k, e>>] \in Nat BY <2>1 DEF Rows
    <3>2. report.rows[<<k, e>>] > 0 => k \in report.priced BY <1>1, <2>1, SeenAre DEF ReportTells
    <3>3. k \in report.priced => report.price[k] = at[k] BY DEF AtPrice
    <3> QED BY <3>1, <3>2, <3>3
  <2> HIDE DEF at
  <2>5. Executed \subseteq Event /\ {"hit"} \subseteq Event BY KindsAre DEF Kinds
  <2>6. /\ Value(report.rows, Executed, report.price) = Value(report.rows, Executed, at)
        /\ Value(report.rows, {"hit"}, report.price) = Value(report.rows, {"hit"}, at)
    BY <2>1, <2>2, <2>4, <2>5, KindsAre, ValueAtPrice
  <2>7. /\ Tokens(report.rows, report.price, Executed) = Value(report.rows, Executed, report.price)
        /\ Tokens(report.rows, report.price, {"hit"}) = Value(report.rows, {"hit"}, report.price)
    BY <2>1, KindsAre, TokensAdd
  <2> QED BY <2>3, <2>6, <2>7 DEF Tells, Spent, Saved
<1>3. HardPurgeForgets
  <2> SUFFICES ASSUME purge.at = "done", purge.hard, purge.quiet
               PROVE  /\ purge.all \cap (current \cup awaiting) = {}
                      /\ \A r \in DOMAIN events : r[2] \in purge.all => events[r] = 0
    BY DEF HardPurgeForgets
  <2>1. \A k \in purge.all : Gone(k) BY <1>1 DEF PurgeForgets
  <2>2. ASSUME NEW r \in DOMAIN events, r[2] \in purge.all PROVE events[r] = 0
    <3>1. r \in Session \X Key \X Event BY <1>1 DEF JournalTypes
    <3>2. PICK s \in Session, k \in Key, e \in Event : r = <<s, k, e>> BY <3>1
    <3> QED BY <2>1, <2>2, <3>2 DEF Gone
  <2> QED BY <2>1, <2>2 DEF Gone
<1>4. JournalTypeOK
  <2>1. events \in [Session \X Key \X Event -> 0..MaxCalls]
    <3>1. events \in [Session \X Key \X Event -> Nat] /\ calls \in 0..MaxCalls BY <1>1 DEF JournalTypes
    <3>2. ASSUME NEW r \in Session \X Key \X Event PROVE events[r] \in 0..MaxCalls
      <4>1. events[r] <= calls /\ events[r] \in Nat BY <3>1 DEF JournalInv, NoMoreThanCalls
      <4> QED BY <3>1, <4>1
    <3> QED BY <3>1, <3>2
  <2>2. \A s \in Session : truth[s].paid \in Nat /\ truth[s].saved \in Nat /\ truth[s].told \in BOOLEAN
    BY <1>1 DEF JournalTypes, TruthType
  <2>3. /\ report.at \in {"none", "events", "usage", "awaiting", "ready"}
        /\ report.todo \subseteq Session /\ report.priced \subseteq Key
        /\ report.price \in [Key -> Nat] /\ usage \in [Key -> Nat]
    BY <1>1 DEF JournalTypes, ReportType, Prices
  <2>4. /\ purge.at \in {"none", "sessions", "rows", "events", "done"}
        /\ purge.sessions \subseteq Session /\ purge.keys \cup purge.all \subseteq Key
    BY <1>1 DEF JournalTypes, PurgeType
  <2> QED BY <1>1, <2>1, <2>2, <2>3, <2>4 DEF JournalTypes, JournalTypeOK
<1> QED BY <1>2, <1>3, <1>4 DEF JournalIsHonest

\* Journal, report and purge keep their shape, and no event is counted more often than
\* calls were made.
THEOREM JournalHasItsTypes == JournalSpec => []JournalTypeOK
BY JournalAlways, InvIsHonest, PTL

\* For any sessions, keys and usages: as long as the journal could be written, nothing
\* was purged, and no key of the session was recorded anew with another usage before the
\* report priced it, a report over a session or a tag says what its calls paid and saved,
\* whatever is called beside it (build_session_report); and a hard purge that no call
\* came into leaves nothing of its keys.
THEOREM JournalTellsTheTruth == JournalSpec => []JournalIsHonest
BY JournalAlways, InvIsHonest, PTL
=============================================================================
