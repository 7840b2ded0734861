---------------------- MODULE RecordReplayStore_proofs ----------------------
(***************************************************************************)
(* Proofs about what RecordReplay keeps in its two stores when every wait  *)
(* for a key lock ends by getting it, nobody repairs and no call keeps its *)
(* input: what can be served is complete, a hit is whole or empty, and no  *)
(* blob is forgotten.                                                      *)
(* At the end, without those settings: no row stays IN_PROGRESS after its  *)
(* call, but for one whose process aborts while it runs the client.        *)
(*                                                                         *)
(* The argument: WholeInv is inductive.  Stands says what a process can    *)
(* say of the documents and blobs it works on; Keeps says what one step    *)
(* leaves to the other processes: a row that is neither servable nor being *)
(* recorded stays unservable (nobody revives it), so its blobs may go.     *)
(***************************************************************************)
EXTENDS RecordReplayLock_proofs

Docs(i)      == {a.doc : a \in ArtifactsOf(i)}
BlobsOf(S)   == {BlobOf(a) : a \in S}
AllStored(i) == \A a \in ArtifactsOf(i) : a.status = "STORED"
BytesKept(i) == \A a \in ArtifactsOf(i) : a.status = "STORED" => BlobOf(a) \in blobs
AllOrNothing(D) == D \cap Output \in {{}, Output}

\* No call keeps its input, so nothing is back-filled and a row owns its blobs.
CacheState(s) ==
  /\ ~s.dataset /\ ~s.filling
  /\ s.pc \notin {"fillAcquire", "fillRead", "fillAdd"}
OwnBlobs == \A a \in artifacts : a.owner = a.exec

Whole(i) == Output \subseteq Docs(i) /\ AllStored(i) /\ BytesKept(i)
ServableWhole == \A i \in Id : Servable(i) => Whole(i)

\* What a recorder has done so far, document by document.
RecorderStands(s) ==
  /\ IsRecording(s) => BytesKept(s.row)
  /\ s.pc = "insert" => 1 .. (s.doc - 1) \subseteq Docs(s.row)
  /\ s.pc \in {"put", "mark"} => 1 .. s.doc \subseteq Docs(s.row)
  /\ s.pc = "mark" => BlobKey(s.row, s.doc) \in blobs
  /\ s.pc \in {"finalize", "promote"} => Output \subseteq Docs(s.row)
  /\ s.pc = "promote" => AllStored(s.row)

\* What a reader has read of its row, and why it may quarantine it.
ReaderStands(s) ==
  /\ s.pc = "load" => AllOrNothing(Docs(s.row))
  /\ s.pc \in {"hydrate", "hit"} => AllOrNothing({a.doc : a \in s.seen})
  /\ s.pc = "hydrate" => /\ \A a \in s.seen : a.owner = s.row
                         /\ BlobsOf(ArtifactsOf(s.row)) \subseteq BlobsOf(s.seen)
                         /\ Servable(s.row) => BlobsOf(s.seen) \subseteq blobs
  /\ s.pc = "heal" => /\ ~Servable(s.row)
                      /\ \A b \in s.drop : b[1] = s.row
                      /\ BlobsOf(ArtifactsOf(s.row)) \cap blobs \subseteq s.drop

\* Whose blobs a purge removes, and that it removes them all.
PurgerStands(s) ==
  /\ s.pc \in {"purgeRows", "purgeBlobs"} =>
       \A b \in s.drop : /\ b[1] \in Id /\ b[1] < nextId
                         /\ Exists(b[1]) => execs[b[1]].key = s.victim
  /\ s.pc = "purgeRows" => \A i \in RowsOf(s.victim) : BlobsOf(ArtifactsOf(i)) \subseteq s.drop
  /\ s.pc = "purgeBlobs" => \A b \in s.drop : ~Servable(b[1])

Stands(s) == RecorderStands(s) /\ ReaderStands(s) /\ PurgerStands(s)

\* The inductive invariant behind ServableIsComplete, NoUntrackedBlob and
\* HitAllOrNothing.
WholeInv ==
  /\ OwnBlobs /\ ServableWhole /\ NoUntrackedBlob
  /\ \A p \in Proc : CacheState(proc[p]) /\ Stands(proc[p])

-----------------------------------------------------------------------------
(* One step of p, as the others see it.                                    *)

\* The row p is recording.
Own(p, i) == Recording(p) /\ i = proc[p].row

Keeps(p) ==
  /\ nextId' \in Nat /\ nextId <= nextId'
  /\ \A i \in Id : execs'[i].state # "ABSENT" =>
       IF i < nextId THEN Exists(i) /\ execs'[i].key = execs[i].key
       ELSE execs'[i].key \in held[p]
  /\ \A i \in Id : ~Own(p, i) =>
       /\ execs'[i].state = "SUCCESS" /\ execs'[i].persisted /\ ~execs'[i].superseded => Servable(i)
       /\ ArtifactsOf(i)' \in {ArtifactsOf(i), {}}
       /\ Servable(i)' \/ (\E q \in Proc \ {p} : Own(q, i)) => ArtifactsOf(i)' = ArtifactsOf(i)
  /\ \A b \in Blob : b \in blobs' /\ b \notin blobs => Own(p, b[1])
  /\ \A b \in Blob : b \in blobs /\ b \notin blobs' =>
       ~Servable(b[1])' /\ \A q \in Proc \ {p} : ~Own(q, b[1])

\* The blob of an artifact belongs to the execution that owns it.
LEMMA BlobOwner ==
  ASSUME IInv
  PROVE  /\ \A a : BlobOf(a)[1] = a.owner
         /\ \A i, d : BlobKey(i, d)[1] = i
         /\ \A a \in artifacts : BlobOf(a) \in Blob /\ a.exec \in Id /\ a.doc \in Doc
         /\ \A b \in Blob : b[1] \in Id
         /\ blobs \subseteq Blob
<1>1. \A a : BlobOf(a)[1] = a.owner BY DEF BlobOf, BlobKey
<1>2. \A i, d : BlobKey(i, d)[1] = i BY DEF BlobKey
<1>3. \A a \in artifacts : BlobOf(a) \in Blob /\ a.exec \in Id /\ a.doc \in Doc
  <2>1. artifacts \in SUBSET Artifact BY DEF IInv, TypeOK, StoreTypeOK
  <2> QED BY <2>1, BlobsOfArtifacts DEF Artifact
<1>4. \A b \in Blob : b[1] \in Id BY DEF Blob
<1> QED BY <1>1, <1>2, <1>3, <1>4 DEF IInv, TypeOK, StoreTypeOK

\* Two processes record, read and purge apart from each other.
LEMMA Apart ==
  ASSUME IInv, LockInv, NEW p \in Proc, NEW q \in Proc \ {p}
  PROVE  /\ Recording(q) => proc[q].row \in Id /\ proc[q].row < nextId /\ ~Own(p, proc[q].row)
         /\ Reading(q) => proc[q].row \in Id /\ proc[q].row < nextId /\ ~Own(p, proc[q].row)
         /\ \A i \in Id : Own(p, i) => Exists(i) /\ execs[i].key \in held[p]
         /\ held[p] \cap held[q] = {}
         /\ Purging(q) => proc[q].victim \in held[q]
<1>1. Recording(q) => proc[q].row \in Id /\ proc[q].row < nextId /\ ~Own(p, proc[q].row)
  BY RecordersApart DEF Own, LockInv, RecorderOwnsRow
<1>2. Reading(q) => proc[q].row \in Id /\ proc[q].row < nextId /\ ~Own(p, proc[q].row)
  BY DEF Own, LockInv, ReaderAvoidsRecorders
<1>3. ASSUME Recording(p) PROVE Exists(proc[p].row) /\ execs[proc[p].row].key \in held[p]
  BY <1>3 DEF LockInv, RecorderOwnsRow, LocksGuard
<1>4. held[p] \cap held[q] = {} /\ (Purging(q) => proc[q].victim \in held[q])
  BY DEF LockInv, LocksGuard
<1> QED BY <1>1, <1>2, <1>3, <1>4 DEF Own

\* A recorder keeps what it has stored.
LEMMA RecorderKept ==
  ASSUME IInv, LockInv, WholeInv, NEW p \in Proc, Keeps(p), NEW q \in Proc \ {p},
         NEW s, s = proc[q]
  PROVE  RecorderStands(s)'
<1> DEFINE i == s.row
<1>1. CASE ~IsRecording(s)
  <2>1. s.pc \notin {"insert", "put", "mark", "finalize", "promote"}
    BY <1>1 DEF IsRecording, WholeInv, CacheState
  <2> QED BY <1>1, <2>1 DEF RecorderStands
<1>2. CASE IsRecording(s)
  <2>1. Recording(q) /\ Own(q, i) BY <1>2, StatesNamed DEF Own
  <2>2. i \in Id /\ ~Own(p, i) BY <2>1, Apart
  <2>3. ArtifactsOf(i)' = ArtifactsOf(i) BY <2>1, <2>2 DEF Keeps
  <2>4. RecorderStands(s) BY DEF WholeInv, Stands
  <2>5. \A b \in Blob : b \in blobs /\ b[1] = i => b \in blobs' BY <2>1 DEF Keeps
  <2>6. \A a \in ArtifactsOf(i) : BlobOf(a) \in blobs => BlobOf(a) \in blobs'
    BY <2>5, BlobOwner DEF ArtifactsOf, WholeInv, OwnBlobs
  <2>7. BlobKey(i, s.doc) \in blobs => BlobKey(i, s.doc) \in blobs'
    BY <2>5, BlobOwner
  <2>8. Docs(i)' = Docs(i) BY <2>3 DEF Docs
  <2>9. (AllStored(i))' = AllStored(i) BY <2>3 DEF AllStored
  <2>10. BytesKept(i) => BytesKept(i)' BY <2>3, <2>6 DEF BytesKept, BlobOf, BlobKey
  <2>11. (BlobKey(i, s.doc) \in blobs)' = (BlobKey(i, s.doc) \in blobs') BY DEF BlobKey
  <2> HIDE DEF i
  <2> QED BY <2>4, <2>7, <2>8, <2>9, <2>10, <2>11 DEF RecorderStands, i
<1> QED BY <1>1, <1>2

\* A reader keeps what it has read, and its reason for a quarantine.
LEMMA ReaderKept ==
  ASSUME IInv, LockInv, WholeInv, NEW p \in Proc, Keeps(p), NEW q \in Proc \ {p},
         NEW s, s = proc[q]
  PROVE  ReaderStands(s)'
<1> DEFINE i == s.row
<1>1. CASE ~IsReading(s) BY <1>1 DEF IsReading, ReaderStands
<1>2. CASE IsReading(s)
  <2>1. i \in Id /\ i < nextId /\ ~Own(p, i) BY <1>2, StatesNamed, Apart
  <2>2. ReaderStands(s) BY DEF WholeInv, Stands
  <2>3. ArtifactsOf(i)' \in {ArtifactsOf(i), {}} BY <2>1 DEF Keeps
  <2>4. Servable(i)' => Servable(i) BY <2>1 DEF Keeps, Servable
  <2>5. \A b \in Blob : b[1] = i /\ b \in blobs' => b \in blobs BY <2>1 DEF Keeps
  <2>6. \A b \in Blob : b[1] = i /\ b \in blobs /\ Servable(i)' => b \in blobs' BY DEF Keeps
  <2> HIDE DEF i
  <2>7. AllOrNothing(Docs(i)) => AllOrNothing(Docs(i))'
    BY <2>3 DEF Docs, AllOrNothing, Output
  <2>8. BlobsOf(ArtifactsOf(i))' \subseteq BlobsOf(ArtifactsOf(i))
    BY <2>3 DEF BlobsOf, BlobOf, BlobKey
  <2>9. BlobsOf(s.seen)' = BlobsOf(s.seen) BY DEF BlobsOf, BlobOf, BlobKey
  <2>10. \A b \in BlobsOf(ArtifactsOf(i)) : b \in Blob /\ b[1] = i
    BY BlobOwner DEF BlobsOf, ArtifactsOf, WholeInv, OwnBlobs
  <2>11. (\A a \in s.seen : a.owner = i) => \A b \in BlobsOf(s.seen) : b[1] = i
    BY BlobOwner DEF BlobsOf
  <2>12. s.pc = "load" => AllOrNothing(Docs(i))' BY <2>2, <2>7 DEF ReaderStands, i
  <2>13. s.pc \in {"hydrate", "hit"} => AllOrNothing({a.doc : a \in s.seen})'
    BY <2>2 DEF ReaderStands, AllOrNothing, Output
  <2>14. ASSUME s.pc = "hydrate"
         PROVE  /\ \A a \in s.seen : a.owner = i
                /\ BlobsOf(ArtifactsOf(i))' \subseteq BlobsOf(s.seen)'
                /\ Servable(i)' => BlobsOf(s.seen)' \subseteq blobs'
    <3>1. /\ \A a \in s.seen : a.owner = i
          /\ BlobsOf(ArtifactsOf(i)) \subseteq BlobsOf(s.seen)
          /\ Servable(i) => BlobsOf(s.seen) \subseteq blobs
      BY <2>2, <2>14 DEF ReaderStands, i
    <3>2. Servable(i)' => BlobsOf(s.seen) \subseteq blobs'
      BY <2>4, <2>6, <2>11, <3>1, BlobOwner
    <3> QED BY <2>8, <2>9, <3>1, <3>2
  <2>15. ASSUME s.pc = "heal"
         PROVE  /\ ~Servable(i)'
                /\ \A b \in s.drop : b[1] = i
                /\ BlobsOf(ArtifactsOf(i))' \cap blobs' \subseteq s.drop
    <3>1. /\ ~Servable(i)
          /\ \A b \in s.drop : b[1] = i
          /\ BlobsOf(ArtifactsOf(i)) \cap blobs \subseteq s.drop
      BY <2>2, <2>15 DEF ReaderStands, i
    <3> QED BY <2>4, <2>5, <2>8, <2>10, <3>1
  <2> QED BY <2>12, <2>13, <2>14, <2>15 DEF ReaderStands, i
<1> QED BY <1>1, <1>2

\* A purge keeps to the rows of its victim, and nobody adds to them.
LEMMA PurgerKept ==
  ASSUME IInv, LockInv, WholeInv, NEW p \in Proc, Keeps(p), NEW q \in Proc \ {p},
         NEW s, s = proc[q]
  PROVE  PurgerStands(s)'
<1>1. CASE ~IsPurging(s) BY <1>1 DEF IsPurging, PurgerStands
<1>2. CASE IsPurging(s)
  <2>1. s.victim \notin held[p] BY <1>2, StatesNamed, Apart
  <2>2. PurgerStands(s) BY DEF WholeInv, Stands
  <2>3. nextId \in Nat /\ nextId' \in Nat /\ nextId <= nextId' /\ \A i \in Id : i \in Nat
    BY StoreAssumption DEF Keeps, IInv, TypeOK, Id
  <2>4. \A i \in Id : Own(p, i) => Exists(i) /\ execs[i].key # s.victim BY <2>1, Apart
  <2>5. ASSUME s.pc \in {"purgeRows", "purgeBlobs"}, NEW b \in s.drop
        PROVE  /\ b[1] \in Id /\ b[1] < nextId' /\ ~Own(p, b[1])
               /\ Exists(b[1])' => execs'[b[1]].key = s.victim
    <3>1. /\ b[1] \in Id /\ b[1] < nextId
          /\ Exists(b[1]) => execs[b[1]].key = s.victim
      BY <2>2, <2>5 DEF PurgerStands
    <3>2. ~Own(p, b[1]) BY <2>4, <3>1
    <3> QED BY <2>3, <3>1, <3>2 DEF Keeps, Exists
  <2>6. ASSUME s.pc = "purgeRows", NEW i \in RowsOf(s.victim)'
        PROVE  BlobsOf(ArtifactsOf(i))' \subseteq s.drop
    <3>1. i \in Id /\ execs'[i].state # "ABSENT" /\ execs'[i].key = s.victim
      BY DEF RowsOf, Exists
    <3>2. i \in RowsOf(s.victim) /\ ~Own(p, i)
      BY <2>1, <2>4, <3>1 DEF Keeps, RowsOf
    <3>3. BlobsOf(ArtifactsOf(i)) \subseteq s.drop BY <2>2, <2>6, <3>2 DEF PurgerStands
    <3>4. ArtifactsOf(i)' \in {ArtifactsOf(i), {}} BY <3>1, <3>2 DEF Keeps
    <3> QED BY <3>3, <3>4 DEF BlobsOf, BlobOf, BlobKey
  <2>7. ASSUME s.pc = "purgeBlobs", NEW b \in s.drop PROVE ~Servable(b[1])'
    <3>1. ~Servable(b[1]) BY <2>2, <2>7 DEF PurgerStands
    <3>2. b[1] \in Id /\ ~Own(p, b[1]) BY <2>5, <2>7
    <3> QED BY <3>1, <3>2 DEF Keeps, Servable
  <2> QED BY <2>5, <2>6, <2>7 DEF PurgerStands, Exists
<1> QED BY <1>1, <1>2

\* A blob that was named, is new or was p's to remove is accounted for again.
LEMMA Tracked ==
  ASSUME IInv, NoUntrackedBlob, NEW p \in Proc, NEW s, proc' = [proc EXCEPT ![p] = s],
         leaked \subseteq leaked',
         \A b \in blobs' :
           b \in BlobsOf(artifacts) \/ b \notin blobs \/ (At(p, "purgeBlobs") /\ b \in proc[p].drop)
           => b \in BlobsOf(artifacts)' \/ b \in leaked' \/ (s.pc = "purgeBlobs" /\ b \in s.drop)
  PROVE  NoUntrackedBlob'
<1>1. proc'[p] = s /\ \A q \in Proc \ {p} : proc'[q] = proc[q] BY DEF IInv, TypeOK
<1>2. ASSUME NEW b \in blobs'
      PROVE  \/ b \in BlobsOf(artifacts)' \/ b \in leaked'
             \/ \E q \in Proc : proc'[q].pc = "purgeBlobs" /\ b \in proc'[q].drop
  <2>1. \/ b \in BlobsOf(artifacts) \/ b \notin blobs \/ b \in leaked
        \/ \E q \in Proc : At(q, "purgeBlobs") /\ b \in proc[q].drop
    BY DEF NoUntrackedBlob, BlobsOf
  <2>2. CASE b \in leaked BY <2>2
  <2>3. CASE \E q \in Proc \ {p} : At(q, "purgeBlobs") /\ b \in proc[q].drop
    BY <1>1, <2>3 DEF At
  <2>4. CASE b \in BlobsOf(artifacts) \/ b \notin blobs \/ (At(p, "purgeBlobs") /\ b \in proc[p].drop)
    BY <1>1, <2>4
  <2> QED BY <2>1, <2>2, <2>3, <2>4
<1> QED BY <1>2 DEF NoUntrackedBlob, BlobsOf, At

\* The step of one process.
LEMMA WholeStep ==
  ASSUME IInv, LockInv, WholeInv, NEW p \in Proc, NEW s, proc' = [proc EXCEPT ![p] = s],
         Keeps(p), CacheState(s), Stands(s)', OwnBlobs', NoUntrackedBlob',
         \A i \in Id : Own(p, i) /\ Servable(i)' => Whole(i)'
  PROVE  WholeInv'
<1>1. proc'[p] = s /\ \A q \in Proc \ {p} : proc'[q] = proc[q] BY DEF IInv, TypeOK
<1>2. ASSUME NEW q \in Proc PROVE CacheState(proc'[q]) /\ Stands(proc[q])'
  <2>1. PICK t : t = proc'[q] OBVIOUS
  <2>2. CASE q = p
    <3>1. t = s BY <1>1, <2>1, <2>2
    <3>2. Stands(t)' BY <3>1
    <3> QED BY <2>1, <3>1, <3>2
  <2>3. CASE q # p
    <3>1. t = proc[q] BY <1>1, <2>1, <2>3
    <3>2. Stands(t)' BY <2>3, <3>1, RecorderKept, ReaderKept, PurgerKept DEF Stands
    <3>3. CacheState(t) BY <3>1 DEF WholeInv
    <3> QED BY <2>1, <3>2, <3>3
  <2> QED BY <2>2, <2>3
<1>3. ASSUME NEW i \in Id, Servable(i)', ~Own(p, i) PROVE Whole(i)'
  <2>1. Servable(i) BY <1>3 DEF Keeps, Servable
  <2>2. ArtifactsOf(i)' = ArtifactsOf(i) BY <1>3 DEF Keeps
  <2>3. Whole(i) BY <2>1 DEF WholeInv, ServableWhole
  <2>4. \A b \in Blob : b[1] = i /\ b \in blobs => b \in blobs' BY <1>3 DEF Keeps
  <2>5. \A a \in ArtifactsOf(i) : BlobOf(a) \in blobs => BlobOf(a) \in blobs'
    BY <2>4, BlobOwner DEF ArtifactsOf, WholeInv, OwnBlobs
  <2>6. BytesKept(i)' BY <2>2, <2>3, <2>5 DEF Whole, BytesKept, BlobOf, BlobKey
  <2>7. AllStored(i)' BY <2>2, <2>3 DEF Whole, AllStored
  <2>8. Docs(i)' = Docs(i) BY <2>2 DEF Docs
  <2> QED BY <2>3, <2>6, <2>7, <2>8 DEF Whole, Output
<1>4. ServableWhole' BY <1>3 DEF ServableWhole
<1>5. (\A q \in Proc : CacheState(proc[q]) /\ Stands(proc[q]))'
  BY <1>2 DEF CacheState
<1> QED BY <1>4, <1>5 DEF WholeInv

\* Steps that leave the stores alone.
LEMMA QuietWhole ==
  ASSUME IInv, LockInv, WholeInv, NEW p \in Proc, NEW s, proc' = [proc EXCEPT ![p] = s],
         UNCHANGED <<storeVars, nextId>>, leaked \subseteq leaked', CacheState(s), Stands(s),
         At(p, "purgeBlobs") => proc[p].drop \subseteq leaked'
  PROVE  WholeInv'
<1>1. UNCHANGED <<execs, artifacts, identities, blobs>> BY DEF storeVars
<1>2. Keeps(p)
  <2>1. nextId \in Nat /\ \A i \in Id : i \in Nat BY StoreAssumption DEF IInv, TypeOK, Id
  <2>2. \A i \in Id : execs[i].state # "ABSENT" => i < nextId
    BY DEF IInv, UnfinishedIsBare, Exists
  <2>3. \A i \in Id : ArtifactsOf(i)' = ArtifactsOf(i) BY <1>1 DEF ArtifactsOf
  <2>4. \A i \in Id : execs'[i] = execs[i] BY <1>1
  <2> QED BY <1>1, <2>1, <2>2, <2>3, <2>4 DEF Keeps, Servable, Exists
<1>3. \A i \in Id : Own(p, i) => ~Servable(i)'
  BY <1>1 DEF Own, LockInv, RecorderOwnsRow, Servable
<1>4. OwnBlobs' BY <1>1 DEF WholeInv, OwnBlobs
<1>5. NoUntrackedBlob'
  <2>1. BlobsOf(artifacts)' = BlobsOf(artifacts) BY <1>1 DEF BlobsOf, BlobOf, BlobKey
  <2> QED BY <1>1, <2>1, Tracked DEF WholeInv
<1>6. Stands(s)'
  BY <1>1 DEF Stands, RecorderStands, ReaderStands, PurgerStands, Docs, BlobsOf, AllStored,
     BytesKept, ArtifactsOf, Servable, Exists, RowsOf, BlobOf, BlobKey
<1> QED BY <1>2, <1>3, <1>4, <1>5, <1>6, WholeStep

-----------------------------------------------------------------------------
(* Steps that leave the stores alone.                                      *)

\* Where a process relies on nothing in the stores.
ElsewherePC == {"idle", "find", "acquire", "save", "recorded", "purgeAcquire", "purgeRead"}

LEMMA ElsewhereStands ==
  ASSUME NEW s, s.pc \in ElsewherePC
  PROVE  Stands(s)
BY DEF ElsewherePC, Stands, RecorderStands, ReaderStands, PurgerStands, IsRecording

LEMMA IdleStands == CacheState(IdleProc) /\ IdleProc.pc \in ElsewherePC
BY DEF IdleProc, CacheState, ElsewherePC

\* What p can say before its step.
LEMMA StandingWhole ==
  ASSUME IInv, LockInv, WholeInv, NEW p \in Proc
  PROVE  /\ proc[p] \in ProcState /\ LocalInv(proc[p])
         /\ CacheState(proc[p])
         /\ RecorderStands(proc[p]) /\ ReaderStands(proc[p]) /\ PurgerStands(proc[p])
BY Standing DEF WholeInv, Stands

LEMMA FinishWhole ==
  ASSUME IInv, LockInv, WholeInv, NEW p \in Proc, Finish(p), UNCHANGED <<storeVars, nextId>>,
         leaked \subseteq leaked', At(p, "purgeBlobs") => proc[p].drop \subseteq leaked'
  PROVE  WholeInv'
<1>1. proc' = [proc EXCEPT ![p] = IdleProc] BY DEF Finish
<1>2. CacheState(IdleProc) /\ Stands(IdleProc) BY IdleStands, ElsewhereStands
<1> QED BY <1>1, <1>2, QuietWhole

\* Going on with the same call to a label that relies on nothing.
LEMMA ElsewhereWhole ==
  ASSUME IInv, LockInv, WholeInv, NEW p \in Proc, UNCHANGED <<storeVars, ctlVars>>,
         NEW s, proc' = [proc EXCEPT ![p] = s], s.pc \in ElsewherePC,
         s.dataset = proc[p].dataset, s.filling = proc[p].filling,
         At(p, "purgeBlobs") => proc[p].drop = {}
  PROVE  WholeInv'
<1>1. CacheState(s) BY StandingWhole DEF CacheState, ElsewherePC
<1>2. Stands(s) BY ElsewhereStands
<1> QED BY <1>1, <1>2, QuietWhole DEF ctlVars

LEMMA MissWhole ==
  ASSUME IInv, LockInv, WholeInv, NEW p \in Proc, Miss(p), UNCHANGED <<storeVars, ctlVars>>,
         ~At(p, "purgeBlobs")
  PROVE  WholeInv'
<1> USE StandingWhole
<1>1. CASE Finish(p) BY <1>1, FinishWhole DEF ctlVars
<1>2. CASE ~Finish(p)
  <2> DEFINE s == [proc[p] EXCEPT !.pc = IF proc[p].locked THEN "save" ELSE "acquire"]
  <2>1. proc' = [proc EXCEPT ![p] = s] BY <1>2 DEF Miss, Go, Become
  <2>2. /\ s.pc \in ElsewherePC /\ s.dataset = proc[p].dataset /\ s.filling = proc[p].filling
    BY DEF ProcState, ElsewherePC
  <2> HIDE DEF s
  <2> QED BY <2>1, <2>2, ElsewhereWhole
<1> QED BY <1>1, <1>2

\* A call that starts, takes the lock, or has recorded.
LEMMA CallElsewhere ==
  ASSUME IInv, LockInv, WholeInv, TRUE \notin Depths, NEW p \in Proc,
         \/ StartCall(p) \/ Acquire(p) \/ SaveFails(p) \/ RowGone(p) \/ AfterRecord(p)
  PROVE  WholeInv'
<1> USE StandingWhole DEF At
<1>1. CASE StartCall(p)
  <2>1. PICK k \in Key, m \in Modes, ds \in Depths :
          Become(p, [IdleProc EXCEPT !.pc = IF m = "REFRESH" THEN "acquire" ELSE "find",
                                     !.mode = m, !.key = k, !.dataset = ds])
    BY <1>1 DEF StartCall
  <2> DEFINE s == [IdleProc EXCEPT !.pc = IF m = "REFRESH" THEN "acquire" ELSE "find",
                                   !.mode = m, !.key = k, !.dataset = ds]
  <2>2. s.pc \in ElsewherePC /\ s.dataset = FALSE /\ s.filling = FALSE
    BY ReplayAssumption DEF IdleProc, ElsewherePC
  <2>3. proc' = [proc EXCEPT ![p] = s] BY <2>1 DEF Become
  <2> HIDE DEF s
  <2>4. CacheState(s) BY <2>2 DEF CacheState, ElsewherePC
  <2>5. proc[p].pc = "idle" /\ UNCHANGED <<storeVars, ctlVars>> BY <1>1 DEF StartCall
  <2> QED BY <2>2, <2>3, <2>4, <2>5, ElsewhereStands, QuietWhole DEF ctlVars
<1>2. CASE Acquire(p)
  <2> DEFINE s == [proc[p] EXCEPT !.pc = IF proc[p].mode = "CACHE" THEN "find" ELSE "save",
                                  !.locked = TRUE, !.row = 0, !.seen = {}]
  <2>1. proc' = [proc EXCEPT ![p] = s] /\ proc[p].pc = "acquire" BY <1>2 DEF Acquire, AcquireKey
  <2>2. /\ s.pc \in ElsewherePC /\ s.dataset = proc[p].dataset /\ s.filling = proc[p].filling
    BY DEF ProcState, ElsewherePC
  <2> HIDE DEF s
  <2> QED BY <1>2, <2>1, <2>2, ElsewhereWhole DEF Acquire
<1>3. CASE SaveFails(p) BY <1>3, FinishWhole DEF SaveFails, ctlVars
<1>4. CASE RowGone(p) BY <1>4, FinishWhole DEF RowGone, ctlVars
<1>5. CASE AfterRecord(p)
  <2>1. CASE Finish(p) BY <1>5, <2>1, FinishWhole DEF AfterRecord, ctlVars
  <2>2. CASE ~Finish(p)
    <3>1. PICK ks : Become(p, [proc[p] EXCEPT !.pc = "purgeAcquire", !.victims = ks])
      BY <1>5, <2>2 DEF AfterRecord
    <3> DEFINE s == [proc[p] EXCEPT !.pc = "purgeAcquire", !.victims = ks]
    <3>2. /\ s.pc \in ElsewherePC /\ s.dataset = proc[p].dataset /\ s.filling = proc[p].filling
      BY DEF ProcState, ElsewherePC
    <3>3. proc' = [proc EXCEPT ![p] = s] BY <3>1 DEF Become
    <3> HIDE DEF s
    <3> QED BY <1>5, <3>2, <3>3, ElsewhereWhole DEF AfterRecord
  <2> QED BY <2>1, <2>2
<1> QED BY <1>1, <1>2, <1>3, <1>4, <1>5

\* A call that looks for an answer, and reads it.
LEMMA CallReads ==
  ASSUME IInv, LockInv, WholeInv, NEW p \in Proc,
         FindCurrent(p) \/ LoadExecution(p) \/ Hydrate(p) \/ ServeHit(p)
  PROVE  WholeInv'
<1> USE StandingWhole DEF At
<1>1. CASE FindCurrent(p)
  <2>1. CASE Miss(p) BY <1>1, <2>1, MissWhole DEF FindCurrent
  <2>2. CASE ~Miss(p)
    <3>1. PICK i \in Id : i \in CurrentOf(proc[p].key)
                          /\ Become(p, [proc[p] EXCEPT !.pc = "load", !.row = i])
      BY <1>1, <2>2 DEF FindCurrent, IsNewest
    <3> DEFINE s == [proc[p] EXCEPT !.pc = "load", !.row = i]
    <3>2. /\ s.pc = "load" /\ s.row = i /\ s.dataset = proc[p].dataset
          /\ s.filling = proc[p].filling
      BY DEF ProcState
    <3>3. proc' = [proc EXCEPT ![p] = s] BY <3>1 DEF Become
    <3> HIDE DEF s
    <3>4. Whole(i) BY <3>1 DEF CurrentOf, WholeInv, ServableWhole
    <3>5. Stands(s)
      BY <3>2, <3>4 DEF Stands, RecorderStands, ReaderStands, PurgerStands, IsRecording, Whole,
         AllOrNothing
    <3>6. CacheState(s) BY <3>2 DEF CacheState
    <3> QED BY <1>1, <3>3, <3>5, <3>6, QuietWhole DEF FindCurrent, ctlVars
  <2> QED BY <2>1, <2>2
<1>2. CASE LoadExecution(p)
  <2>1. CASE Miss(p) /\ proc[p].key \notin identities
    BY <1>2, <2>1, MissWhole DEF LoadExecution
  <2>2. CASE proc[p].key \in identities
    <3> DEFINE s == [proc[p] EXCEPT !.pc = "hydrate", !.seen = ArtifactsOf(proc[p].row)]
    <3>1. Become(p, s) /\ proc[p].pc = "load" BY <1>2, <2>2 DEF LoadExecution
    <3>2. /\ s.pc = "hydrate" /\ s.row = proc[p].row /\ s.seen = ArtifactsOf(proc[p].row)
          /\ s.dataset = proc[p].dataset /\ s.filling = proc[p].filling
      BY DEF ProcState
    <3>3. proc' = [proc EXCEPT ![p] = s] BY <3>1 DEF Become
    <3> HIDE DEF s
    <3>4. proc[p].row \in Id BY <3>1 DEF LockInv, ReaderAvoidsRecorders, Reading
    <3>5. Servable(s.row) => BlobsOf(s.seen) \subseteq blobs
      BY <3>2, <3>4 DEF WholeInv, ServableWhole, Whole, AllStored, BytesKept, BlobsOf
    <3>6. \A a \in s.seen : a.owner = s.row BY <3>2 DEF ArtifactsOf, WholeInv, OwnBlobs
    <3>7. AllOrNothing({a.doc : a \in s.seen}) BY <3>1, <3>2 DEF ReaderStands, Docs
    <3>8. Stands(s)
      BY <3>2, <3>5, <3>6, <3>7 DEF Stands, RecorderStands, ReaderStands, PurgerStands, IsRecording
    <3>9. CacheState(s) BY <3>2 DEF CacheState
    <3> QED BY <1>2, <3>1, <3>3, <3>8, <3>9, QuietWhole DEF LoadExecution, ctlVars
  <2> QED BY <1>2, <2>1, <2>2 DEF LoadExecution
<1>3. CASE Hydrate(p)
  <2>1. CASE Finish(p) BY <1>3, <2>1, FinishWhole DEF Hydrate, ctlVars
  <2>2. CASE SeenBlobs(p) \subseteq blobs
    <3> DEFINE s == [proc[p] EXCEPT !.pc = "hit"]
    <3>1. Become(p, s) /\ proc[p].pc = "hydrate" BY <1>3, <2>2 DEF Hydrate, Go
    <3>2. /\ s.pc = "hit" /\ s.seen = proc[p].seen
          /\ s.dataset = proc[p].dataset /\ s.filling = proc[p].filling
      BY DEF ProcState
    <3>3. proc' = [proc EXCEPT ![p] = s] BY <3>1 DEF Become
    <3> HIDE DEF s
    <3>4. Stands(s)
      BY <3>1, <3>2 DEF Stands, RecorderStands, ReaderStands, PurgerStands, IsRecording
    <3>5. CacheState(s) BY <3>2 DEF CacheState
    <3> QED BY <1>3, <3>1, <3>3, <3>4, <3>5, QuietWhole DEF Hydrate, ctlVars
  <2>3. CASE ~(SeenBlobs(p) \subseteq blobs) /\ ~Finish(p)
    <3> DEFINE s == [proc[p] EXCEPT !.pc = "heal", !.drop = SeenBlobs(p), !.seen = {}]
    <3>1. Become(p, s) /\ proc[p].pc = "hydrate" BY <1>3, <2>3 DEF Hydrate, Go
    <3>2. /\ s.pc = "heal" /\ s.row = proc[p].row /\ s.drop = BlobsOf(proc[p].seen)
          /\ s.dataset = proc[p].dataset /\ s.filling = proc[p].filling
      BY DEF ProcState, SeenBlobs, BlobsOf
    <3>3. proc' = [proc EXCEPT ![p] = s] BY <3>1 DEF Become
    <3> HIDE DEF s
    <3>4. ~Servable(s.row) BY <2>3, <3>1, <3>2 DEF ReaderStands, SeenBlobs, BlobsOf
    <3>5. \A b \in s.drop : b[1] = s.row BY <3>1, <3>2, BlobOwner DEF ReaderStands, BlobsOf
    <3>6. BlobsOf(ArtifactsOf(s.row)) \subseteq s.drop BY <3>1, <3>2 DEF ReaderStands
    <3>7. Stands(s)
      BY <3>2, <3>4, <3>5, <3>6 DEF Stands, RecorderStands, ReaderStands, PurgerStands, IsRecording
    <3>8. CacheState(s) BY <3>2 DEF CacheState
    <3> QED BY <1>3, <3>1, <3>3, <3>7, <3>8, QuietWhole DEF Hydrate, ctlVars
  <2> QED BY <2>1, <2>2, <2>3
<1>4. CASE ServeHit(p)
  <2>1. Finish(p) BY <1>4 DEF ServeHit, CacheState
  <2> QED BY <1>4, <2>1, FinishWhole DEF ServeHit, ctlVars
<1> QED BY <1>1, <1>2, <1>3, <1>4

\* Where a recorder goes after a document.
LEMMA NextDocumentState ==
  ASSUME IInv, LockInv, WholeInv, NEW p \in Proc, proc[p].pc \in {"put", "mark"},
         NEW ok \in BOOLEAN, NextDocument(p, ok)
  PROVE  /\ UNCHANGED held
         /\ proc[p].doc \in Nat
         /\ \E s : /\ proc' = [proc EXCEPT ![p] = s]
                   /\ CacheState(s) /\ s.row = proc[p].row
                   /\ \/ s.pc = "insert" /\ s.doc = proc[p].doc + 1
                      \/ s.pc = "finalize" /\ Output \subseteq 1 .. proc[p].doc
<1> USE StandingWhole
<1>1. ~proc[p].filling /\ ~proc[p].dataset BY DEF CacheState
<1>2. LastDoc(p) = NumOutputs BY <1>1 DEF LastDoc
<1>3. proc[p].doc \in Nat /\ NumOutputs \in Nat
  BY StoreAssumption DEF LocalInv, Doc, InputDoc
<1>4. CASE proc[p].doc < NumOutputs
  <2> DEFINE s == [proc[p] EXCEPT !.pc = "insert", !.doc = proc[p].doc + 1, !.ok = ok]
  <2>1. Become(p, s) BY <1>1, <1>2, <1>4 DEF NextDocument
  <2>2. /\ s.pc = "insert" /\ s.doc = proc[p].doc + 1 /\ s.row = proc[p].row
        /\ s.dataset = proc[p].dataset /\ s.filling = proc[p].filling
    BY DEF ProcState
  <2> HIDE DEF s
  <2>3. CacheState(s) BY <1>1, <2>2 DEF CacheState
  <2> QED BY <1>3, <2>1, <2>2, <2>3 DEF Become
<1>5. CASE ~(proc[p].doc < NumOutputs)
  <2> DEFINE s == [proc[p] EXCEPT !.pc = "finalize", !.ok = ok]
  <2>1. Become(p, s) BY <1>1, <1>2, <1>5 DEF NextDocument
  <2>2. /\ s.pc = "finalize" /\ s.row = proc[p].row
        /\ s.dataset = proc[p].dataset /\ s.filling = proc[p].filling
    BY DEF ProcState
  <2> HIDE DEF s
  <2>3. CacheState(s) BY <1>1, <2>2 DEF CacheState
  <2>4. Output \subseteq 1 .. proc[p].doc BY <1>3, <1>5 DEF Output
  <2> QED BY <1>3, <2>1, <2>2, <2>3, <2>4 DEF Become
<1> QED BY <1>4, <1>5

\* A recorder whose document stays PENDING, and one that is done with them.
LEMMA RecorderDecides ==
  ASSUME IInv, LockInv, WholeInv, NEW p \in Proc, MarkFails(p) \/ FinalizeRun(p)
  PROVE  WholeInv'
<1> USE StandingWhole DEF At
<1>1. CASE MarkFails(p)
  <2>1. /\ proc[p].pc = "mark" /\ NextDocument(p, FALSE)
        /\ UNCHANGED <<storeVars, nextId, leaked>>
    BY <1>1 DEF MarkFails
  <2>2. PICK s : /\ proc' = [proc EXCEPT ![p] = s]
                 /\ CacheState(s) /\ s.row = proc[p].row
                 /\ \/ s.pc = "insert" /\ s.doc = proc[p].doc + 1
                    \/ s.pc = "finalize" /\ Output \subseteq 1 .. proc[p].doc
    BY <2>1, NextDocumentState
  <2>3. proc[p].doc \in Nat BY <2>1, NextDocumentState
  <2>4. 1 .. proc[p].doc \subseteq Docs(s.row) /\ BytesKept(s.row)
    BY <2>1, <2>2 DEF RecorderStands, IsRecording, CacheState
  <2>5. s.pc = "insert" => s.doc - 1 = proc[p].doc BY <2>2, <2>3
  <2>6. Stands(s)
    BY <2>2, <2>4, <2>5 DEF Stands, RecorderStands, ReaderStands, PurgerStands
  <2> QED BY <2>1, <2>2, <2>6, QuietWhole
<1>2. CASE FinalizeRun(p)
  <2>1. proc[p].pc = "finalize" /\ UNCHANGED <<storeVars, nextId, leaked>>
    BY <1>2 DEF FinalizeRun, ctlVars
  <2>2. CASE Finish(p) BY <2>1, <2>2, FinishWhole
  <2>3. CASE CanFinalize(proc[p].row) /\ ToPromote(p, "promote")
    <3> DEFINE s == [proc[p] EXCEPT !.pc = "promote", !.supersede = Supersedes(proc[p].row)]
    <3>1. proc' = [proc EXCEPT ![p] = s] BY <2>3 DEF ToPromote, Become
    <3>2. /\ s.pc = "promote" /\ s.row = proc[p].row
          /\ s.dataset = proc[p].dataset /\ s.filling = proc[p].filling
      BY DEF ProcState
    <3> HIDE DEF s
    <3>3. AllStored(s.row) BY <2>3, <3>2 DEF CanFinalize, AllStored
    <3>4. Output \subseteq Docs(s.row) /\ BytesKept(s.row)
      BY <2>1, <3>2 DEF RecorderStands, IsRecording, CacheState
    <3>5. Stands(s)
      BY <3>2, <3>3, <3>4 DEF Stands, RecorderStands, ReaderStands, PurgerStands
    <3>6. CacheState(s) BY <3>2 DEF CacheState
    <3> QED BY <2>1, <3>1, <3>5, <3>6, QuietWhole
  <2> QED BY <1>2, <2>2, <2>3 DEF FinalizeRun
<1> QED BY <1>1, <1>2

\* A purge that starts, takes a lock, reads what it will remove, goes on to
\* the next victim, or ends; and a process that dies.
LEMMA PurgeDecides ==
  ASSUME IInv, LockInv, WholeInv, NEW p \in Proc,
         StartPurge(p) \/ PurgeAcquire(p) \/ PurgeRead(p) \/ PurgeNext(p) \/ Abort(p)
  PROVE  WholeInv'
<1> USE StandingWhole DEF At
<1>1. CASE StartPurge(p)
  <2>1. PICK m, ks : Become(p, [IdleProc EXCEPT !.pc = "purgeAcquire", !.mode = m, !.victims = ks])
    BY <1>1 DEF StartPurge
  <2> DEFINE s == [IdleProc EXCEPT !.pc = "purgeAcquire", !.mode = m, !.victims = ks]
  <2>2. s.pc \in ElsewherePC /\ CacheState(s) BY DEF IdleProc, ElsewherePC, CacheState
  <2>3. proc' = [proc EXCEPT ![p] = s] BY <2>1 DEF Become
  <2> HIDE DEF s
  <2>4. proc[p].pc = "idle" /\ UNCHANGED <<storeVars, ctlVars>> BY <1>1 DEF StartPurge
  <2> QED BY <2>2, <2>3, <2>4, ElsewhereStands, QuietWhole DEF ctlVars
<1>2. CASE PurgeAcquire(p)
  <2>1. PICK k : AcquireKey(p, k, [proc[p] EXCEPT !.pc = "purgeRead", !.victim = k,
                                                  !.victims = proc[p].victims \ {k}])
    BY <1>2 DEF PurgeAcquire
  <2> DEFINE s == [proc[p] EXCEPT !.pc = "purgeRead", !.victim = k,
                                  !.victims = proc[p].victims \ {k}]
  <2>2. /\ s.pc \in ElsewherePC /\ s.dataset = proc[p].dataset /\ s.filling = proc[p].filling
    BY DEF ProcState, ElsewherePC
  <2>3. proc' = [proc EXCEPT ![p] = s] /\ proc[p].pc = "purgeAcquire"
    BY <1>2, <2>1 DEF AcquireKey, PurgeAcquire
  <2> HIDE DEF s
  <2> QED BY <1>2, <2>2, <2>3, ElsewhereWhole DEF PurgeAcquire
<1>3. CASE PurgeRead(p)
  <2> DEFINE D == {BlobOf(a) : a \in {x \in artifacts : x.exec \in RowsOf(proc[p].victim)}}
             s == [proc[p] EXCEPT !.pc = "purgeRows", !.drop = D]
  <2>1. /\ proc' = [proc EXCEPT ![p] = s] /\ proc[p].pc = "purgeRead"
        /\ UNCHANGED <<storeVars, nextId, leaked>>
    BY <1>3 DEF PurgeRead, Become, ctlVars
  <2>2. /\ s.pc = "purgeRows" /\ s.drop = D /\ s.victim = proc[p].victim
        /\ s.dataset = proc[p].dataset /\ s.filling = proc[p].filling
    BY DEF ProcState
  <2>3. ASSUME NEW b \in D
        PROVE  /\ b[1] \in Id /\ b[1] < nextId
               /\ execs[b[1]].key = proc[p].victim
    <3>1. PICK a \in artifacts : b = BlobOf(a) /\ a.exec \in RowsOf(proc[p].victim)
      OBVIOUS
    <3>2. b[1] = a.exec BY <3>1, BlobOwner DEF WholeInv, OwnBlobs
    <3> QED BY <3>1, <3>2 DEF RowsOf, IInv, UnfinishedIsBare
  <2>4. \A i \in RowsOf(proc[p].victim) : BlobsOf(ArtifactsOf(i)) \subseteq D
    BY DEF BlobsOf, ArtifactsOf
  <2> HIDE DEF D, s
  <2>5. Stands(s)
    BY <2>2, <2>3, <2>4 DEF Stands, RecorderStands, ReaderStands, PurgerStands, IsRecording
  <2>6. CacheState(s) BY <2>2 DEF CacheState
  <2> QED BY <2>1, <2>5, <2>6, QuietWhole
<1>4. CASE PurgeNext(p)
  <2>1. proc[p].drop = {} /\ UNCHANGED <<storeVars, ctlVars>> BY <1>4 DEF PurgeNext
  <2>2. CASE Finish(p) BY <2>1, <2>2, FinishWhole DEF ctlVars
  <2>3. CASE ~Finish(p)
    <3> DEFINE s == [proc[p] EXCEPT !.pc = "purgeAcquire", !.victim = NoKey]
    <3>1. proc' = [proc EXCEPT ![p] = s]
      BY <1>4, <2>3 DEF PurgeNext, IInv, TypeOK
    <3>2. /\ s.pc \in ElsewherePC /\ s.dataset = proc[p].dataset /\ s.filling = proc[p].filling
      BY DEF ProcState, ElsewherePC
    <3> HIDE DEF s
    <3> QED BY <2>1, <3>1, <3>2, ElsewhereWhole
  <2> QED BY <2>2, <2>3
<1>5. CASE Abort(p)
  <2>1. /\ UNCHANGED <<storeVars, nextId>> /\ leaked \subseteq leaked' /\ Finish(p)
        /\ At(p, "purgeBlobs") => proc[p].drop \subseteq leaked'
    BY <1>5 DEF Abort
  <2> QED BY <2>1, FinishWhole
<1> QED BY <1>1, <1>2, <1>3, <1>4, <1>5

-----------------------------------------------------------------------------
(* Steps that remove blobs or rows.                                        *)

\* A blob of a row that is neither servable nor being recorded may go.
LEMMA BlobGone ==
  ASSUME IInv, LockInv, WholeInv, NEW p \in Proc, NEW s, proc' = [proc EXCEPT ![p] = s],
         NEW b \in Blob, RemoveBlob(b), UNCHANGED ctlVars,
         ~Servable(b[1]), \A q \in Proc \ {p} : ~Own(q, b[1]),
         ~Recording(p), CacheState(s), Stands(s)',
         At(p, "purgeBlobs") => s.pc = "purgeBlobs" /\ proc[p].drop \ {b} \subseteq s.drop
  PROVE  WholeInv'
<1>1. UNCHANGED <<execs, artifacts, nextId, leaked>> /\ blobs' = blobs \ {b}
  BY DEF RemoveBlob, ctlVars
<1>2. Keeps(p)
  <2>1. nextId \in Nat /\ \A i \in Id : i \in Nat BY StoreAssumption DEF IInv, TypeOK, Id
  <2>2. \A i \in Id : execs[i].state # "ABSENT" => i < nextId
    BY DEF IInv, UnfinishedIsBare, Exists
  <2>3. \A i \in Id : ArtifactsOf(i)' = ArtifactsOf(i) BY <1>1 DEF ArtifactsOf
  <2>4. \A i \in Id : execs'[i] = execs[i] BY <1>1
  <2>5. b[1] \in Id BY BlobOwner
  <2> QED BY <1>1, <2>1, <2>2, <2>3, <2>4, <2>5 DEF Keeps, Servable, Exists
<1>3. \A i \in Id : ~Own(p, i) BY DEF Own
<1>4. OwnBlobs' BY <1>1 DEF WholeInv, OwnBlobs
<1>5. NoUntrackedBlob'
  <2>1. BlobsOf(artifacts)' = BlobsOf(artifacts) BY <1>1 DEF BlobsOf, BlobOf, BlobKey
  <2> QED BY <1>1, <2>1, Tracked DEF WholeInv
<1> QED BY <1>2, <1>3, <1>4, <1>5, WholeStep

LEMMA BlobsRemoved ==
  ASSUME IInv, LockInv, WholeInv, NEW p \in Proc, HealBlob(p) \/ PurgeBlob(p)
  PROVE  WholeInv'
<1> USE StandingWhole DEF At
<1>1. PICK b \in proc[p].drop : /\ RemoveBlob(b)
                                /\ Become(p, [proc[p] EXCEPT !.drop = proc[p].drop \ {b}])
  BY DEF HealBlob, PurgeBlob
<1>2. b \in Blob /\ b[1] \in Id BY BlobOwner DEF ProcState
<1>3. UNCHANGED <<execs, artifacts, nextId, ctlVars>> /\ blobs' = blobs \ {b}
  BY <1>1 DEF RemoveBlob, HealBlob, PurgeBlob, ctlVars
<1>4. PICK s : s = [proc[p] EXCEPT !.drop = proc[p].drop \ {b}] OBVIOUS
<1>5. /\ s.pc = proc[p].pc /\ s.row = proc[p].row /\ s.drop = proc[p].drop \ {b}
      /\ s.victim = proc[p].victim /\ s.dataset = proc[p].dataset
      /\ s.filling = proc[p].filling /\ proc' = [proc EXCEPT ![p] = s]
  BY <1>1, <1>4 DEF ProcState, Become
<1>6. CacheState(s) BY <1>5 DEF CacheState
<1>7. CASE HealBlob(p)
  <2>1. proc[p].pc = "heal" /\ Reading(p) /\ ~Recording(p)
    BY <1>7 DEF HealBlob, Reading, Recording
  <2>2. b[1] = proc[p].row /\ ~Servable(b[1]) BY <2>1 DEF ReaderStands
  <2>3. \A q \in Proc \ {p} : ~Own(q, b[1])
    BY <2>1, <2>2 DEF LockInv, ReaderAvoidsRecorders, Own
  <2>4. /\ ~Servable(s.row)'
        /\ \A c \in s.drop : c[1] = s.row
        /\ BlobsOf(ArtifactsOf(s.row))' \cap blobs' \subseteq s.drop
    <3>1. (BlobsOf(ArtifactsOf(s.row)))' = BlobsOf(ArtifactsOf(s.row))
      BY <1>3 DEF BlobsOf, BlobOf, BlobKey, ArtifactsOf
    <3>2. Servable(s.row)' = Servable(s.row) BY <1>3 DEF Servable
    <3> QED BY <1>3, <1>5, <2>1, <3>1, <3>2 DEF ReaderStands
  <2>5. Stands(s)'
    BY <1>5, <2>1, <2>4 DEF Stands, RecorderStands, ReaderStands, PurgerStands, IsRecording
  <2> QED BY <1>2, <1>1, <1>3, <1>5, <1>6, <2>1, <2>2, <2>3, <2>5, BlobGone
<1>8. CASE PurgeBlob(p)
  <2>1. proc[p].pc = "purgeBlobs" /\ Purging(p) /\ ~Recording(p)
    BY <1>8 DEF PurgeBlob, Purging, Recording
  <2>2. ~Servable(b[1]) /\ (Exists(b[1]) => execs[b[1]].key = proc[p].victim)
    BY <2>1 DEF PurgerStands
  <2>3. \A q \in Proc \ {p} : ~Own(q, b[1])
    <3> SUFFICES ASSUME NEW q \in Proc \ {p}, Own(q, b[1]) PROVE FALSE
      OBVIOUS
    <3>1. Exists(b[1]) /\ execs[b[1]].key \in held[q]
      BY <1>2 DEF Own, LockInv, RecorderOwnsRow, LocksGuard
    <3>2. proc[p].victim \in held[p] BY <2>1 DEF LockInv, LocksGuard
    <3> QED BY <2>2, <3>1, <3>2 DEF LockInv, LocksGuard
  <2>4. \A c \in s.drop : /\ c[1] \in Id /\ c[1] < nextId'
                          /\ Exists(c[1])' => execs'[c[1]].key = s.victim
                          /\ ~Servable(c[1])'
    BY <1>3, <1>5, <2>1 DEF PurgerStands, Exists, Servable
  <2>5. Stands(s)'
    BY <1>5, <2>1, <2>4 DEF Stands, RecorderStands, ReaderStands, PurgerStands, IsRecording, Exists
  <2> QED BY <1>2, <1>1, <1>3, <1>5, <1>6, <2>1, <2>2, <2>3, <2>5, BlobGone
<1> QED BY <1>7, <1>8

\* A row that no other process records may be removed.
LEMMA RemoveKeeps ==
  ASSUME IInv, LockInv, WholeInv, NEW p \in Proc, NEW i \in Id, RemoveExecution(i),
         UNCHANGED nextId, \A q \in Proc \ {p} : ~Own(q, i)
  PROVE  /\ Keeps(p) /\ OwnBlobs' /\ ~Servable(i)' /\ blobs' = blobs
         /\ \A j \in Id \ {i} : execs'[j] = execs[j]
         /\ \A a \in artifacts : a.exec # i => a \in artifacts'
<1> USE DEF IInv, TypeOK, StoreTypeOK
<1>1. nextId \in Nat /\ \A j \in Id : j \in Nat BY StoreAssumption DEF Id
<1>2. \A j \in Id : execs[j].state # "ABSENT" => j < nextId BY DEF UnfinishedIsBare, Exists
<1>3. CASE Exists(i)
  <2>1. /\ execs' = [execs EXCEPT ![i] = AbsentRow] /\ AbsentRow.state = "ABSENT"
        /\ artifacts' = artifacts \ ArtifactsOf(i) /\ blobs' = blobs
    BY <1>3 DEF RemoveExecution, AbsentRow
  <2>2. \A j \in Id \ {i} : execs'[j] = execs[j] BY <2>1
  <2>3. execs'[i].state = "ABSENT" /\ ~Servable(i)' BY <2>1 DEF Servable
  <2>4. ArtifactsOf(i)' = {} BY <2>1 DEF ArtifactsOf
  <2>5. \A j \in Id \ {i} : ArtifactsOf(j)' = ArtifactsOf(j) BY <2>1 DEF ArtifactsOf
  <2>6. OwnBlobs' BY <2>1 DEF WholeInv, OwnBlobs
  <2>7. Keeps(p) BY <1>1, <1>2, <2>1, <2>2, <2>3, <2>4, <2>5 DEF Keeps, Servable, Exists
  <2> QED BY <2>1, <2>2, <2>3, <2>6, <2>7 DEF ArtifactsOf
<1>4. CASE ~Exists(i)
  <2>1. UNCHANGED <<execs, artifacts, blobs>> BY <1>4 DEF RemoveExecution, storeVars
  <2>2. \A j \in Id : ArtifactsOf(j)' = ArtifactsOf(j) BY <2>1 DEF ArtifactsOf
  <2>3. ~Servable(i)' BY <1>4, <2>1 DEF Servable, Exists
  <2>4. OwnBlobs' BY <2>1 DEF WholeInv, OwnBlobs
  <2>5. Keeps(p) BY <1>1, <1>2, <2>1, <2>2 DEF Keeps, Servable, Exists
  <2> QED BY <2>1, <2>3, <2>4, <2>5
<1> QED BY <1>3, <1>4

\* A quarantine ends: its blobs are gone already.
LEMMA RowsHealed ==
  ASSUME IInv, LockInv, WholeInv, NEW p \in Proc, HealRows(p)
  PROVE  WholeInv'
<1> USE StandingWhole DEF At
<1>1. /\ proc[p].pc = "heal" /\ proc[p].drop = {} /\ RemoveExecution(proc[p].row)
      /\ Miss(p) /\ UNCHANGED <<nextId, leaked>>
  BY DEF HealRows, ctlVars
<1>2. /\ proc[p].row \in Id /\ \A q \in Proc \ {p} : ~Own(q, proc[p].row)
      /\ \A i \in Id : ~Own(p, i)
  BY <1>1 DEF LockInv, ReaderAvoidsRecorders, Reading, Recording, Own
<1>3. /\ Keeps(p) /\ OwnBlobs' /\ blobs' = blobs
      /\ \A a \in artifacts : a.exec # proc[p].row => a \in artifacts'
  BY <1>1, <1>2, RemoveKeeps
<1>4. PICK s : s.pc \in ElsewherePC /\ CacheState(s) /\ proc' = [proc EXCEPT ![p] = s]
  <2>1. CASE Finish(p) BY <2>1, IdleStands DEF Finish
  <2>2. CASE ~Finish(p)
    <3> DEFINE s == [proc[p] EXCEPT !.pc = IF proc[p].locked THEN "save" ELSE "acquire"]
    <3>1. proc' = [proc EXCEPT ![p] = s] BY <1>1, <2>2 DEF Miss, Go, Become
    <3>2. /\ s.pc \in {"save", "acquire"} /\ s.dataset = proc[p].dataset
          /\ s.filling = proc[p].filling
      BY DEF ProcState
    <3> HIDE DEF s
    <3> QED BY <3>1, <3>2 DEF CacheState, ElsewherePC
  <2> QED BY <2>1, <2>2
<1>5. NoUntrackedBlob'
  <2>1. ASSUME NEW b \in blobs, b \in BlobsOf(artifacts) PROVE b \in BlobsOf(artifacts)'
    <3>1. PICK a \in artifacts : b = BlobOf(a) BY <2>1 DEF BlobsOf
    <3>2. a.exec # proc[p].row BY <1>1, <2>1, <3>1 DEF ReaderStands, BlobsOf, ArtifactsOf
    <3>3. a \in artifacts' BY <1>3, <3>1, <3>2
    <3> QED BY <3>1, <3>3 DEF BlobsOf, BlobOf, BlobKey
  <2> QED BY <1>1, <1>3, <1>4, <2>1, Tracked DEF WholeInv
<1>6. Stands(s)'
  BY <1>4 DEF ElsewherePC, Stands, RecorderStands, ReaderStands, PurgerStands, IsRecording
<1> QED BY <1>2, <1>3, <1>4, <1>5, <1>6, WholeStep

\* A process that runs the client has a row without documents.
LEMMA ClientRow ==
  ASSUME IInv, LockInv, NEW p \in Proc, At(p, "client")
  PROVE  /\ Own(p, proc[p].row) /\ proc[p].row \in Id
         /\ \A q \in Proc \ {p} : ~Own(q, proc[p].row)
         /\ ArtifactsOf(proc[p].row) = {}
<1>1. Recording(p) BY DEF Recording, At, LockInv, LocksGuard
<1>2. proc[p].row \in Id /\ execs[proc[p].row].state = "IN_PROGRESS"
  BY <1>1 DEF LockInv, RecorderOwnsRow, Exists, IInv, ClientOwnsRow
<1>3. ArtifactsOf(proc[p].row) = {} BY <1>2 DEF ArtifactsOf, IInv, UnfinishedIsBare
<1>4. \A q \in Proc \ {p} : ~Own(q, proc[p].row) BY <1>1, RecordersApart DEF Own
<1> QED BY <1>1, <1>2, <1>3, <1>4 DEF Own

\* The outcome of the client is recorded, or the run is removed.
LEMMA ClientEnds ==
  ASSUME IInv, LockInv, WholeInv, NEW p \in Proc,
         ClientAnswers(p) \/ ClientFails(p) \/ ClientInterrupted(p)
  PROVE  WholeInv'
<1> USE StandingWhole DEF At
<1> PICK i : i = proc[p].row OBVIOUS
<1>1. At(p, "client") /\ UNCHANGED <<nextId, leaked>> /\ nextId \in Nat
  BY StoreAssumption DEF ClientAnswers, ClientFails, ClientInterrupted, ctlVars, IInv, TypeOK
<1>2. /\ Own(p, i) /\ i \in Id /\ ArtifactsOf(i) = {}
      /\ \A q \in Proc \ {p} : ~Own(q, i)
  BY <1>1, ClientRow
<1>3. ~execs[i].persisted /\ Exists(i) BY <1>2 DEF Own, LockInv, RecorderOwnsRow
<1>4. PICK s : /\ proc' = [proc EXCEPT ![p] = s] /\ CacheState(s)
               /\ \/ s.pc = "insert" /\ s.doc = 1 /\ s.row = i /\ ~ClientInterrupted(p)
                  \/ s.pc = "idle"
  <2>1. CASE Finish(p)
    <3>1. IdleProc.pc = "idle" BY DEF IdleProc
    <3> QED BY <2>1, <3>1, IdleStands DEF Finish
  <2>2. CASE ~Finish(p)
    <3> DEFINE s == [proc[p] EXCEPT !.pc = "insert", !.doc = 1]
    <3>1. proc' = [proc EXCEPT ![p] = s] /\ ~ClientInterrupted(p)
      BY <2>2 DEF ClientAnswers, ClientFails, ClientInterrupted, Become
    <3>2. /\ s.pc = "insert" /\ s.doc = 1 /\ s.row = i /\ s.dataset = proc[p].dataset
          /\ s.filling = proc[p].filling
      BY DEF ProcState
    <3> HIDE DEF s
    <3> QED BY <3>1, <3>2 DEF CacheState
  <2> QED BY <2>1, <2>2
<1>5. CASE ClientInterrupted(p)
  <2>1. RemoveExecution(i) BY <1>5 DEF ClientInterrupted
  <2>2. /\ Keeps(p) /\ OwnBlobs' /\ ~Servable(i)' /\ blobs' = blobs
        /\ \A a \in artifacts : a.exec # i => a \in artifacts'
    BY <1>1, <1>2, <2>1, RemoveKeeps
  <2>3. artifacts \subseteq artifacts' BY <1>2, <2>2 DEF ArtifactsOf
  <2>4. BlobsOf(artifacts) \subseteq BlobsOf(artifacts)'
    BY <2>3 DEF BlobsOf, BlobOf, BlobKey
  <2>5. NoUntrackedBlob' BY <1>1, <1>4, <2>2, <2>4, Tracked DEF WholeInv
  <2>6. s.pc = "idle" BY <1>4, <1>5
  <2>7. Stands(s)'
    BY <2>6 DEF Stands, RecorderStands, ReaderStands, PurgerStands, IsRecording
  <2>8. \A j \in Id : Own(p, j) => j = i BY DEF Own
  <2> QED BY <1>4, <2>2, <2>5, <2>7, <2>8, WholeStep
<1>6. CASE ~ClientInterrupted(p)
  <2>1. PICK outcome \in {"SUCCESS", "FAILED"} : RecordOutcome(i, outcome)
    BY <1>6 DEF ClientAnswers, ClientFails
  <2>2. execs' = [execs EXCEPT ![i].state = outcome] /\ UNCHANGED <<artifacts, blobs>>
    BY <2>1 DEF RecordOutcome
  <2>3. \A j \in Id \ {i} : execs'[j] = execs[j] BY <2>2 DEF IInv, TypeOK, StoreTypeOK
  <2>4. /\ execs'[i].key = execs[i].key /\ execs'[i].persisted = execs[i].persisted
        /\ execs'[i].state # "ABSENT"
    BY <1>2, <2>2 DEF IInv, TypeOK, StoreTypeOK, Execution
  <2>5. \A j \in Id : ArtifactsOf(j)' = ArtifactsOf(j) BY <2>2 DEF ArtifactsOf
  <2>6. ~Servable(i)' BY <1>3, <2>4 DEF Servable
  <2>7. \A j \in Id : execs[j].state # "ABSENT" => j < nextId
    BY DEF IInv, UnfinishedIsBare, Exists
  <2>8. \A j \in Id : Own(p, j) <=> j = i BY <1>2 DEF Own
  <2>9. Keeps(p)
    <3>1. \A j \in Id : j \in Nat BY DEF Id
    <3> QED BY <1>1, <1>3, <2>2, <2>3, <2>4, <2>5, <2>7, <2>8, <3>1 DEF Keeps, Servable, Exists
  <2>10. OwnBlobs' BY <2>2 DEF WholeInv, OwnBlobs
  <2>11. NoUntrackedBlob'
    <3>1. BlobsOf(artifacts)' = BlobsOf(artifacts) BY <2>2 DEF BlobsOf, BlobOf, BlobKey
    <3> QED BY <1>1, <1>4, <2>2, <3>1, Tracked DEF WholeInv
  <2>12. Stands(s)'
    <3>1. s.row = i => BytesKept(s.row)' BY <1>2, <2>5 DEF BytesKept
    <3>2. s.doc = 1 => 1 .. (s.doc - 1) = {} OBVIOUS
    <3> QED BY <1>4, <3>1, <3>2
            DEF Stands, RecorderStands, ReaderStands, PurgerStands, IsRecording
  <2> QED BY <1>4, <2>6, <2>8, <2>9, <2>10, <2>11, <2>12, WholeStep
<1> QED BY <1>5, <1>6

\* A purge removes the rows of its victim, or what they keep.
LEMMA RowsPurged ==
  ASSUME IInv, LockInv, WholeInv, NEW p \in Proc, PurgeRows(p)
  PROVE  WholeInv'
<1> USE StandingWhole DEF At
<1> PICK k : k = proc[p].victim OBVIOUS
<1> PICK S : S = RowsOf(k) OBVIOUS
<1>1. /\ proc[p].pc = "purgeRows" /\ UNCHANGED <<nextId, leaked>> /\ nextId \in Nat
      /\ proc' = [proc EXCEPT ![p].pc = "purgeBlobs"]
  BY StoreAssumption DEF PurgeRows, ctlVars, IInv, TypeOK, Go, Become
<1>2. PICK s : s = [proc[p] EXCEPT !.pc = "purgeBlobs"] OBVIOUS
<1>3. /\ s.pc = "purgeBlobs" /\ s.drop = proc[p].drop /\ s.victim = k
      /\ s.dataset = proc[p].dataset /\ s.filling = proc[p].filling
      /\ proc' = [proc EXCEPT ![p] = s]
  BY <1>1, <1>2 DEF ProcState
<1>4. \A i \in S : i \in Id /\ Exists(i) /\ execs[i].key = k BY DEF RowsOf
<1>5. \A i \in Id : Exists(i) /\ execs[i].key = k => i \in S BY DEF RowsOf
<1>6. /\ artifacts' = {a \in artifacts : a.exec \notin S} /\ UNCHANGED blobs
      /\ \A i \in Id \ S : execs'[i] = execs[i]
      /\ \A i \in S : /\ execs'[i].state = "ABSENT" \/ ~execs'[i].persisted
                      /\ execs'[i].state # "ABSENT" => execs'[i].key = k
  <2>1. CASE HardDeleteExecution(k)
    <3>1. AbsentRow.state = "ABSENT" BY DEF AbsentRow
    <3> QED BY <1>4, <2>1, <3>1 DEF HardDeleteExecution
  <2>2. CASE SoftPurgeExecution(k)
    <3>1. \A i \in S : execs[i] \in Execution BY <1>4 DEF IInv, TypeOK, StoreTypeOK
    <3>2. \A i \in S : execs'[i] = [execs[i] EXCEPT !.persisted = FALSE]
      BY <1>4, <2>2 DEF SoftPurgeExecution
    <3>3. \A i \in S : ~execs'[i].persisted /\ execs'[i].key = k
      BY <1>4, <3>1, <3>2 DEF Execution
    <3>4. /\ artifacts' = {a \in artifacts : a.exec \notin S} /\ UNCHANGED blobs
          /\ \A i \in Id \ S : execs'[i] = execs[i]
      BY <2>2 DEF SoftPurgeExecution
    <3> QED BY <3>3, <3>4
  <2> QED BY <2>1, <2>2 DEF PurgeRows
<1>7. \A i \in S : ArtifactsOf(i)' = {} BY <1>6 DEF ArtifactsOf
<1>8. \A i \in Id \ S : ArtifactsOf(i)' = ArtifactsOf(i) BY <1>6 DEF ArtifactsOf
<1>9. \A i \in S : ~Servable(i)' BY <1>6 DEF Servable
<1>10. \A q \in Proc \ {p} : \A i \in S : ~Own(q, i)
  <2>1. k \in held[p] BY <1>1 DEF LockInv, LocksGuard, Purging
  <2> QED BY <1>4, <2>1 DEF Own, LockInv, RecorderOwnsRow, LocksGuard
<1>11. \A i \in Id : ~Own(p, i) BY <1>1 DEF Own, Recording
<1>12. \A j \in Id : execs[j].state # "ABSENT" => j < nextId
  BY DEF IInv, UnfinishedIsBare, Exists
<1>13. Keeps(p)
  <2>1. \A i \in Id : execs'[i].state # "ABSENT" =>
          i < nextId /\ Exists(i) /\ execs'[i].key = execs[i].key
    BY <1>4, <1>6, <1>12 DEF Exists
  <2>2. \A i \in Id :
          execs'[i].state = "SUCCESS" /\ execs'[i].persisted /\ ~execs'[i].superseded => Servable(i)
    BY <1>6 DEF Servable
  <2>3. \A i \in Id : /\ ArtifactsOf(i)' \in {ArtifactsOf(i), {}}
                      /\ Servable(i)' \/ (\E q \in Proc \ {p} : Own(q, i)) => i \notin S
    BY <1>7, <1>8, <1>9, <1>10
  <2> QED BY <1>1, <1>6, <1>8, <2>1, <2>2, <2>3 DEF Keeps
<1>14. OwnBlobs' BY <1>6 DEF WholeInv, OwnBlobs
<1>15. NoUntrackedBlob'
  <2>1. ASSUME NEW b \in BlobsOf(artifacts), b \notin s.drop PROVE b \in BlobsOf(artifacts)'
    <3>1. PICK a \in artifacts : b = BlobOf(a) BY DEF BlobsOf
    <3>2. a.exec \notin S
      BY <1>1, <1>3, <2>1, <3>1 DEF PurgerStands, BlobsOf, ArtifactsOf
    <3>3. a \in artifacts' BY <1>6, <3>1, <3>2
    <3> QED BY <3>1, <3>3 DEF BlobsOf, BlobOf, BlobKey
  <2> QED BY <1>1, <1>3, <1>6, <2>1, Tracked DEF WholeInv
<1>16. Stands(s)'
  <2>1. \A b \in s.drop : /\ b[1] \in Id /\ b[1] < nextId
                          /\ Exists(b[1]) => b[1] \in S
    BY <1>1, <1>3, <1>5 DEF PurgerStands
  <2>2. \A b \in s.drop : b[1] \notin S => execs'[b[1]].state = "ABSENT"
    BY <1>6, <2>1 DEF Exists
  <2>3. \A b \in s.drop : /\ b[1] \in Id /\ b[1] < nextId'
                          /\ Exists(b[1])' => execs'[b[1]].key = s.victim
                          /\ ~Servable(b[1])'
    BY <1>1, <1>3, <1>6, <1>9, <2>1, <2>2 DEF Exists, Servable
  <2> QED BY <1>3, <2>3
          DEF Stands, RecorderStands, ReaderStands, PurgerStands, IsRecording, Exists
<1>17. CacheState(s) BY <1>3 DEF CacheState
<1> QED BY <1>3, <1>11, <1>13, <1>14, <1>15, <1>16, <1>17, WholeStep

-----------------------------------------------------------------------------
(* Steps of a recorder that change the stores.                             *)

\* A new row has no documents.
LEMMA RowSaved ==
  ASSUME IInv, LockInv, WholeInv, NEW p \in Proc, SaveInProgress(p)
  PROVE  WholeInv'
<1> USE StandingWhole DEF At
<1> PICK n : n = nextId OBVIOUS
<1>1. /\ proc[p].pc = "save" /\ nextId' = n + 1 /\ n <= MaxRuns /\ UNCHANGED leaked
      /\ Save(n, proc[p].key)
  BY DEF SaveInProgress
<1>2. PICK s : s = [proc[p] EXCEPT !.pc = "client", !.row = n, !.seen = {}] OBVIOUS
<1>3. /\ s.pc = "client" /\ s.row = n /\ proc' = [proc EXCEPT ![p] = s]
      /\ s.dataset = proc[p].dataset /\ s.filling = proc[p].filling
  BY <1>1, <1>2 DEF ProcState, SaveInProgress, Become
<1>4. n \in Id /\ \A i \in Id : Exists(i) => i < n BY <1>1, FreshRow
<1>5. /\ UNCHANGED <<artifacts, blobs>>
      /\ execs'[n].state = "IN_PROGRESS" /\ execs'[n].key = proc[p].key
      /\ \A i \in Id \ {n} : execs'[i] = execs[i]
  BY <1>1, <1>4 DEF Save, IInv, TypeOK, StoreTypeOK
<1>6. n \in Nat /\ \A i \in Id : i \in Nat BY <1>4 DEF Id
<1>7. \A i \in Id : ArtifactsOf(i)' = ArtifactsOf(i) BY <1>5 DEF ArtifactsOf
<1>8. proc[p].key \in held[p] BY <1>1 DEF LockInv, LocksGuard
<1>9. \A i \in Id : ~Own(p, i) BY <1>1 DEF Own, Recording
<1>10. Keeps(p)
  BY <1>1, <1>4, <1>5, <1>6, <1>7, <1>8 DEF Keeps, Servable, Exists
<1>11. OwnBlobs' BY <1>5 DEF WholeInv, OwnBlobs
<1>12. NoUntrackedBlob'
  <2>1. BlobsOf(artifacts)' = BlobsOf(artifacts) BY <1>5 DEF BlobsOf, BlobOf, BlobKey
  <2> QED BY <1>1, <1>3, <1>5, <2>1, Tracked DEF WholeInv
<1>13. Stands(s)'
  <2>1. ArtifactsOf(n) = {} BY <1>4, <1>6 DEF ArtifactsOf, IInv, UnfinishedIsBare
  <2>2. BytesKept(s.row)' BY <1>3, <1>4, <1>7, <2>1 DEF BytesKept
  <2> QED BY <1>3, <2>2 DEF Stands, RecorderStands, ReaderStands, PurgerStands
<1>14. CacheState(s) BY <1>3 DEF CacheState
<1> QED BY <1>3, <1>9, <1>10, <1>11, <1>12, <1>13, <1>14, WholeStep

\* A run turns current with all its documents stored.
LEMMA RunPromoted ==
  ASSUME IInv, LockInv, WholeInv, NEW p \in Proc, PromoteRun(p)
  PROVE  WholeInv'
<1> USE StandingWhole DEF At
<1> PICK i : i = proc[p].row OBVIOUS
<1> PICK k : k = proc[p].supersede OBVIOUS
<1>1. /\ proc[p].pc = "promote" /\ UNCHANGED <<nextId, leaked>> /\ nextId \in Nat
      /\ Promote(i, k)
  BY StoreAssumption DEF PromoteRun, PromoteRow, ctlVars, IInv, TypeOK
<1>2. PICK s : s = [proc[p] EXCEPT !.pc = "recorded", !.supersede = NoKey] OBVIOUS
<1>3. /\ s.pc = "recorded" /\ proc' = [proc EXCEPT ![p] = s]
      /\ s.dataset = proc[p].dataset /\ s.filling = proc[p].filling
  BY <1>2 DEF ProcState, PromoteRun, PromoteRow, Become
<1>4. Own(p, i) /\ \A j \in Id : Own(p, j) <=> j = i
  BY <1>1 DEF Own, Recording, CacheState
<1>5. i \in Id /\ \A j \in Id : execs[j].state # "ABSENT" => j < nextId
  BY <1>4 DEF Own, LockInv, RecorderOwnsRow, IInv, UnfinishedIsBare, Exists
<1>6. UNCHANGED <<artifacts, blobs>> BY <1>1 DEF Promote
<1>7. \A j \in Id : ArtifactsOf(j)' = ArtifactsOf(j) BY <1>6 DEF ArtifactsOf
<1>8. ASSUME NEW j \in Id
      PROVE  /\ execs'[j].state = execs[j].state /\ execs'[j].key = execs[j].key
             /\ j # i => execs'[j].persisted = execs[j].persisted
             /\ execs[j].superseded => execs'[j].superseded
  <2>1. execs[j] \in Execution BY DEF IInv, TypeOK, StoreTypeOK
  <2> DEFINE sup == execs[j].superseded \/ SupersededBy(k, j)
             per == execs[j].persisted \/ (j = i /\ Exists(j))
  <2>2. execs'[j] = [execs[j] EXCEPT !.superseded = sup, !.persisted = per]
    BY <1>1 DEF Promote
  <2>3. j # i => per = execs[j].persisted BY <2>1 DEF Execution
  <2>4. execs[j].superseded => sup OBVIOUS
  <2> HIDE DEF sup, per
  <2> QED BY <2>1, <2>2, <2>3, <2>4 DEF Execution
<1>9. Keeps(p)
  BY <1>1, <1>4, <1>5, <1>6, <1>7, <1>8 DEF Keeps, Servable, Exists
<1>10. Whole(i)'
  <2>1. Whole(i) BY <1>1 DEF RecorderStands, IsRecording, Whole, CacheState
  <2>2. ArtifactsOf(i)' = ArtifactsOf(i) BY <1>5, <1>7
  <2>3. Docs(i)' = Docs(i) /\ (AllStored(i) => AllStored(i)')
    BY <2>2 DEF Docs, AllStored
  <2>4. BytesKept(i) => BytesKept(i)' BY <1>6, <2>2 DEF BytesKept, BlobOf, BlobKey
  <2> QED BY <2>1, <2>3, <2>4 DEF Whole, Output
<1>11. OwnBlobs' BY <1>6 DEF WholeInv, OwnBlobs
<1>12. NoUntrackedBlob'
  <2>1. BlobsOf(artifacts)' = BlobsOf(artifacts) BY <1>6 DEF BlobsOf, BlobOf, BlobKey
  <2> QED BY <1>1, <1>3, <1>6, <2>1, Tracked DEF WholeInv
<1>13. Stands(s)'
  BY <1>3 DEF Stands, RecorderStands, ReaderStands, PurgerStands, IsRecording
<1>14. CacheState(s) BY <1>3 DEF CacheState
<1> QED BY <1>3, <1>4, <1>9, <1>10, <1>11, <1>12, <1>13, <1>14, WholeStep

\* A recorder works on its own row's documents and blobs only.
LEMMA DocumentStep ==
  ASSUME IInv, LockInv, WholeInv, NEW p \in Proc, proc[p].pc \in {"insert", "put", "mark"},
         NEW i, i = proc[p].row, UNCHANGED <<execs, nextId, leaked>>,
         \A j \in Id \ {i} : ArtifactsOf(j)' = ArtifactsOf(j),
         blobs \subseteq blobs', \A b \in blobs' \ blobs : b[1] = i /\ b \in BlobsOf(artifacts),
         OwnBlobs', BlobsOf(artifacts) \subseteq BlobsOf(artifacts)',
         NEW s, proc' = [proc EXCEPT ![p] = s], CacheState(s), Stands(s)'
  PROVE  WholeInv'
<1> USE StandingWhole DEF At
<1>1. Own(p, i) /\ \A j \in Id : Own(p, j) <=> j = i
  BY DEF Own, Recording, CacheState
<1>2. /\ i \in Id /\ ~execs[i].persisted
      /\ \A j \in Id : execs[j].state # "ABSENT" => j < nextId
  BY <1>1 DEF Own, LockInv, RecorderOwnsRow, IInv, UnfinishedIsBare, Exists
<1>3. \A q \in Proc \ {p} : ~Own(q, i) BY <1>1, RecordersApart DEF Own
<1>4. ~Servable(i)' BY <1>2 DEF Servable
<1>5. nextId \in Nat BY StoreAssumption DEF IInv, TypeOK
<1>6. Keeps(p)
  BY <1>1, <1>2, <1>3, <1>4, <1>5 DEF Keeps, Servable, Exists
<1>7. NoUntrackedBlob' BY Tracked DEF WholeInv
<1> QED BY <1>1, <1>4, <1>6, <1>7, WholeStep

\* Marking documents moves no name and no blob.
LEMMA MarkedArtifacts ==
  ASSUME IInv, WholeInv, NEW i \in Id, NEW b, NEW st \in {"STORED", "FAILED"},
         MarkArtifacts(i, b, st), st = "STORED" => b \in blobs
  PROVE  /\ UNCHANGED <<execs, blobs>> /\ OwnBlobs'
         /\ \A j \in Id \ {i} : ArtifactsOf(j)' = ArtifactsOf(j)
         /\ Docs(i) \subseteq Docs(i)' /\ BlobsOf(artifacts) \subseteq BlobsOf(artifacts)'
         /\ BytesKept(i) => BytesKept(i)'
<1> DEFINE marked(a) == [a EXCEPT !.status = st]
<1>1. /\ UNCHANGED <<execs, blobs>>
      /\ artifacts' = (artifacts \ Matching(i, b)) \cup {marked(a) : a \in Matching(i, b)}
  BY DEF MarkArtifacts
<1>2. \A a \in Matching(i, b) : a \in artifacts /\ a.exec = i /\ BlobOf(a) = b
  BY DEF Matching, ArtifactsOf
<1>3. ASSUME NEW a \in Matching(i, b)
      PROVE  /\ marked(a).exec = i /\ marked(a).doc = a.doc /\ marked(a).owner = a.owner
             /\ marked(a).status = st /\ BlobOf(marked(a)) = BlobOf(a)
  <2>1. a \in Artifact BY <1>2 DEF IInv, TypeOK, StoreTypeOK
  <2>2. /\ marked(a).exec = a.exec /\ marked(a).doc = a.doc /\ marked(a).owner = a.owner
        /\ marked(a).status = st
    BY <2>1 DEF Artifact
  <2> QED BY <1>2, <2>2 DEF BlobOf
<1> HIDE DEF marked
<1>4. OwnBlobs' BY <1>1, <1>2, <1>3 DEF WholeInv, OwnBlobs
<1>5. \A j \in Id \ {i} : ArtifactsOf(j)' = ArtifactsOf(j) BY <1>1, <1>2, <1>3 DEF ArtifactsOf
<1>6. \A a \in artifacts : \E c \in artifacts' : c.exec = a.exec /\ c.doc = a.doc /\ c.owner = a.owner
  BY <1>1, <1>2, <1>3
<1>7. Docs(i) \subseteq Docs(i)' BY <1>6 DEF Docs, ArtifactsOf
<1>8. BlobsOf(artifacts) \subseteq BlobsOf(artifacts)'
  <2> SUFFICES ASSUME NEW a \in artifacts PROVE BlobOf(a) \in BlobsOf(artifacts)'
    BY DEF BlobsOf
  <2>1. PICK c \in artifacts' : c.doc = a.doc /\ c.owner = a.owner BY <1>6
  <2> QED BY <2>1 DEF BlobsOf, BlobOf, BlobKey
<1>9. ASSUME BytesKept(i) PROVE BytesKept(i)'
  <2> SUFFICES ASSUME NEW c \in artifacts', c.exec = i, c.status = "STORED"
               PROVE  BlobKey(c.owner, c.doc) \in blobs
    BY <1>1 DEF BytesKept, ArtifactsOf, BlobOf, BlobKey
  <2>1. CASE c \in artifacts BY <1>9, <2>1 DEF BytesKept, ArtifactsOf, BlobOf
  <2>2. CASE c \notin artifacts
    <3>1. PICK a \in Matching(i, b) : c = marked(a) BY <1>1, <2>2
    <3> QED BY <1>2, <1>3, <3>1 DEF BlobOf
  <2> QED BY <2>1, <2>2
<1> QED BY <1>1, <1>4, <1>5, <1>7, <1>8, <1>9

\* Storing one document: its row, its bytes, its status.
LEMMA DocumentStored ==
  ASSUME IInv, LockInv, WholeInv, NEW p \in Proc,
         InsertArtifact(p) \/ Put(p) \/ PutFails(p) \/ MarkStored(p)
  PROVE  WholeInv'
<1> USE StandingWhole DEF At
<1> PICK i : i = proc[p].row OBVIOUS
<1> PICK d : d = proc[p].doc OBVIOUS
<1>1. /\ proc[p].pc \in {"insert", "put", "mark"} /\ UNCHANGED <<nextId, leaked>>
      /\ d \in Nat /\ i \in Id
  <2>1. proc[p].pc \in {"insert", "put", "mark"} /\ UNCHANGED <<nextId, leaked>>
    BY DEF InsertArtifact, Put, PutFails, MarkStored, ctlVars
  <2>2. i \in Id /\ d \in Doc BY <2>1 DEF LocalInv, Settled
  <2>3. \A e \in Doc : e \in Nat BY DEF Doc
  <2> QED BY <2>1, <2>2, <2>3
<1>2. BytesKept(i) BY <1>1 DEF RecorderStands, IsRecording, CacheState
<1>3. CASE InsertArtifact(p)
  <2> DEFINE new == [exec |-> i, doc |-> d, owner |-> i, status |-> "PENDING"]
  <2>1. /\ artifacts' = artifacts \cup {new} /\ UNCHANGED <<execs, blobs>>
        /\ proc[p].pc = "insert" /\ proc' = [proc EXCEPT ![p].pc = "put"]
    BY <1>3 DEF InsertArtifact, PersistArtifact, Go, Become
  <2>2. PICK s : s = [proc[p] EXCEPT !.pc = "put"] OBVIOUS
  <2>3. /\ s.pc = "put" /\ s.row = i /\ s.doc = d /\ proc' = [proc EXCEPT ![p] = s]
        /\ s.dataset = proc[p].dataset /\ s.filling = proc[p].filling
    BY <2>1, <2>2 DEF ProcState
  <2>4. new.exec = i /\ new.doc = d /\ new.owner = i /\ new.status # "STORED" OBVIOUS
  <2> HIDE DEF new
  <2>5. \A j \in Id \ {i} : ArtifactsOf(j)' = ArtifactsOf(j) BY <2>1, <2>4 DEF ArtifactsOf
  <2>6. OwnBlobs' BY <2>1, <2>4 DEF WholeInv, OwnBlobs
  <2>7. BlobsOf(artifacts) \subseteq BlobsOf(artifacts)' BY <2>1 DEF BlobsOf, BlobOf, BlobKey
  <2>8. BytesKept(i)'
    BY <1>2, <2>1, <2>4 DEF BytesKept, ArtifactsOf, BlobOf, BlobKey
  <2>9. 1 .. d \subseteq Docs(i)'
    <3>1. 1 .. (d - 1) \subseteq Docs(i) BY <2>1 DEF RecorderStands
    <3>2. Docs(i) \subseteq Docs(i)' /\ d \in Docs(i)' BY <2>1, <2>4 DEF Docs, ArtifactsOf
    <3>3. \A e \in 1 .. d : e = d \/ e \in 1 .. (d - 1) BY <1>1
    <3> QED BY <3>1, <3>2, <3>3
  <2>10. Stands(s)'
    BY <2>3, <2>8, <2>9 DEF Stands, RecorderStands, ReaderStands, PurgerStands
  <2>11. CacheState(s) BY <2>3 DEF CacheState
  <2> QED BY <1>1, <2>1, <2>3, <2>5, <2>6, <2>7, <2>10, <2>11, DocumentStep
<1>4. CASE Put(p)
  <2>1. /\ blobs' = blobs \cup {BlobKey(i, d)} /\ UNCHANGED <<execs, artifacts>>
        /\ proc[p].pc = "put" /\ proc' = [proc EXCEPT ![p].pc = "mark"]
    BY <1>4 DEF Put, PutBlob, OwnBlob, Go, Become
  <2>2. PICK s : s = [proc[p] EXCEPT !.pc = "mark"] OBVIOUS
  <2>3. /\ s.pc = "mark" /\ s.row = i /\ s.doc = d /\ proc' = [proc EXCEPT ![p] = s]
        /\ s.dataset = proc[p].dataset /\ s.filling = proc[p].filling
    BY <2>1, <2>2 DEF ProcState
  <2>4. \A j \in Id : ArtifactsOf(j)' = ArtifactsOf(j) BY <2>1 DEF ArtifactsOf
  <2>5. OwnBlobs' BY <2>1 DEF WholeInv, OwnBlobs
  <2>6. BlobsOf(artifacts)' = BlobsOf(artifacts) BY <2>1 DEF BlobsOf, BlobOf, BlobKey
  <2>7. BytesKept(i)' BY <1>1, <1>2, <2>1, <2>4 DEF BytesKept, BlobOf, BlobKey
  <2>8. 1 .. d \subseteq Docs(i) BY <2>1 DEF RecorderStands
  <2>9. BlobKey(i, d) \in BlobsOf(artifacts) /\ BlobKey(i, d)[1] = i
    <3>1. PICK a \in ArtifactsOf(i) : a.doc = d
      <4>1. d \in 1 .. d
        <5>1. d \in Doc BY <2>1 DEF LocalInv
        <5> QED BY <1>1, <5>1, StoreAssumption DEF Doc, InputDoc
      <4> QED BY <2>8, <4>1 DEF Docs
    <3>2. a \in artifacts /\ a.owner = i BY <3>1 DEF ArtifactsOf, WholeInv, OwnBlobs
    <3> QED BY <3>1, <3>2 DEF BlobsOf, BlobOf, BlobKey
  <2>10. Docs(i)' = Docs(i) /\ BlobKey(i, d)' = BlobKey(i, d)
    BY <2>1 DEF Docs, ArtifactsOf, BlobKey
  <2>11. Stands(s)'
    BY <2>1, <2>3, <2>7, <2>8, <2>10 DEF Stands, RecorderStands, ReaderStands, PurgerStands
  <2>12. CacheState(s) BY <2>3 DEF CacheState
  <2> QED BY <1>1, <2>1, <2>3, <2>4, <2>5, <2>6, <2>9, <2>11, <2>12, DocumentStep
<1>5. ASSUME NEW st \in {"STORED", "FAILED"}, NEW ok \in BOOLEAN, MarkArtifacts(i, BlobKey(i, d), st),
             st = "STORED" => BlobKey(i, d) \in blobs,
             proc[p].pc \in {"put", "mark"}, NextDocument(p, ok)
      PROVE  WholeInv'
  <2>1. PICK s : /\ proc' = [proc EXCEPT ![p] = s]
                 /\ CacheState(s) /\ s.row = proc[p].row
                 /\ \/ s.pc = "insert" /\ s.doc = proc[p].doc + 1
                    \/ s.pc = "finalize" /\ Output \subseteq 1 .. proc[p].doc
    BY <1>5, NextDocumentState
  <2>2. /\ UNCHANGED <<execs, blobs>> /\ OwnBlobs'
        /\ \A j \in Id \ {i} : ArtifactsOf(j)' = ArtifactsOf(j)
        /\ Docs(i) \subseteq Docs(i)' /\ BlobsOf(artifacts) \subseteq BlobsOf(artifacts)'
        /\ BytesKept(i)'
    BY <1>1, <1>2, <1>5, MarkedArtifacts
  <2>3. 1 .. d \subseteq Docs(i)' BY <1>5, <2>2 DEF RecorderStands
  <2>4. s.pc = "insert" => s.doc - 1 = d BY <1>1, <2>1
  <2>5. Stands(s)'
    BY <2>1, <2>2, <2>3, <2>4 DEF Stands, RecorderStands, ReaderStands, PurgerStands, Output
  <2> QED BY <1>1, <2>1, <2>2, <2>5, DocumentStep
<1>6. CASE PutFails(p)
  <2>1. CASE Finish(p) /\ UNCHANGED storeVars BY <1>1, <1>6, <2>1, FinishWhole DEF PutFails
  <2>2. CASE MarkArtifacts(i, BlobKey(i, d), "FAILED") /\ NextDocument(p, FALSE)
    BY <1>5, <1>6, <2>2 DEF PutFails
  <2> QED BY <1>6, <2>1, <2>2 DEF PutFails, OwnBlob
<1>7. CASE MarkStored(p)
  <2>1. BlobKey(i, d) \in blobs BY <1>7 DEF MarkStored, RecorderStands
  <2>2. proc[p].ok \in BOOLEAN BY DEF ProcState
  <2> QED BY <1>5, <1>7, <2>1, <2>2 DEF MarkStored, OwnBlob
<1> QED BY <1>3, <1>4, <1>6, <1>7

-----------------------------------------------------------------------------
(* The theorems.                                                           *)

LEMMA InitWhole == Init => WholeInv
<1> SUFFICES ASSUME Init PROVE WholeInv
  OBVIOUS
<1>1. \A i \in Id : ~Servable(i) BY DEF Init, StoreInit, AbsentRow, Servable
<1>2. artifacts = {} /\ blobs = {} BY DEF Init, StoreInit
<1>3. \A p \in Proc : proc[p] = IdleProc BY DEF Init
<1>4. \A p \in Proc : CacheState(proc[p]) /\ Stands(proc[p])
  BY <1>3, IdleStands, ElsewhereStands
<1> QED BY <1>1, <1>2, <1>4 DEF WholeInv, OwnBlobs, ServableWhole, NoUntrackedBlob

\* WholeInv is inductive beside IInv and LockInv: one lemma per group of actions.
LEMMA NextWhole ==
  ASSUME TRUE \notin Depths, "REPAIR" \notin Admin, IInv, LockInv, WholeInv, [Next]_vars
  PROVE  WholeInv'
<1>1. ASSUME NEW p \in Proc,
             \/ StartCall(p) \/ StartPurge(p) \/ StartRepair(p)
             \/ CallStep(p) \/ AdminStep(p) \/ Abort(p)
      PROVE  WholeInv'
  <2>1. ~StartRepair(p) BY DEF StartRepair
  <2>2. ~(RepairNext(p) \/ RepairGet(p) \/ RepairMark(p) \/ RepairFinalize(p) \/ RepairPromote(p))
    <3>1. proc[p].pc \notin RepairPC BY Standing DEF Covered
    <3> QED BY <3>1
            DEF RepairNext, RepairGet, RepairMark, RepairFinalize, RepairPromote, RepairPC, At
  <2>3. ~(FillAcquire(p) \/ FillRead(p) \/ FillAdd(p))
    BY StandingWhole DEF FillAcquire, FillRead, FillAdd, At, CacheState
  <2>4. CASE CallStep(p)
    BY <2>3, <2>4, CallElsewhere, CallReads, BlobsRemoved, RowsHealed, RowSaved, ClientEnds,
       DocumentStored, RecorderDecides, RunPromoted
    DEF CallStep
  <2>5. CASE AdminStep(p) BY <2>2, <2>5, PurgeDecides, RowsPurged, BlobsRemoved DEF AdminStep
  <2> QED BY <1>1, <2>1, <2>4, <2>5, CallElsewhere, PurgeDecides
<1>2. CASE UNCHANGED vars
  <2>1. UNCHANGED <<execs, artifacts, blobs, proc, nextId, leaked>>
    BY <1>2 DEF vars, storeVars, ctlVars
  <2>2. ASSUME NEW q \in Proc PROVE CacheState(proc[q])' /\ Stands(proc[q])'
    <3>1. PICK t : t = proc[q] OBVIOUS
    <3>2. CacheState(t) /\ Stands(t) BY <3>1 DEF WholeInv
    <3>3. Stands(t)'
      BY <2>1, <3>2 DEF Stands, RecorderStands, ReaderStands, PurgerStands, Docs, BlobsOf,
         AllStored, BytesKept, ArtifactsOf, Servable, Exists, RowsOf, BlobOf, BlobKey
    <3>4. t = proc'[q] BY <2>1, <3>1
    <3> QED BY <3>2, <3>3, <3>4 DEF CacheState
  <2>3. OwnBlobs' BY <2>1 DEF WholeInv, OwnBlobs
  <2>4. ServableWhole'
    BY <2>1 DEF WholeInv, ServableWhole, Whole, Docs, AllStored, BytesKept, ArtifactsOf, Servable,
       BlobOf, BlobKey
  <2>5. NoUntrackedBlob'
    BY <2>1 DEF WholeInv, NoUntrackedBlob, At, BlobOf, BlobKey
  <2> QED BY <2>2, <2>3, <2>4, <2>5 DEF WholeInv
<1> QED BY <1>1, <1>2 DEF Next

LEMMA WholeInvHolds ==
  ASSUME ~LockTimeouts, TRUE \notin Depths, "REPAIR" \notin Admin
  PROVE  Spec => []WholeInv
BY InitWhole, NextWhole, InvariantHolds, LockInvHolds, PTL DEF Spec

\* Whatever can be served has all its output, stored and with its bytes in
\* place (_persist_documents, finalize_output_persisted, DB-first purge): for
\* any number of processes, keys, runs and documents, through failed writes,
\* quarantines, purges, evictions and crashes.
THEOREM ServedIsComplete ==
  ASSUME ~LockTimeouts, TRUE \notin Depths, "REPAIR" \notin Admin
  PROVE  Spec => []ServableIsComplete
<1>1. WholeInv => ServableIsComplete
  BY DEF WholeInv, ServableWhole, Whole, Docs, AllStored, BytesKept, ServableIsComplete
<1> QED BY <1>1, WholeInvHolds, PTL

\* Every file of the blob directory is named by a row, or a purge is about to
\* remove it or died before it could: no other way out of a call or a
\* quarantine leaves bytes nobody can find.
THEOREM BlobsAreTracked ==
  ASSUME ~LockTimeouts, TRUE \notin Depths, "REPAIR" \notin Admin
  PROVE  Spec => []NoUntrackedBlob
<1>1. WholeInv => NoUntrackedBlob BY DEF WholeInv
<1> QED BY <1>1, WholeInvHolds, PTL

\* A hit, taken without a lock beside purges and quarantines, returns the whole
\* output of a run or none of it (find_current, _hydrate).
THEOREM HitsAreWholeOrEmpty ==
  ASSUME ~LockTimeouts, TRUE \notin Depths, "REPAIR" \notin Admin
  PROVE  Spec => []HitAllOrNothing
<1>1. WholeInv => HitAllOrNothing
  BY DEF WholeInv, Stands, ReaderStands, AllOrNothing, HitAllOrNothing, At
<1> QED BY <1>1, WholeInvHolds, PTL

-----------------------------------------------------------------------------
(* No run is left behind, with every setting of the constants, but by a    *)
(* process that aborts in the client.                                      *)

\* No row becomes IN_PROGRESS.
NoneOpened == \A i \in Id : execs'[i].state = "IN_PROGRESS" => execs[i].state = "IN_PROGRESS"
OthersStay(p) == \A q \in Proc \ {p} : proc'[q] = proc[q]

\* A row that another process is running stays run.
LEMMA OthersRun ==
  ASSUME NEW p \in Proc, OthersStay(p), NEW q \in Proc \ {p}, At(q, "client")
  PROVE  Running(proc[q].row)'
<1>1. proc'[q].pc = "client" /\ proc'[q].row = proc[q].row BY DEF OthersStay, At
<1> SUFFICES \E r \in Proc : proc'[r].pc = "client" /\ proc'[r].row = proc'[q].row
  BY <1>1 DEF Running, At
<1> QED BY <1>1

\* A step changes the state of its own process only.
LEMMA OneMoves ==
  ASSUME IInv, NEW p \in Proc,
         StartCall(p) \/ StartPurge(p) \/ StartRepair(p) \/ CallStep(p) \/ AdminStep(p) \/ Abort(p)
  PROVE  OthersStay(p)
<1> USE DEF OthersStay
<1>1. proc \in [Proc -> ProcState] BY DEF IInv, TypeOK
<1>2. \A s : Become(p, s) => OthersStay(p) BY <1>1 DEF Become
<1>3. Finish(p) => OthersStay(p) BY <1>1 DEF Finish
<1>4. \A k, s : AcquireKey(p, k, s) => OthersStay(p) BY <1>1 DEF AcquireKey
<1>5. \A l : Go(p, l) => OthersStay(p) BY <1>2 DEF Go
<1>6. Miss(p) => OthersStay(p) BY <1>3, <1>5 DEF Miss
<1>7. \A ok : NextDocument(p, ok) => OthersStay(p) BY <1>2, <1>3 DEF NextDocument
<1>8. \A l : ToPromote(p, l) \/ PromoteRow(p, l) => OthersStay(p) BY <1>2 DEF ToPromote, PromoteRow
<1>9. PurgeNext(p) => OthersStay(p) BY <1>1, <1>3 DEF PurgeNext
<1> HIDE DEF OthersStay
<1>10. CASE CallStep(p)
  <2>1. CASE FindCurrent(p) BY <1>2, <1>6, <2>1 DEF FindCurrent
  <2>2. CASE LoadExecution(p) BY <1>2, <1>6, <2>2 DEF LoadExecution
  <2>3. CASE Hydrate(p) BY <1>2, <1>3, <1>5, <2>3 DEF Hydrate
  <2>4. CASE ServeHit(p) BY <1>3, <1>5, <2>4 DEF ServeHit
  <2>5. CASE HealBlob(p) \/ HealRows(p) BY <1>2, <1>6, <2>5 DEF HealBlob, HealRows
  <2>6. CASE Acquire(p) \/ FillAcquire(p) BY <1>4, <2>6 DEF Acquire, FillAcquire
  <2>7. CASE SaveInProgress(p) \/ SaveFails(p) BY <1>2, <1>3, <2>7 DEF SaveInProgress, SaveFails
  <2>8. CASE ClientAnswers(p) \/ ClientFails(p) \/ ClientInterrupted(p) \/ RowGone(p)
    BY <1>2, <1>3, <2>8 DEF ClientAnswers, ClientFails, ClientInterrupted, RowGone
  <2>9. CASE InsertArtifact(p) \/ Put(p) BY <1>5, <2>9 DEF InsertArtifact, Put
  <2>10. CASE PutFails(p) \/ MarkStored(p) \/ MarkFails(p)
    BY <1>3, <1>7, <2>10 DEF PutFails, MarkStored, MarkFails
  <2>11. CASE FinalizeRun(p) \/ PromoteRun(p) BY <1>3, <1>8, <2>11 DEF FinalizeRun, PromoteRun
  <2>12. CASE AfterRecord(p) BY <1>2, <1>3, <2>12 DEF AfterRecord
  <2>13. CASE FillRead(p) \/ FillAdd(p) BY <1>2, <1>3, <1>5, <2>13 DEF FillRead, FillAdd
  <2> QED BY <1>10, <2>1, <2>2, <2>3, <2>4, <2>5, <2>6, <2>7, <2>8, <2>9, <2>10, <2>11, <2>12,
             <2>13 DEF CallStep
<1>11. CASE AdminStep(p)
  <2>1. CASE PurgeAcquire(p) BY <1>4, <2>1 DEF PurgeAcquire
  <2>2. CASE PurgeRead(p) \/ PurgeRows(p) \/ PurgeBlob(p) \/ PurgeNext(p)
    BY <1>2, <1>5, <1>9, <2>2 DEF PurgeRead, PurgeRows, PurgeBlob
  <2>3. CASE RepairNext(p) BY <1>2, <1>3, <2>3 DEF RepairNext
  <2>4. CASE RepairGet(p) BY <1>2, <1>5, <2>4 DEF RepairGet
  <2>5. CASE RepairMark(p) BY <1>2, <1>3, <2>5 DEF RepairMark
  <2>6. CASE RepairFinalize(p) \/ RepairPromote(p)
    BY <1>3, <1>5, <1>8, <2>6 DEF RepairFinalize, RepairPromote
  <2> QED BY <1>11, <2>1, <2>2, <2>3, <2>4, <2>5, <2>6 DEF AdminStep
<1>12. CASE StartCall(p) BY <1>2, <1>12 DEF StartCall
<1>13. CASE StartPurge(p) \/ StartRepair(p) BY <1>2, <1>13 DEF StartPurge, StartRepair
<1>14. CASE Abort(p) BY <1>3, <1>14 DEF Abort
<1> QED BY <1>10, <1>11, <1>12, <1>13, <1>14

\* Only SaveInProgress opens a run.
LEMMA OpensNothing ==
  ASSUME IInv, NEW p \in Proc, ~SaveInProgress(p),
         StartCall(p) \/ StartPurge(p) \/ StartRepair(p) \/ CallStep(p) \/ AdminStep(p) \/ Abort(p)
  PROVE  NoneOpened
<1> USE DEF NoneOpened
<1>1. execs \in [Id -> Execution] /\ AbsentRow.state # "IN_PROGRESS"
  BY DEF IInv, TypeOK, StoreTypeOK, AbsentRow
<1>2. UNCHANGED execs => NoneOpened OBVIOUS
<1>3. \A i : RemoveExecution(i) => NoneOpened BY <1>1 DEF RemoveExecution, storeVars
<1>4. \A k : HardDeleteExecution(k) => NoneOpened BY <1>1 DEF HardDeleteExecution
<1>5. \A k : SoftPurgeExecution(k) => NoneOpened
  BY <1>1 DEF SoftPurgeExecution, Execution
<1>6. \A i, k : Promote(i, k) => NoneOpened
  <2> SUFFICES ASSUME NEW i, NEW k, Promote(i, k), NEW j \in Id
               PROVE  execs'[j].state = execs[j].state
    OBVIOUS
  <2>1. execs[j] \in Execution BY <1>1
  <2> QED BY <2>1 DEF Promote, Execution
<1>7. \A i : \A o \in {"SUCCESS", "FAILED"} : RecordOutcome(i, o) => NoneOpened
  BY <1>1 DEF RecordOutcome, Execution
<1>8. \A i, b, st : MarkArtifacts(i, b, st) => UNCHANGED execs BY DEF MarkArtifacts
<1> HIDE DEF NoneOpened
<1>9. CASE CallStep(p)
  <2>1. CASE FindCurrent(p) \/ LoadExecution(p) \/ Hydrate(p) \/ ServeHit(p) \/ Acquire(p)
             \/ SaveFails(p) \/ RowGone(p) \/ FinalizeRun(p) \/ AfterRecord(p) \/ FillAcquire(p)
             \/ FillRead(p) \/ MarkFails(p)
    <3>1. UNCHANGED storeVars
      BY <2>1 DEF FindCurrent, LoadExecution, Hydrate, ServeHit, Acquire, SaveFails, RowGone,
         FinalizeRun, AfterRecord, FillAcquire, FillRead, MarkFails
    <3> QED BY <1>2, <3>1 DEF storeVars
  <2>2. CASE HealBlob(p) \/ Put(p) BY <1>2, <2>2 DEF HealBlob, Put, RemoveBlob, PutBlob
  <2>3. CASE HealRows(p) \/ ClientInterrupted(p) BY <1>3, <2>3 DEF HealRows, ClientInterrupted
  <2>4. CASE ClientAnswers(p) \/ ClientFails(p) BY <1>7, <2>4 DEF ClientAnswers, ClientFails
  <2>5. CASE InsertArtifact(p) \/ FillAdd(p)
    BY <1>2, <2>5 DEF InsertArtifact, FillAdd, PersistArtifact, AddInputArtifacts
  <2>6. CASE PutFails(p) \/ MarkStored(p)
    BY <1>2, <1>8, <2>6 DEF PutFails, MarkStored, storeVars
  <2>7. CASE PromoteRun(p) BY <1>6, <2>7 DEF PromoteRun, PromoteRow
  <2> QED BY <1>9, <2>1, <2>2, <2>3, <2>4, <2>5, <2>6, <2>7 DEF CallStep
<1>10. CASE AdminStep(p)
  <2>1. CASE PurgeAcquire(p) \/ PurgeRead(p) \/ PurgeNext(p) \/ RepairNext(p) \/ RepairGet(p)
             \/ RepairFinalize(p)
    <3>1. UNCHANGED storeVars
      BY <2>1 DEF PurgeAcquire, PurgeRead, PurgeNext, RepairNext, RepairGet, RepairFinalize
    <3> QED BY <1>2, <3>1 DEF storeVars
  <2>2. CASE PurgeRows(p) BY <1>4, <1>5, <2>2 DEF PurgeRows
  <2>3. CASE PurgeBlob(p) BY <1>2, <2>3 DEF PurgeBlob, RemoveBlob
  <2>4. CASE RepairMark(p) BY <1>2, <1>8, <2>4 DEF RepairMark, storeVars
  <2>5. CASE RepairPromote(p) BY <1>6, <2>5 DEF RepairPromote, PromoteRow
  <2> QED BY <1>10, <2>1, <2>2, <2>3, <2>4, <2>5 DEF AdminStep
<1>11. CASE StartCall(p) \/ StartPurge(p) \/ StartRepair(p) \/ Abort(p)
  <2>1. UNCHANGED storeVars BY <1>11 DEF StartCall, StartPurge, StartRepair, Abort
  <2> QED BY <1>2, <2>1 DEF storeVars
<1> QED BY <1>9, <1>10, <1>11

\* Leaving the client settles or removes the row.
LEMMA ClientSettles ==
  ASSUME IInv, NEW p \in Proc, ClientAnswers(p) \/ ClientFails(p) \/ ClientInterrupted(p) \/ RowGone(p),
         At(p, "client")
  PROVE  execs'[proc[p].row].state # "IN_PROGRESS"
<1> PICK i : i = proc[p].row OBVIOUS
<1>1. i \in Id /\ execs \in [Id -> Execution] /\ AbsentRow.state # "IN_PROGRESS"
  BY DEF IInv, ClientOwnsRow, TypeOK, StoreTypeOK, AbsentRow
<1>2. CASE ClientAnswers(p) \/ ClientFails(p)
  <2>1. PICK o \in {"SUCCESS", "FAILED"} : RecordOutcome(i, o)
    BY <1>2 DEF ClientAnswers, ClientFails
  <2> QED BY <1>1, <2>1 DEF RecordOutcome, Execution
<1>3. CASE ClientInterrupted(p)
  BY <1>1, <1>3 DEF ClientInterrupted, RemoveExecution, storeVars, Exists
<1>4. CASE RowGone(p) BY <1>1, <1>4 DEF RowGone, storeVars, Exists
<1> QED BY <1>2, <1>3, <1>4

\* What a process does in the client, short of an abort, is to leave it.
LEMMA ClientLeaves ==
  ASSUME NEW p \in Proc, At(p, "client"),
         StartCall(p) \/ StartPurge(p) \/ StartRepair(p) \/ CallStep(p) \/ AdminStep(p)
  PROVE  ClientAnswers(p) \/ ClientFails(p) \/ ClientInterrupted(p) \/ RowGone(p)
<1>1. ~StartCall(p) /\ ~StartPurge(p) /\ ~StartRepair(p)
  BY DEF StartCall, StartPurge, StartRepair, At
<1>2. ~AdminStep(p)
  BY DEF AdminStep, PurgeAcquire, PurgeRead, PurgeRows, PurgeBlob, PurgeNext, RepairNext,
     RepairGet, RepairMark, RepairFinalize, RepairPromote, At
<1>3. CallStep(p) => ClientAnswers(p) \/ ClientFails(p) \/ ClientInterrupted(p) \/ RowGone(p)
  BY DEF CallStep, FindCurrent, LoadExecution, Hydrate, ServeHit, HealBlob, HealRows,
     Acquire, SaveInProgress, SaveFails, InsertArtifact, Put, PutFails, MarkStored, MarkFails,
     FinalizeRun, PromoteRun, AfterRecord, FillAcquire, FillRead, FillAdd, At
<1> QED BY <1>1, <1>2, <1>3

LEMMA NextRuns ==
  ASSUME IInv, [Next]_vars, NEW i \in LeftOpen', i \notin LeftOpen
  PROVE  Running(i) /\ aborts' = aborts + 1
<1>1. /\ i \in Id /\ execs'[i].state = "IN_PROGRESS" /\ ~Running(i)'
      /\ execs[i].state = "IN_PROGRESS" => Running(i)
  BY DEF LeftOpen
<1>2. ASSUME NEW p \in Proc,
             \/ StartCall(p) \/ StartPurge(p) \/ StartRepair(p)
             \/ CallStep(p) \/ AdminStep(p) \/ Abort(p)
      PROVE  Running(i) /\ aborts' = aborts + 1
  <2>1. OthersStay(p) BY <1>2, OneMoves
  <2>2. ASSUME NEW q \in Proc \ {p}, At(q, "client"), proc[q].row = i PROVE FALSE
    <3>1. Running(proc[q].row)' BY <2>1, <2>2, OthersRun
    <3>2. proc'[q].row = i BY <2>1, <2>2 DEF OthersStay
    <3> QED BY <1>1, <2>2, <3>1, <3>2 DEF Running, At
  <2>3. CASE SaveInProgress(p)
    <3>1. /\ execs' = [execs EXCEPT ![nextId] = [key |-> proc[p].key, state |-> "IN_PROGRESS",
                                                 persisted |-> FALSE, superseded |-> FALSE]]
          /\ proc' = [proc EXCEPT ![p] = [proc[p] EXCEPT !.pc = "client", !.row = nextId, !.seen = {}]]
          /\ At(p, "save")
      BY <2>3 DEF SaveInProgress, Save, Become
    <3>2. proc'[p].pc = "client" /\ proc'[p].row = nextId
      BY <3>1 DEF IInv, TypeOK, ProcState
    <3>3. i # nextId BY <1>1, <3>2 DEF Running, At
    <3>4. execs[i].state = "IN_PROGRESS" BY <1>1, <3>1, <3>3 DEF IInv, TypeOK, StoreTypeOK
    <3> QED BY <1>1, <2>2, <3>1, <3>4 DEF Running, At
  <2>4. CASE ~SaveInProgress(p)
    <3>1. execs[i].state = "IN_PROGRESS" BY <1>1, <1>2, <2>4, OpensNothing DEF NoneOpened
    <3>2. Running(i) /\ At(p, "client") /\ proc[p].row = i BY <1>1, <2>2, <3>1 DEF Running
    <3>3. Abort(p) BY <1>1, <1>2, <3>2, ClientLeaves, ClientSettles
    <3> QED BY <3>2, <3>3 DEF Abort
  <2> QED BY <2>3, <2>4
<1>3. CASE UNCHANGED vars
  <2>1. UNCHANGED <<execs, proc>> BY <1>3 DEF vars, storeVars
  <2> QED BY <1>1, <2>1 DEF Running, At
<1> QED BY <1>2, <1>3 DEF Next

\* Every way out of a call settles or removes its IN_PROGRESS row
\* (_run_fresh_locked), with lock waits that run out, repairs, purges and
\* failures: a row that loses its client unsettled loses it to an abort of that very
\* client's process, its death or an exception there, and no settled row is opened.
THEOREM NoRunLeftOpen == Spec => InProgressIsRunning
<1>1. IInv /\ [Next]_vars =>
        [\A i \in LeftOpen' \ LeftOpen : Running(i) /\ aborts' = aborts + 1]_vars
  BY NextRuns
<1> QED BY <1>1, InvariantHolds, PTL DEF Spec, InProgressIsRunning
=============================================================================
