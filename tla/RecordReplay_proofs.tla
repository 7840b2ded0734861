------------------------ MODULE RecordReplay_proofs ------------------------
(***************************************************************************)
(* Proofs about RecordReplay, for every number of processes, keys, runs    *)
(* and documents, with or without lock timeouts, repairs, evictions,       *)
(* faults and aborts: at most one execution of a key is ever current.      *)
(*                                                                         *)
(* The argument: IInv is inductive.  The store part of IInv (StoreInv) is  *)
(* kept by every transaction, one lemma each; QuietStep carries the part   *)
(* about the processes over every action that neither inserts a row nor    *)
(* records an outcome, and the two that do are treated on their own.       *)
(***************************************************************************)
EXTENDS RecordReplay, TLAPS

\* The part of IInv that speaks of the stores only.
StoreInv == StoreTypeOK /\ AtMostOneCurrent /\ ReferencesResolve /\ UnfinishedIsBare

\* A transaction that moves no row's state or key, except by removing the row.
NoReopen ==
  \A i \in Id : \/ execs'[i].state = "ABSENT"
                \/ execs'[i].state = execs[i].state /\ execs'[i].key = execs[i].key

\* What a transaction of an action handled by QuietStep amounts to.
StoreStep == StoreInv' /\ NoReopen /\ nextId' = nextId

-----------------------------------------------------------------------------
(* The stores: what each transaction keeps.                                *)

\* Blob keys are made of an id and a fingerprint (BlobKey.for_execution).
LEMMA BlobKeyType ==
  ASSUME NEW i \in Id, NEW d \in Doc
  PROVE  BlobKey(i, d) \in Blob
BY StoreAssumption DEF BlobKey, Blob

LEMMA BlobsOfArtifacts ==
  ASSUME NEW S \in SUBSET Artifact
  PROVE  {BlobOf(a) : a \in S} \subseteq Blob
<1>1. ASSUME NEW a \in S PROVE BlobOf(a) \in Blob
  <2>1. a.owner \in Id /\ a.doc \in Doc BY DEF Artifact
  <2> QED BY <2>1, BlobKeyType DEF BlobOf
<1> QED BY <1>1

\* Steps that leave the database alone, whatever they do to the blobs.
LEMMA RowsUntouched ==
  ASSUME StoreInv, UNCHANGED <<execs, artifacts, identities, nextId>>, blobs' \subseteq Blob
  PROVE  StoreStep
BY DEF StoreInv, StoreStep, StoreTypeOK, AtMostOneCurrent, ReferencesResolve, UnfinishedIsBare,
   Servable, Exists, NoReopen

LEMMA StoreUnchanged ==
  ASSUME StoreInv, UNCHANGED <<storeVars, nextId>>
  PROVE  StoreStep
BY RowsUntouched DEF storeVars, StoreInv, StoreTypeOK

LEMMA PutBlobStep ==
  ASSUME StoreInv, NEW b \in Blob, PutBlob(b), UNCHANGED nextId
  PROVE  StoreStep
BY RowsUntouched DEF PutBlob, StoreInv, StoreTypeOK

LEMMA RemoveBlobStep ==
  ASSUME StoreInv, NEW b, RemoveBlob(b), UNCHANGED nextId
  PROVE  StoreStep
BY RowsUntouched DEF RemoveBlob, StoreInv, StoreTypeOK

\* Transactions that touch the artifacts only.
LEMMA ArtifactsStep ==
  ASSUME StoreInv, UNCHANGED <<execs, identities, blobs, nextId>>,
         artifacts' \subseteq Artifact,
         \A a \in artifacts' : /\ a.exec < nextId /\ execs[a.exec].state # "IN_PROGRESS"
                              /\ Exists(a.exec)
  PROVE  StoreStep
BY DEF StoreInv, StoreStep, StoreTypeOK, AtMostOneCurrent, ReferencesResolve, UnfinishedIsBare,
   Servable, Exists, NoReopen

LEMMA PersistArtifactStep ==
  ASSUME StoreInv, NEW i, Settled(i), Exists(i), NEW d \in Doc, PersistArtifact(i, d),
         UNCHANGED nextId
  PROVE  StoreStep
<1> DEFINE new == [exec |-> i, doc |-> d, owner |-> i, status |-> "PENDING"]
<1>1. new \in Artifact BY DEF Settled, Artifact, Status
<1>2. artifacts' = artifacts \cup {new} BY DEF PersistArtifact
<1>3. \A a \in artifacts' : /\ a.exec < nextId /\ execs[a.exec].state # "IN_PROGRESS"
                            /\ Exists(a.exec)
  BY <1>2 DEF StoreInv, ReferencesResolve, UnfinishedIsBare, Settled
<1>4. artifacts' \subseteq Artifact BY <1>1, <1>2 DEF StoreInv, StoreTypeOK
<1> QED BY <1>3, <1>4, ArtifactsStep DEF PersistArtifact

LEMMA MarkArtifactsStep ==
  ASSUME StoreInv, NEW i, NEW b, NEW s \in Status, MarkArtifacts(i, b, s), UNCHANGED nextId
  PROVE  StoreStep
<1>1. Matching(i, b) \subseteq artifacts BY DEF Matching, ArtifactsOf
<1>2. ASSUME NEW a \in artifacts'
      PROVE  /\ a \in Artifact
             /\ a.exec < nextId /\ execs[a.exec].state # "IN_PROGRESS"
             /\ Exists(a.exec)
  <2>1. CASE a \in artifacts
    BY <2>1 DEF StoreInv, StoreTypeOK, ReferencesResolve, UnfinishedIsBare
  <2>2. CASE a \notin artifacts
    <3>1. PICK x \in Matching(i, b) : a = [x EXCEPT !.status = s]
      BY <2>2 DEF MarkArtifacts
    <3>2. x \in artifacts /\ x \in Artifact BY <3>1, <1>1 DEF StoreInv, StoreTypeOK
    <3>3. a \in Artifact /\ a.exec = x.exec BY <3>1, <3>2 DEF Artifact
    <3> QED BY <3>2, <3>3 DEF StoreInv, ReferencesResolve, UnfinishedIsBare
  <2> QED BY <2>1, <2>2
<1> QED BY <1>2, ArtifactsStep DEF MarkArtifacts

LEMMA AddInputArtifactsStep ==
  ASSUME StoreInv, NEW k, NEW o \in Id, AddInputArtifacts(k, o), UNCHANGED nextId
  PROVE  StoreStep
<1>1. ASSUME NEW a \in artifacts'
      PROVE  /\ a \in Artifact
             /\ a.exec < nextId /\ execs[a.exec].state # "IN_PROGRESS"
             /\ Exists(a.exec)
  <2>1. CASE a \in artifacts
    BY <2>1 DEF StoreInv, StoreTypeOK, ReferencesResolve, UnfinishedIsBare
  <2>2. CASE a \notin artifacts
    <3>1. PICK i \in Id : /\ i \in CurrentOf(k)
                          /\ a = [exec |-> i, doc |-> InputDoc, owner |-> o, status |-> "PENDING"]
      BY <2>2 DEF AddInputArtifacts, IsNewest
    <3>2. execs[i].state = "SUCCESS" /\ i < nextId
      BY <3>1 DEF CurrentOf, Servable, StoreInv, UnfinishedIsBare, Exists
    <3>3. InputDoc \in Doc BY StoreAssumption DEF InputDoc, Doc
    <3> QED BY <3>1, <3>2, <3>3 DEF Artifact, Status, Exists
  <2> QED BY <2>1, <2>2
<1> QED BY <1>1, ArtifactsStep DEF AddInputArtifacts

-----------------------------------------------------------------------------
\* Transactions that remove rows, or make them unpersisted.
LEMMA ShrinkingStep ==
  ASSUME StoreInv, execs' \in [Id -> Execution], artifacts' \subseteq artifacts,
         identities' \subseteq identities, UNCHANGED <<blobs, nextId>>,
         ReferencesResolve',
         \A i \in Id : \/ execs'[i] = execs[i]
                       \/ execs'[i] = AbsentRow
                       \/ execs'[i] = [execs[i] EXCEPT !.persisted = FALSE]
  PROVE  StoreStep
<1> USE DEF StoreInv, StoreTypeOK
<1>1. \A i \in Id : execs'[i].persisted => execs[i].persisted /\ execs'[i] = execs[i]
  BY DEF AbsentRow, Execution
<1>2. NoReopen
  <2> SUFFICES ASSUME NEW i \in Id
               PROVE  \/ execs'[i].state = "ABSENT"
                      \/ execs'[i].state = execs[i].state /\ execs'[i].key = execs[i].key
    BY DEF NoReopen
  <2>1. CASE execs'[i] = AbsentRow BY <2>1 DEF AbsentRow
  <2>2. CASE execs'[i] = [execs[i] EXCEPT !.persisted = FALSE]
    <3>1. execs[i] \in Execution OBVIOUS
    <3> QED BY <2>2, <3>1 DEF Execution
  <2> QED BY <2>1, <2>2
<1>3. AtMostOneCurrent' BY <1>1 DEF AtMostOneCurrent, Servable
<1>4. UnfinishedIsBare'
  <2>1. \A i \in Id : execs'[i].state # "ABSENT" => i < nextId
    BY <1>2 DEF UnfinishedIsBare, Exists, NoReopen
  <2>2. \A i \in Id : execs'[i].state = "IN_PROGRESS" => ~execs'[i].persisted
    BY <1>1 DEF UnfinishedIsBare
  <2>3. \A a \in artifacts' : a.exec < nextId /\ execs'[a.exec].state # "IN_PROGRESS"
    <3> SUFFICES ASSUME NEW a \in artifacts'
                 PROVE  a.exec < nextId /\ execs'[a.exec].state # "IN_PROGRESS"
      OBVIOUS
    <3>1. a \in artifacts /\ a.exec \in Id BY DEF Artifact
    <3> QED BY <3>1, <1>2 DEF UnfinishedIsBare, NoReopen
  <2> QED BY <2>1, <2>2, <2>3 DEF UnfinishedIsBare, Exists
<1> QED BY <1>2, <1>3, <1>4 DEF StoreStep

LEMMA AbsentRowType == AbsentRow \in Execution
BY DEF AbsentRow, Execution, RunState

LEMMA RemoveExecutionStep ==
  ASSUME StoreInv, NEW i, RemoveExecution(i), UNCHANGED nextId
  PROVE  StoreStep
<1>1. CASE ~Exists(i) BY <1>1, StoreUnchanged DEF RemoveExecution
<1>2. CASE Exists(i)
  <2>1. execs' = [execs EXCEPT ![i] = AbsentRow] BY <1>2 DEF RemoveExecution
  <2>2. execs' \in [Id -> Execution] BY <2>1, AbsentRowType DEF StoreInv, StoreTypeOK
  <2>3. /\ \A j \in Id : execs'[j] = execs[j] \/ execs'[j] = AbsentRow
        /\ \A j \in Id \ {i} : execs'[j] = execs[j]
        /\ i \in Id => execs'[i].state = "ABSENT"
    BY <2>1 DEF StoreInv, StoreTypeOK, AbsentRow
  <2>4. ReferencesResolve'
    <3>1. ASSUME NEW a \in artifacts' PROVE execs'[a.exec].state # "ABSENT"
      <4>1. a \in artifacts /\ a.exec # i /\ a.exec \in Id
        BY <1>2, <3>1 DEF RemoveExecution, ArtifactsOf, StoreInv, StoreTypeOK, Artifact
      <4> QED BY <4>1, <2>3 DEF StoreInv, ReferencesResolve, Exists
    <3>2. ASSUME NEW j \in Id, execs'[j].state # "ABSENT" PROVE execs'[j].key \in identities'
      <4>1. j # i /\ execs'[j] = execs[j] /\ Exists(j) BY <2>3, <3>2 DEF Exists
      <4>2. execs[j].key \in identities BY <4>1 DEF StoreInv, ReferencesResolve
      <4>3. CASE execs[j].key # execs[i].key
        BY <1>2, <4>1, <4>2, <4>3 DEF RemoveExecution
      <4>4. CASE execs[j].key = execs[i].key
        <5>1. j \in RowsOf(execs[i].key) BY <4>1, <4>4 DEF RowsOf
        <5>2. RowsOf(execs[i].key) # {i} BY <4>1, <5>1
        <5> QED BY <1>2, <4>1, <4>2, <5>2 DEF RemoveExecution
      <4> QED BY <4>3, <4>4
    <3> QED BY <3>1, <3>2 DEF ReferencesResolve, Exists
  <2>5. artifacts' \subseteq artifacts /\ identities' \subseteq identities /\ blobs' = blobs
    BY <1>2 DEF RemoveExecution
  <2> QED BY <1>2, <2>2, <2>3, <2>4, <2>5, ShrinkingStep
<1> QED BY <1>1, <1>2

LEMMA HardDeleteExecutionStep ==
  ASSUME StoreInv, NEW k, HardDeleteExecution(k), UNCHANGED nextId
  PROVE  StoreStep
<1>1. execs' \in [Id -> Execution]
  BY AbsentRowType DEF HardDeleteExecution, StoreInv, StoreTypeOK
<1>2. \A j \in Id : execs'[j] = execs[j] \/ execs'[j] = AbsentRow
  BY DEF HardDeleteExecution
<1>3. ReferencesResolve'
  <2>1. ASSUME NEW j \in Id, j \notin RowsOf(k) PROVE execs'[j] = execs[j]
    BY <2>1 DEF HardDeleteExecution
  <2>2. ASSUME NEW j \in Id, execs'[j].state # "ABSENT" PROVE execs'[j].key \in identities'
    <3>1. j \notin RowsOf(k) BY <2>2 DEF HardDeleteExecution, AbsentRow
    <3>2. execs'[j] = execs[j] /\ Exists(j) /\ execs[j].key # k
      BY <2>1, <2>2, <3>1 DEF RowsOf, Exists
    <3> QED BY <3>2 DEF HardDeleteExecution, StoreInv, ReferencesResolve
  <2>3. ASSUME NEW a \in artifacts' PROVE execs'[a.exec].state # "ABSENT"
    <3>1. a \in artifacts /\ a.exec \in Id /\ a.exec \notin RowsOf(k)
      BY DEF HardDeleteExecution, StoreInv, StoreTypeOK, Artifact
    <3> QED BY <2>1, <3>1 DEF StoreInv, ReferencesResolve, Exists
  <2> QED BY <2>2, <2>3 DEF ReferencesResolve, Exists
<1> QED BY <1>1, <1>2, <1>3, ShrinkingStep DEF HardDeleteExecution

LEMMA SoftPurgeExecutionStep ==
  ASSUME StoreInv, NEW k, SoftPurgeExecution(k), UNCHANGED nextId
  PROVE  StoreStep
<1>1. execs' \in [Id -> Execution]
  BY DEF SoftPurgeExecution, StoreInv, StoreTypeOK, Execution
<1>2. \A j \in Id : execs'[j] = execs[j] \/ execs'[j] = [execs[j] EXCEPT !.persisted = FALSE]
  BY DEF SoftPurgeExecution
<1>3. \A j \in Id : execs'[j].state = execs[j].state /\ execs'[j].key = execs[j].key
  BY <1>2 DEF StoreInv, StoreTypeOK, Execution
<1>4. ReferencesResolve'
  BY <1>3 DEF SoftPurgeExecution, ReferencesResolve, Exists, StoreInv, StoreTypeOK, Artifact
<1> QED BY <1>1, <1>2, <1>4, ShrinkingStep DEF SoftPurgeExecution

\* Promote makes its row current and every other of the key superseded.
LEMMA PromoteStep ==
  ASSUME StoreInv, NEW i, Settled(i), NEW k, Exists(i) => k = Supersedes(i),
         Promote(i, k), UNCHANGED nextId
  PROVE  StoreStep
<1> USE DEF StoreInv, StoreTypeOK
<1>1. ASSUME NEW j \in Id
      PROVE  /\ execs'[j] \in Execution
             /\ execs'[j].key = execs[j].key
             /\ execs'[j].state = execs[j].state
             /\ execs'[j].persisted = (execs[j].persisted \/ (j = i /\ Exists(j)))
             /\ execs'[j].superseded = (execs[j].superseded \/ SupersededBy(k, j))
  <2> DEFINE sup == execs[j].superseded \/ SupersededBy(k, j)
             per == execs[j].persisted \/ (j = i /\ Exists(j))
  <2>1. execs'[j] = [execs[j] EXCEPT !.superseded = sup, !.persisted = per]
    BY DEF Promote
  <2>2. execs[j] \in Execution OBVIOUS
  <2>3. sup \in BOOLEAN /\ per \in BOOLEAN OBVIOUS
  <2> HIDE DEF sup, per
  <2>4. /\ execs'[j] \in Execution
        /\ execs'[j].key = execs[j].key
        /\ execs'[j].state = execs[j].state
        /\ execs'[j].persisted = per
        /\ execs'[j].superseded = sup
    BY <2>1, <2>2, <2>3 DEF Execution
  <2> QED BY <2>4 DEF sup, per
<1>2. execs' \in [Id -> Execution]
  <2>1. DOMAIN execs' = Id /\ execs' = [j \in Id |-> execs'[j]] BY DEF Promote
  <2> QED BY <2>1, <1>1
<1>3. NoReopen BY <1>1 DEF NoReopen
<1>4. AtMostOneCurrent'
  <2> SUFFICES ASSUME NEW x \in Id, NEW y \in Id, Servable(x)', Servable(y)',
                      execs'[x].key = execs'[y].key, x # y
               PROVE  FALSE
    BY DEF AtMostOneCurrent
  <2>1. ASSUME NEW j \in Id, Servable(j)', ~Servable(j)
        PROVE  j = i /\ Exists(i) /\ k = execs[i].key
    <3>1. execs[j].state = "SUCCESS" /\ ~execs[j].superseded /\ ~execs[j].persisted
      BY <1>1, <2>1 DEF Servable
    <3>2. j = i /\ Exists(i) BY <1>1, <2>1, <3>1 DEF Servable
    <3> QED BY <3>1, <3>2 DEF Supersedes
  <2>2. ASSUME NEW j \in Id, Servable(j)' PROVE ~SupersededBy(k, j)
    BY <1>1, <2>2 DEF Servable
  <2>3. CASE Servable(x) /\ Servable(y) BY <2>3, <1>1 DEF AtMostOneCurrent
  <2>4. CASE ~Servable(x) /\ Servable(y)
    BY <2>1, <2>2, <2>4, <1>1 DEF SupersededBy
  <2>5. CASE Servable(x) /\ ~Servable(y)
    BY <2>1, <2>2, <2>5, <1>1 DEF SupersededBy
  <2>6. CASE ~Servable(x) /\ ~Servable(y) BY <2>1, <2>6
  <2> QED BY <2>3, <2>4, <2>5, <2>6
<1>5. UnfinishedIsBare'
  <2>1. \A j \in Id : execs'[j].state = "IN_PROGRESS" => ~execs'[j].persisted
    BY <1>1 DEF UnfinishedIsBare, Settled
  <2>2. \A j \in Id : execs'[j].state # "ABSENT" => j < nextId
    BY <1>1 DEF UnfinishedIsBare, Exists
  <2>3. \A a \in artifacts : a.exec < nextId /\ execs'[a.exec].state # "IN_PROGRESS"
    BY <1>1 DEF UnfinishedIsBare, Artifact
  <2> QED BY <2>1, <2>2, <2>3 DEF UnfinishedIsBare, Exists, Promote
<1>6. ReferencesResolve'
  <2>1. \A a \in artifacts : a.exec \in Id /\ Exists(a.exec) BY DEF Artifact, ReferencesResolve
  <2>2. \A a \in artifacts : execs'[a.exec].state # "ABSENT" BY <2>1, <1>1 DEF Exists
  <2>3. \A j \in Id : execs'[j].state # "ABSENT" => execs'[j].key \in identities
    BY <1>1 DEF ReferencesResolve, Exists
  <2> QED BY <2>2, <2>3 DEF ReferencesResolve, Exists, Promote
<1> QED BY <1>2, <1>3, <1>4, <1>5, <1>6 DEF StoreStep, Promote

LEMMA SaveStep ==
  ASSUME StoreInv, nextId \in Id, NEW k \in Key, Save(nextId, k), nextId' = nextId + 1
  PROVE  /\ StoreInv'
         /\ execs'[nextId].state = "IN_PROGRESS"
         /\ \A i \in Id \ {nextId} : execs'[i] = execs[i]
<1> USE DEF StoreInv, StoreTypeOK
<1> DEFINE new == [key |-> k, state |-> "IN_PROGRESS", persisted |-> FALSE, superseded |-> FALSE]
<1>1. new \in Execution BY DEF Execution, RunState
<1>2. execs' = [execs EXCEPT ![nextId] = new] BY DEF Save
<1>3. execs' \in [Id -> Execution] BY <1>1, <1>2
<1>4. execs'[nextId] = new /\ \A i \in Id \ {nextId} : execs'[i] = execs[i] BY <1>2
<1>5. AtMostOneCurrent' BY <1>4 DEF AtMostOneCurrent, Servable
<1>6. UnfinishedIsBare'
  <2>1. nextId \in Nat /\ \A i \in Id : i \in Nat BY DEF Id
  <2>2. \A i \in Id : execs'[i].state # "ABSENT" => i < nextId'
    BY <1>4, <2>1 DEF UnfinishedIsBare, Exists
  <2>3. \A i \in Id : execs'[i].state = "IN_PROGRESS" => ~execs'[i].persisted
    BY <1>4 DEF UnfinishedIsBare
  <2>4. \A a \in artifacts : a.exec < nextId' /\ execs'[a.exec].state # "IN_PROGRESS"
    <3> SUFFICES ASSUME NEW a \in artifacts
                 PROVE  a.exec < nextId' /\ execs'[a.exec].state # "IN_PROGRESS"
      OBVIOUS
    <3>1. a.exec \in Id /\ a.exec < nextId BY DEF Artifact, UnfinishedIsBare
    <3>2. a.exec # nextId /\ a.exec < nextId'
      <4>1. a.exec \in Nat BY <3>1, <2>1
      <4> QED BY <3>1, <2>1, <4>1
    <3>3. execs'[a.exec] = execs[a.exec] BY <3>1, <3>2, <1>4
    <3>4. execs[a.exec].state # "IN_PROGRESS" BY DEF UnfinishedIsBare
    <3> QED BY <3>2, <3>3, <3>4
  <2> QED BY <2>2, <2>3, <2>4 DEF UnfinishedIsBare, Exists, Save
<1>7. ReferencesResolve'
  <2>1. \A a \in artifacts : a.exec \in Id /\ Exists(a.exec) BY DEF Artifact, ReferencesResolve
  <2>2. \A i \in Id : execs'[i].state # "ABSENT" => execs'[i].key \in identities'
    BY <1>4 DEF Save, ReferencesResolve, Exists
  <2>3. \A i \in Id : Exists(i) => execs'[i].state # "ABSENT" BY <1>4 DEF Exists
  <2> QED BY <2>1, <2>2, <2>3 DEF ReferencesResolve, Exists, Save
<1> QED BY <1>3, <1>4, <1>5, <1>6, <1>7 DEF Save

LEMMA RecordOutcomeStep ==
  ASSUME StoreInv, NEW i \in Id, NEW outcome \in {"SUCCESS", "FAILED"},
         execs[i].state = "IN_PROGRESS", RecordOutcome(i, outcome), UNCHANGED nextId
  PROVE  /\ StoreInv'
         /\ execs'[i].state = outcome
         /\ \A j \in Id \ {i} : execs'[j] = execs[j]
<1> USE DEF StoreInv, StoreTypeOK
<1>1. execs' = [execs EXCEPT ![i].state = outcome] BY DEF RecordOutcome
<1>2. execs' \in [Id -> Execution] BY <1>1 DEF Execution, RunState
<1>3. /\ execs'[i].state = outcome
      /\ execs'[i].persisted = execs[i].persisted
      /\ \A j \in Id \ {i} : execs'[j] = execs[j]
  BY <1>1 DEF Execution
<1>4. ~execs'[i].persisted BY <1>3 DEF UnfinishedIsBare
<1>5. AtMostOneCurrent' BY <1>3, <1>4 DEF AtMostOneCurrent, Servable
<1>6. UnfinishedIsBare'
  <2>1. \A a \in artifacts : a.exec \in Id BY DEF Artifact
  <2>2. \A a \in artifacts : a.exec < nextId /\ execs'[a.exec].state # "IN_PROGRESS"
    BY <2>1, <1>3 DEF UnfinishedIsBare
  <2>3. \A j \in Id : execs'[j].state # "ABSENT" => j < nextId
    BY <1>3 DEF UnfinishedIsBare, Exists
  <2>4. \A j \in Id : execs'[j].state = "IN_PROGRESS" => ~execs'[j].persisted
    BY <1>3, <1>4 DEF UnfinishedIsBare
  <2> QED BY <2>2, <2>3, <2>4 DEF UnfinishedIsBare, Exists, RecordOutcome
<1>7. ReferencesResolve'
  <2>1. \A a \in artifacts : a.exec \in Id /\ Exists(a.exec) BY DEF Artifact, ReferencesResolve
  <2>2. execs'[i].key = execs[i].key BY <1>1 DEF Execution
  <2> QED BY <1>3, <2>1, <2>2 DEF ReferencesResolve, Exists, RecordOutcome
<1> QED BY <1>2, <1>3, <1>5, <1>6, <1>7 DEF RecordOutcome

-----------------------------------------------------------------------------
(* The processes.                                                          *)

\* The parts of TypeOK no store transaction touches.
CtlTypeOK ==
  /\ held \in [Proc -> SUBSET Key]
  /\ faults \in 0 .. MaxFaults
  /\ aborts \in 0 .. MaxAborts
  /\ leaked \subseteq Blob

LEMMA SettledKept ==
  ASSUME NoReopen, nextId' = nextId, NEW i, Settled(i)
  PROVE  /\ Settled(i)'
         /\ \/ execs'[i].state = "ABSENT"
            \/ execs'[i].state = execs[i].state /\ execs'[i].key = execs[i].key
BY DEF Settled, NoReopen

\* What another process knows of its rows outlives a step that reopens none.
LEMMA LocalInvKept ==
  ASSUME \A i : Settled(i) => Settled(i)',
         \A i : Settled(i) => \/ execs'[i].state = "ABSENT"
                              \/ execs'[i].state = execs[i].state /\ execs'[i].key = execs[i].key,
         NEW q, proc'[q] = proc[q], LocalInv(proc[q])
  PROVE  LocalInv(proc[q])'
<1>1. ASSUME proc[q].pc \in PromotePC, execs'[proc[q].row].state # "ABSENT"
      PROVE  proc[q].supersede = (IF execs'[proc[q].row].state = "SUCCESS"
                                  THEN execs'[proc[q].row].key ELSE NoKey)
  BY <1>1 DEF LocalInv, Exists, Supersedes
<1>2. \A i : Settled(i) => Settled(i)' OBVIOUS
<1> QED BY <1>1, <1>2 DEF LocalInv, Exists, Supersedes, Settled

\* A step of one process that starts no client run and ends in a state that
\* works on settled rows only.
LEMMA QuietStep ==
  ASSUME IInv, StoreStep, CtlTypeOK', NEW p \in Proc, NEW s \in ProcState,
         proc' = [proc EXCEPT ![p] = s], s.pc # "client", LocalInv(s)
  PROVE  IInv'
<1> USE DEF IInv, StoreStep
<1>1. proc' \in [Proc -> ProcState] /\ proc'[p] = s /\ \A q \in Proc \ {p} : proc'[q] = proc[q]
  BY DEF TypeOK
<1>2. TypeOK' BY <1>1 DEF TypeOK, CtlTypeOK, StoreInv
<1>3. ClientOwnsRow'
  <2> SUFFICES ASSUME NEW q \in Proc, proc'[q].pc = "client"
               PROVE  /\ proc'[q].row \in Id
                      /\ proc'[q].row < nextId'
                      /\ execs'[proc'[q].row].state \in {"IN_PROGRESS", "ABSENT"}
                      /\ \A r \in Proc \ {q} : proc'[r].pc = "client" => proc'[r].row # proc'[q].row
    BY DEF ClientOwnsRow, At
  <2>1. q # p /\ proc'[q] = proc[q] BY <1>1
  <2>2. proc[q].row \in Id BY <2>1 DEF ClientOwnsRow, At
  <2>3. execs'[proc[q].row].state \in {"IN_PROGRESS", "ABSENT"}
    BY <2>1, <2>2 DEF ClientOwnsRow, At, NoReopen
  <2>4. \A r \in Proc \ {q} : proc'[r].pc = "client" => proc'[r].row # proc'[q].row
    BY <1>1, <2>1 DEF ClientOwnsRow, At
  <2> QED BY <2>1, <2>2, <2>3, <2>4 DEF ClientOwnsRow, At
<1>4. WritersOnSettledRows'
  <2>1. \A i : Settled(i) => Settled(i)' BY SettledKept
  <2>2. \A i : Settled(i) => \/ execs'[i].state = "ABSENT"
                             \/ execs'[i].state = execs[i].state /\ execs'[i].key = execs[i].key
    BY SettledKept
  <2>3. ASSUME NEW q \in Proc \ {p} PROVE LocalInv(proc[q])'
    <3>1. proc'[q] = proc[q] /\ LocalInv(proc[q]) BY <1>1 DEF WritersOnSettledRows
    <3> QED BY <2>1, <2>2, <3>1, LocalInvKept
  <2>4. LocalInv(proc[p])'
    <3>1. ASSUME s.pc \in PromotePC, execs'[s.row].state # "ABSENT"
          PROVE  s.supersede = (IF execs'[s.row].state = "SUCCESS"
                                THEN execs'[s.row].key ELSE NoKey)
      BY <2>2, <3>1 DEF LocalInv, Exists, Supersedes
    <3> QED BY <1>1, <2>1, <3>1 DEF LocalInv, Exists, Supersedes, Settled
  <2> QED BY <2>3, <2>4 DEF WritersOnSettledRows
<1> QED BY <1>2, <1>3, <1>4 DEF StoreInv

LEMMA IdleWorks == IdleProc \in ProcState /\ IdleProc.pc # "client" /\ LocalInv(IdleProc)
BY DEF IdleProc, ProcState, PC, CallMode, LocalInv, PromotePC, NoBlob, CallPC

\* The end of an operation, whatever store transaction comes with it.
LEMMA FinishStep ==
  ASSUME IInv, StoreStep, NEW p \in Proc, Finish(p),
         faults' \in 0 .. MaxFaults, aborts' \in 0 .. MaxAborts, leaked' \subseteq Blob
  PROVE  IInv'
<1>1. CtlTypeOK' BY DEF CtlTypeOK, Finish, IInv, TypeOK
<1>2. proc' = [proc EXCEPT ![p] = IdleProc] BY DEF Finish
<1> QED BY <1>1, <1>2, IdleWorks, QuietStep

\* A process state with one field replaced is a process state.
LEMMA FieldUpdates ==
  ASSUME NEW t \in ProcState
  PROVE  /\ \A v \in PC : [t EXCEPT !.pc = v] \in ProcState
         /\ \A v \in CallMode \cup {"SOFT", "HARD", "REPAIR"} : [t EXCEPT !.mode = v] \in ProcState
         /\ \A v \in Key : [t EXCEPT !.key = v] \in ProcState
         /\ \A v \in BOOLEAN : [t EXCEPT !.dataset = v] \in ProcState
         /\ \A v \in BOOLEAN : [t EXCEPT !.locked = v] \in ProcState
         /\ \A v \in BOOLEAN : [t EXCEPT !.filling = v] \in ProcState
         /\ \A v \in BOOLEAN : [t EXCEPT !.ok = v] \in ProcState
         /\ \A v \in BOOLEAN : [t EXCEPT !.found = v] \in ProcState
         /\ \A v \in Id \cup {0} : [t EXCEPT !.row = v] \in ProcState
         /\ \A v \in SUBSET Artifact : [t EXCEPT !.seen = v] \in ProcState
         /\ \A v \in Doc \cup {0} : [t EXCEPT !.doc = v] \in ProcState
         /\ \A v \in Key \cup {NoKey} : [t EXCEPT !.supersede = v] \in ProcState
         /\ \A v \in SUBSET Blob : [t EXCEPT !.drop = v] \in ProcState
         /\ \A v \in Blob \cup {NoBlob} : [t EXCEPT !.blob = v] \in ProcState
         /\ \A v \in SUBSET Key : [t EXCEPT !.victims = v] \in ProcState
         /\ \A v \in Key \cup {NoKey} : [t EXCEPT !.victim = v] \in ProcState
         /\ \A v \in SUBSET Run : [t EXCEPT !.runs = v] \in ProcState
<1>1. \A v \in PC : [t EXCEPT !.pc = v] \in ProcState BY DEF ProcState
<1>2. \A v \in CallMode \cup {"SOFT", "HARD", "REPAIR"} : [t EXCEPT !.mode = v] \in ProcState BY DEF ProcState
<1>3. \A v \in Key : [t EXCEPT !.key = v] \in ProcState BY DEF ProcState
<1>4. \A v \in BOOLEAN : [t EXCEPT !.dataset = v] \in ProcState BY DEF ProcState
<1>5. \A v \in BOOLEAN : [t EXCEPT !.locked = v] \in ProcState BY DEF ProcState
<1>6. \A v \in BOOLEAN : [t EXCEPT !.filling = v] \in ProcState BY DEF ProcState
<1>7. \A v \in BOOLEAN : [t EXCEPT !.ok = v] \in ProcState BY DEF ProcState
<1>8. \A v \in BOOLEAN : [t EXCEPT !.found = v] \in ProcState BY DEF ProcState
<1>9. \A v \in Id \cup {0} : [t EXCEPT !.row = v] \in ProcState BY DEF ProcState
<1>10. \A v \in SUBSET Artifact : [t EXCEPT !.seen = v] \in ProcState BY DEF ProcState
<1>11. \A v \in Doc \cup {0} : [t EXCEPT !.doc = v] \in ProcState BY DEF ProcState
<1>12. \A v \in SUBSET Blob : [t EXCEPT !.drop = v] \in ProcState BY DEF ProcState
<1>13. \A v \in Blob \cup {NoBlob} : [t EXCEPT !.blob = v] \in ProcState BY DEF ProcState
<1>14. \A v \in SUBSET Key : [t EXCEPT !.victims = v] \in ProcState BY DEF ProcState
<1>15. \A v \in Key \cup {NoKey} : [t EXCEPT !.victim = v] \in ProcState BY DEF ProcState
<1>16. \A v \in SUBSET Run : [t EXCEPT !.runs = v] \in ProcState BY DEF ProcState
<1>17. \A v \in Key \cup {NoKey} : [t EXCEPT !.supersede = v] \in ProcState BY DEF ProcState
<1> QED BY <1>1, <1>2, <1>3, <1>4, <1>5, <1>6, <1>7, <1>8, <1>9,
          <1>10, <1>11, <1>12, <1>13, <1>14, <1>15, <1>16, <1>17

LEMMA BecomeStep ==
  ASSUME IInv, StoreStep, NEW p \in Proc, NEW s \in ProcState, Become(p, s),
         s.pc # "client", LocalInv(s),
         faults' \in 0 .. MaxFaults, UNCHANGED <<aborts, leaked>>
  PROVE  IInv'
<1>1. CtlTypeOK' BY DEF CtlTypeOK, Become, IInv, TypeOK
<1>2. proc' = [proc EXCEPT ![p] = s] BY DEF Become
<1> QED BY <1>1, <1>2, QuietStep

LEMMA AcquireKeyStep ==
  ASSUME IInv, UNCHANGED <<storeVars, ctlVars>>, NEW p \in Proc, NEW k \in Key,
         NEW s \in ProcState, AcquireKey(p, k, s), s.pc # "client", LocalInv(s)
  PROVE  IInv'
<1>1. CtlTypeOK' BY DEF CtlTypeOK, AcquireKey, ctlVars, IInv, TypeOK
<1>2. proc' = [proc EXCEPT ![p] = s] BY DEF AcquireKey
<1>3. StoreStep BY StoreUnchanged DEF StoreInv, IInv, TypeOK, ctlVars
<1> QED BY <1>1, <1>2, <1>3, QuietStep

\* What a process is worked on keeps when only its label and scratch change.
LEMMA ProcFacts ==
  ASSUME IInv, NEW p \in Proc
  PROVE  /\ proc[p] \in ProcState
         /\ LocalInv(proc[p])
         /\ StoreInv
         /\ UNCHANGED <<storeVars, ctlVars>> => StoreStep
         /\ UNCHANGED ctlVars => /\ faults' \in 0 .. MaxFaults
                                 /\ aborts' \in 0 .. MaxAborts
                                 /\ leaked' \subseteq Blob
                                 /\ UNCHANGED <<nextId, aborts, leaked>>
<1>1. proc[p] \in ProcState BY DEF IInv, TypeOK
<1>2. LocalInv(proc[p]) BY DEF IInv, WritersOnSettledRows
<1>3. StoreInv BY DEF IInv, TypeOK, StoreInv
<1>4. ASSUME UNCHANGED <<storeVars, ctlVars>> PROVE StoreStep
  BY <1>3, <1>4, StoreUnchanged DEF ctlVars
<1>5. ASSUME UNCHANGED ctlVars
      PROVE  /\ faults' \in 0 .. MaxFaults
             /\ aborts' \in 0 .. MaxAborts
             /\ leaked' \subseteq Blob
             /\ UNCHANGED <<nextId, aborts, leaked>>
  BY <1>5 DEF ctlVars, IInv, TypeOK
<1> QED BY <1>1, <1>2, <1>3, <1>4, <1>5

LEMMA MissStep ==
  ASSUME IInv, StoreStep, NEW p \in Proc, Miss(p), UNCHANGED ctlVars,
         proc[p].pc \in CallPC
  PROVE  IInv'
<1>1. CASE proc[p].mode = "OFFLINE" BY <1>1, ProcFacts, FinishStep DEF Miss
<1>2. CASE proc[p].mode # "OFFLINE"
  <2> DEFINE s == [proc[p] EXCEPT !.pc = IF proc[p].locked THEN "save" ELSE "acquire"]
  <2>1. Become(p, s) BY <1>2 DEF Miss, Go
  <2>2. s \in ProcState BY ProcFacts DEF ProcState, PC
  <2>3. s.pc # "client" /\ LocalInv(s) BY ProcFacts DEF ProcState, LocalInv, PromotePC
  <2> QED BY <2>1, <2>2, <2>3, ProcFacts, BecomeStep
<1> QED BY <1>1, <1>2

\* Steps that only read, take or release a lock, or end.
LEMMA ReadSteps ==
  ASSUME IInv, NEW p \in Proc,
         \/ StartCall(p) \/ FindCurrent(p) \/ LoadExecution(p) \/ Hydrate(p) \/ ServeHit(p)
         \/ Acquire(p) \/ SaveFails(p) \/ RowGone(p) \/ FillAcquire(p) \/ FillRead(p)
  PROVE  IInv'
<1> USE ProcFacts
<1>1. CASE StartCall(p)
  <2>1. PICK k \in Key, m \in Modes, ds \in Depths :
          Become(p, [IdleProc EXCEPT !.pc = IF m = "REFRESH" THEN "acquire" ELSE "find",
                                     !.mode = m, !.key = k, !.dataset = ds])
    BY <1>1 DEF StartCall
  <2> DEFINE s == [IdleProc EXCEPT !.pc = IF m = "REFRESH" THEN "acquire" ELSE "find",
                                   !.mode = m, !.key = k, !.dataset = ds]
  <2>2. m \in CallMode /\ ds \in BOOLEAN BY ReplayAssumption DEF CallMode
  <2>3. s \in ProcState BY <2>2, IdleWorks, FieldUpdates DEF PC
  <2>4. s.pc # "client" /\ LocalInv(s) BY IdleWorks DEF IdleProc, LocalInv, PromotePC, CallPC
  <2> QED BY <1>1, <2>1, <2>3, <2>4, BecomeStep DEF StartCall
<1>2. CASE FindCurrent(p)
  <2>1. CASE Miss(p) BY <1>2, <2>1, MissStep DEF FindCurrent, At, CallPC
  <2>2. CASE ~Miss(p)
    <3>1. PICK i \in Id : Become(p, [proc[p] EXCEPT !.pc = "load", !.row = i])
      BY <1>2, <2>2 DEF FindCurrent
    <3> DEFINE s == [proc[p] EXCEPT !.pc = "load", !.row = i]
    <3>2. s \in ProcState BY FieldUpdates DEF PC
    <3>3. s.pc # "client" /\ LocalInv(s)
      BY <1>2 DEF ProcState, LocalInv, PromotePC, At, CallPC, FindCurrent
    <3> QED BY <1>2, <3>1, <3>2, <3>3, BecomeStep DEF FindCurrent
  <2> QED BY <2>1, <2>2
<1>3. CASE LoadExecution(p)
  <2>1. CASE Miss(p) BY <1>3, <2>1, MissStep DEF LoadExecution, At, CallPC
  <2>2. CASE ~Miss(p)
    <3> DEFINE s == [proc[p] EXCEPT !.pc = "hydrate", !.seen = ArtifactsOf(proc[p].row)]
    <3>1. Become(p, s) BY <1>3, <2>2 DEF LoadExecution
    <3>2. ArtifactsOf(proc[p].row) \in SUBSET Artifact BY DEF ArtifactsOf, StoreInv, StoreTypeOK
    <3>3. s \in ProcState BY <3>2, FieldUpdates DEF PC
    <3>4. s.pc # "client" /\ LocalInv(s)
      BY <1>3 DEF ProcState, LocalInv, PromotePC, At, CallPC, LoadExecution
    <3> QED BY <1>3, <3>1, <3>3, <3>4, BecomeStep DEF LoadExecution
  <2> QED BY <2>1, <2>2
<1>4. CASE Hydrate(p)
  <2>1. CASE Finish(p) BY <1>4, <2>1, FinishStep DEF Hydrate
  <2>2. CASE Go(p, "hit")
    <3> DEFINE s == [proc[p] EXCEPT !.pc = "hit"]
    <3>1. s \in ProcState BY FieldUpdates DEF PC
    <3>2. s.pc # "client" /\ LocalInv(s)
      BY <1>4 DEF ProcState, LocalInv, PromotePC, At, CallPC, Hydrate
    <3> QED BY <1>4, <2>2, <3>1, <3>2, BecomeStep DEF Hydrate, Go
  <2>3. CASE Become(p, [proc[p] EXCEPT !.pc = "heal", !.drop = SeenBlobs(p), !.seen = {}])
    <3> DEFINE s == [proc[p] EXCEPT !.pc = "heal", !.drop = SeenBlobs(p), !.seen = {}]
    <3>1. proc[p].seen \in SUBSET Artifact BY DEF ProcState
    <3>2. SeenBlobs(p) \in SUBSET Blob BY <3>1, BlobsOfArtifacts DEF SeenBlobs
    <3>3. s \in ProcState BY <3>2, FieldUpdates DEF PC
    <3>4. s.pc # "client" /\ LocalInv(s)
      BY <1>4 DEF ProcState, LocalInv, PromotePC, At, CallPC, Hydrate
    <3> QED BY <1>4, <2>3, <3>3, <3>4, BecomeStep DEF Hydrate
  <2> QED BY <1>4, <2>1, <2>2, <2>3 DEF Hydrate
<1>5. CASE ServeHit(p)
  <2>1. CASE Finish(p) BY <1>5, <2>1, FinishStep DEF ServeHit
  <2>2. CASE Go(p, "fillAcquire")
    <3> DEFINE s == [proc[p] EXCEPT !.pc = "fillAcquire"]
    <3>1. s \in ProcState BY FieldUpdates DEF PC
    <3>2. s.pc # "client" /\ LocalInv(s)
      BY <1>5 DEF ProcState, LocalInv, PromotePC, At, CallPC, ServeHit
    <3> QED BY <1>5, <2>2, <3>1, <3>2, BecomeStep DEF ServeHit, Go
  <2> QED BY <1>5, <2>1, <2>2 DEF ServeHit
<1>6. CASE SaveFails(p) BY <1>6, FinishStep DEF SaveFails
<1>7. CASE RowGone(p) BY <1>7, FinishStep DEF RowGone
<1>8. CASE Acquire(p)
  <2> DEFINE label == IF proc[p].mode = "CACHE" THEN "find" ELSE "save"
             s == [proc[p] EXCEPT !.pc = label, !.locked = TRUE, !.row = 0, !.seen = {}]
  <2>1. AcquireKey(p, proc[p].key, s) BY <1>8 DEF Acquire
  <2>2. s \in ProcState BY FieldUpdates DEF PC
  <2>3. s.pc # "client" /\ LocalInv(s)
      BY <1>8 DEF ProcState, LocalInv, PromotePC, At, CallPC, Acquire
  <2>4. proc[p].key \in Key BY <1>8 DEF LocalInv, PromotePC, At, CallPC, Acquire
  <2> QED BY <1>8, <2>1, <2>2, <2>3, <2>4, AcquireKeyStep DEF Acquire
<1>9. CASE FillAcquire(p)
  <2> DEFINE s == [proc[p] EXCEPT !.pc = "fillRead", !.row = 0, !.seen = {}]
  <2>1. AcquireKey(p, proc[p].key, s) BY <1>9 DEF FillAcquire
  <2>2. s \in ProcState BY FieldUpdates DEF PC
  <2>3. s.pc # "client" /\ LocalInv(s)
      BY <1>9 DEF ProcState, LocalInv, PromotePC, At, CallPC, FillAcquire
  <2>4. proc[p].key \in Key BY <1>9 DEF LocalInv, PromotePC, At, CallPC, FillAcquire
  <2> QED BY <1>9, <2>1, <2>2, <2>3, <2>4, AcquireKeyStep DEF FillAcquire
<1>10. CASE FillRead(p)
  <2>1. CASE Finish(p) BY <1>10, <2>1, FinishStep DEF FillRead
  <2>2. CASE ~Finish(p)
    <3>1. PICK i \in Id :
            /\ i \in CurrentOf(proc[p].key)
            /\ Become(p, [proc[p] EXCEPT !.pc = "fillAdd", !.row = i, !.doc = InputDoc,
                                         !.filling = TRUE])
      BY <1>10, <2>2 DEF FillRead, IsNewest
    <3> DEFINE s == [proc[p] EXCEPT !.pc = "fillAdd", !.row = i, !.doc = InputDoc,
                                    !.filling = TRUE]
    <3>2. Settled(i)
      BY <3>1 DEF CurrentOf, Servable, Settled, StoreInv, UnfinishedIsBare, Exists
    <3>3. InputDoc \in Doc BY StoreAssumption DEF InputDoc, Doc
    <3>4. s \in ProcState BY <3>3, FieldUpdates DEF PC
    <3>5. s.pc # "client" /\ LocalInv(s)
      BY <1>10, <3>2, <3>3 DEF ProcState, LocalInv, PromotePC, At, CallPC, FillRead
    <3> QED BY <1>10, <3>1, <3>4, <3>5, BecomeStep DEF FillRead
  <2> QED BY <2>1, <2>2
<1> QED BY <1>1, <1>2, <1>3, <1>4, <1>5, <1>6, <1>7, <1>8, <1>9, <1>10

\* The two halves of finalize_output_persisted.
LEMMA ToPromoteStep ==
  ASSUME IInv, UNCHANGED <<storeVars, ctlVars>>, NEW p \in Proc,
         NEW label \in PromotePC, ToPromote(p, label),
         proc[p].pc \in {"finalize", "repairFinalize"}
  PROVE  IInv'
<1> USE ProcFacts
<1> DEFINE k == Supersedes(proc[p].row)
           s == [proc[p] EXCEPT !.pc = label, !.supersede = k]
<1>1. Settled(proc[p].row) BY DEF LocalInv, PromotePC
<1>2. k \in Key \cup {NoKey}
  BY <1>1 DEF Supersedes, Settled, StoreInv, StoreTypeOK, Execution
<1>3. s \in ProcState BY <1>2, FieldUpdates DEF PC, PromotePC
<1>4. /\ s.pc = label /\ s.supersede = k /\ s.row = proc[p].row /\ s.runs = proc[p].runs
  BY DEF ProcState
<1>5. Become(p, s) BY DEF ToPromote
<1> HIDE DEF s
<1>6. s.pc # "client" /\ LocalInv(s) BY <1>1, <1>4 DEF LocalInv, PromotePC, CallPC
<1> QED BY <1>3, <1>5, <1>6, BecomeStep

LEMMA PromoteRowStep ==
  ASSUME IInv, UNCHANGED ctlVars, NEW p \in Proc, NEW label \in {"recorded", "repairNext"},
         PromoteRow(p, label), proc[p].pc \in PromotePC
  PROVE  IInv'
<1> USE ProcFacts
<1> DEFINE s == [proc[p] EXCEPT !.pc = label, !.supersede = NoKey]
<1>1. /\ Settled(proc[p].row)
      /\ Exists(proc[p].row) => proc[p].supersede = Supersedes(proc[p].row)
  BY DEF LocalInv
<1>2. StoreStep BY <1>1, PromoteStep DEF PromoteRow
<1>3. s \in ProcState BY FieldUpdates DEF PC
<1>4. s.pc # "client" /\ LocalInv(s) BY DEF ProcState, LocalInv, CallPC, PromotePC
<1> QED BY <1>2, <1>3, <1>4, BecomeStep DEF PromoteRow

\* Steps of a call that change the stores without starting or ending a run.
LEMMA StoringSteps ==
  ASSUME IInv, NEW p \in Proc,
         \/ HealBlob(p) \/ HealRows(p) \/ ClientInterrupted(p) \/ InsertArtifact(p)
         \/ Put(p) \/ PutFails(p) \/ MarkStored(p) \/ MarkFails(p) \/ FinalizeRun(p)
         \/ PromoteRun(p) \/ AfterRecord(p) \/ FillAdd(p)
  PROVE  IInv'
<1> USE ProcFacts
<1>1. CASE HealBlob(p)
  <2>1. PICK b \in proc[p].drop :
          RemoveBlob(b) /\ Become(p, [proc[p] EXCEPT !.drop = proc[p].drop \ {b}])
    BY <1>1 DEF HealBlob
  <2> DEFINE s == [proc[p] EXCEPT !.drop = proc[p].drop \ {b}]
  <2>2. b \in Blob /\ proc[p].drop \ {b} \in SUBSET Blob BY DEF ProcState
  <2>3. s \in ProcState BY <2>2, FieldUpdates
  <2>4. s.pc # "client" /\ LocalInv(s)
    BY <1>1 DEF ProcState, LocalInv, PromotePC, At, HealBlob
  <2>5. StoreStep BY <1>1, <2>1, <2>2, RemoveBlobStep DEF HealBlob
  <2> QED BY <1>1, <2>1, <2>3, <2>4, <2>5, BecomeStep DEF HealBlob
<1>2. CASE HealRows(p)
  <2>1. StoreStep BY <1>2, RemoveExecutionStep DEF HealRows
  <2> QED BY <1>2, <2>1, MissStep DEF HealRows, At, CallPC
<1>3. CASE ClientInterrupted(p)
  <2>1. StoreStep BY <1>3, RemoveExecutionStep DEF ClientInterrupted
  <2> QED BY <1>3, <2>1, FinishStep DEF ClientInterrupted
<1>4. CASE InsertArtifact(p)
  <2> DEFINE s == [proc[p] EXCEPT !.pc = "put"]
  <2>1. Settled(proc[p].row) /\ proc[p].doc \in Doc
    BY <1>4 DEF LocalInv, PromotePC, At, InsertArtifact
  <2>2. StoreStep BY <1>4, <2>1, PersistArtifactStep DEF InsertArtifact
  <2>3. s \in ProcState BY FieldUpdates DEF PC
  <2>4. s.pc # "client" /\ LocalInv(s) BY <2>1 DEF ProcState, LocalInv, PromotePC, CallPC
  <2> QED BY <1>4, <2>2, <2>3, <2>4, BecomeStep DEF InsertArtifact, Go
<1>5. CASE Put(p)
  <2> DEFINE s == [proc[p] EXCEPT !.pc = "mark"]
  <2>1. Settled(proc[p].row) /\ proc[p].doc \in Doc BY <1>5 DEF LocalInv, PromotePC, At, Put
  <2>2. OwnBlob(p) \in Blob BY <2>1, BlobKeyType DEF OwnBlob, Settled
  <2>3. StoreStep BY <1>5, <2>2, PutBlobStep DEF Put
  <2>4. s \in ProcState BY FieldUpdates DEF PC
  <2>5. s.pc # "client" /\ LocalInv(s) BY <2>1 DEF ProcState, LocalInv, PromotePC, CallPC
  <2> QED BY <1>5, <2>3, <2>4, <2>5, BecomeStep DEF Put, Go
<1>6. ASSUME StoreStep, At(p, "put") \/ At(p, "mark"),
             NEW ok \in BOOLEAN, NextDocument(p, ok),
             faults' \in 0 .. MaxFaults, UNCHANGED <<aborts, leaked>>
      PROVE  IInv'
  <2> USE <1>6
  <2>1. Settled(proc[p].row) /\ proc[p].doc \in Doc BY DEF LocalInv, PromotePC, At
  <2>2. CASE Finish(p) BY <2>2, FinishStep DEF IInv, TypeOK
  <2>3. CASE /\ proc[p].doc < LastDoc(p)
             /\ Become(p, [proc[p] EXCEPT !.pc = "insert", !.doc = proc[p].doc + 1, !.ok = ok])
    <3> DEFINE s == [proc[p] EXCEPT !.pc = "insert", !.doc = proc[p].doc + 1, !.ok = ok]
    <3>1. proc[p].doc + 1 \in Doc
      BY <2>1, <2>3, StoreAssumption DEF LastDoc, Doc, InputDoc
    <3>2. s \in ProcState BY <3>1, FieldUpdates DEF PC
    <3>3. s.pc # "client" /\ LocalInv(s) BY <2>1, <3>1 DEF ProcState, LocalInv, PromotePC, CallPC
    <3> QED BY <2>3, <3>2, <3>3, BecomeStep
  <2>4. CASE Become(p, [proc[p] EXCEPT !.pc = "finalize", !.ok = ok])
    <3> DEFINE s == [proc[p] EXCEPT !.pc = "finalize", !.ok = ok]
    <3>1. s \in ProcState BY FieldUpdates DEF PC
    <3>2. s.pc # "client" /\ LocalInv(s) BY <2>1 DEF ProcState, LocalInv, PromotePC, CallPC
    <3> QED BY <2>4, <3>1, <3>2, BecomeStep
  <2> QED BY <2>2, <2>3, <2>4 DEF NextDocument
<1>7. CASE PutFails(p)
  <2>1. faults' \in 0 .. MaxFaults BY <1>7, ReplayAssumption DEF PutFails, Fault, IInv, TypeOK
  <2>2. "FAILED" \in Status BY DEF Status
  <2>3. StoreStep
    BY <1>7, <2>2, MarkArtifactsStep, StoreUnchanged DEF PutFails
  <2>4. CASE Finish(p) BY <1>7, <2>1, <2>3, <2>4, FinishStep DEF PutFails, IInv, TypeOK
  <2>5. CASE NextDocument(p, FALSE) BY <1>6, <1>7, <2>1, <2>3, <2>5 DEF PutFails
  <2> QED BY <1>7, <2>4, <2>5 DEF PutFails
<1>8. CASE MarkStored(p)
  <2>1. "STORED" \in Status /\ proc[p].ok \in BOOLEAN BY DEF Status, ProcState
  <2>2. StoreStep BY <1>8, <2>1, MarkArtifactsStep DEF MarkStored
  <2> QED BY <1>6, <1>8, <2>1, <2>2 DEF MarkStored
<1>9. CASE MarkFails(p)
  <2>1. faults' \in 0 .. MaxFaults
    BY <1>9, ReplayAssumption DEF MarkFails, Fault, NoFault, IInv, TypeOK
  <2>2. StoreStep BY <1>9, StoreUnchanged DEF MarkFails
  <2> QED BY <1>6, <1>9, <2>1, <2>2 DEF MarkFails
<1>10. CASE FinalizeRun(p)
  <2>1. CASE Finish(p) BY <1>10, <2>1, FinishStep DEF FinalizeRun
  <2>2. CASE ToPromote(p, "promote")
    BY <1>10, <2>2, ToPromoteStep DEF FinalizeRun, At, PromotePC
  <2> QED BY <1>10, <2>1, <2>2 DEF FinalizeRun
<1>13. CASE PromoteRun(p)
  BY <1>13, PromoteRowStep DEF PromoteRun, At, PromotePC
<1>11. CASE AfterRecord(p)
  <2>1. CASE Finish(p) BY <1>11, <2>1, FinishStep DEF AfterRecord
  <2>2. CASE ~Finish(p)
    <3>1. PICK ks \in SUBSET Key :
            Become(p, [proc[p] EXCEPT !.pc = "purgeAcquire", !.victims = ks])
      BY <1>11, <2>2 DEF AfterRecord
    <3> DEFINE s == [proc[p] EXCEPT !.pc = "purgeAcquire", !.victims = ks]
    <3>2. s \in ProcState BY FieldUpdates DEF PC
    <3>3. s.pc # "client" /\ LocalInv(s) BY DEF ProcState, LocalInv, PromotePC, CallPC
    <3> QED BY <1>11, <3>1, <3>2, <3>3, BecomeStep DEF AfterRecord
  <2> QED BY <2>1, <2>2
<1>12. CASE FillAdd(p)
  <2> DEFINE s == [proc[p] EXCEPT !.pc = "put"]
  <2>1. Settled(proc[p].row) /\ proc[p].doc \in Doc BY <1>12 DEF LocalInv, PromotePC, At, FillAdd
  <2>2. StoreStep BY <1>12, <2>1, AddInputArtifactsStep DEF FillAdd, Settled
  <2>3. s \in ProcState BY FieldUpdates DEF PC
  <2>4. s.pc # "client" /\ LocalInv(s) BY <2>1 DEF ProcState, LocalInv, PromotePC, CallPC
  <2> QED BY <1>12, <2>2, <2>3, <2>4, BecomeStep DEF FillAdd, Go
<1> QED BY <1>1, <1>2, <1>3, <1>4, <1>5, <1>7, <1>8, <1>9, <1>10, <1>11, <1>12, <1>13

\* The rows a repair is offered have documents, hence an outcome.
LEMMA AwaitingIsSettled ==
  ASSUME IInv
  PROVE  AwaitingPersistence \in SUBSET Run /\ \A r \in AwaitingPersistence : Settled(r.id)
<1> SUFFICES ASSUME NEW r \in AwaitingPersistence PROVE r \in Run /\ Settled(r.id)
  OBVIOUS
<1>1. PICK i \in Id :
        /\ ArtifactsOf(i) # {}
        /\ r = [id |-> i,
                blobs |-> {BlobOf(a) : a \in {x \in ArtifactsOf(i) : x.status # "STORED"}}]
  BY DEF AwaitingPersistence
<1>2. {x \in ArtifactsOf(i) : x.status # "STORED"} \in SUBSET Artifact
  BY DEF ArtifactsOf, IInv, TypeOK, StoreTypeOK
<1>3. r \in Run BY <1>1, <1>2, BlobsOfArtifacts DEF Run
<1>4. Settled(i) BY <1>1 DEF ArtifactsOf, IInv, UnfinishedIsBare, Settled
<1> QED BY <1>1, <1>3, <1>4

\* Purges, evictions and repairs.
LEMMA AdminSteps ==
  ASSUME IInv, NEW p \in Proc, StartPurge(p) \/ StartRepair(p) \/ AdminStep(p)
  PROVE  IInv'
<1> USE ProcFacts
<1>1. CASE StartPurge(p)
  <2>1. PICK m \in Admin \cap {"SOFT", "HARD"}, ks \in SUBSET Key :
          Become(p, [IdleProc EXCEPT !.pc = "purgeAcquire", !.mode = m, !.victims = ks])
    BY <1>1 DEF StartPurge
  <2> DEFINE s == [IdleProc EXCEPT !.pc = "purgeAcquire", !.mode = m, !.victims = ks]
  <2>2. s \in ProcState BY IdleWorks, FieldUpdates DEF PC
  <2>3. s.pc # "client" /\ LocalInv(s) BY DEF IdleProc, LocalInv, PromotePC, CallPC
  <2> QED BY <1>1, <2>1, <2>2, <2>3, BecomeStep DEF StartPurge
<1>2. CASE PurgeAcquire(p)
  <2>1. PICK k \in proc[p].victims :
          AcquireKey(p, k, [proc[p] EXCEPT !.pc = "purgeRead", !.victim = k,
                                           !.victims = proc[p].victims \ {k}])
    BY <1>2 DEF PurgeAcquire
  <2> DEFINE s == [proc[p] EXCEPT !.pc = "purgeRead", !.victim = k,
                                  !.victims = proc[p].victims \ {k}]
  <2>2. k \in Key /\ proc[p].victims \ {k} \in SUBSET Key BY DEF ProcState
  <2>3. s \in ProcState BY <2>2, FieldUpdates DEF PC
  <2>4. s.pc # "client" /\ LocalInv(s) BY DEF ProcState, LocalInv, PromotePC, CallPC
  <2> QED BY <1>2, <2>1, <2>2, <2>3, <2>4, AcquireKeyStep DEF PurgeAcquire
<1>3. CASE PurgeRead(p)
  <2> DEFINE D == {BlobOf(a) : a \in {x \in artifacts : x.exec \in RowsOf(proc[p].victim)}}
             s == [proc[p] EXCEPT !.pc = "purgeRows", !.drop = D]
  <2>1. {x \in artifacts : x.exec \in RowsOf(proc[p].victim)} \in SUBSET Artifact
    BY DEF StoreInv, StoreTypeOK
  <2>2. D \in SUBSET Blob BY <2>1, BlobsOfArtifacts
  <2>3. s \in ProcState BY <2>2, FieldUpdates DEF PC
  <2>4. s.pc # "client" /\ LocalInv(s) BY DEF ProcState, LocalInv, PromotePC, CallPC
  <2> QED BY <1>3, <2>3, <2>4, BecomeStep DEF PurgeRead
<1>4. CASE PurgeRows(p)
  <2> DEFINE s == [proc[p] EXCEPT !.pc = "purgeBlobs"]
  <2>1. StoreStep
    BY <1>4, HardDeleteExecutionStep, SoftPurgeExecutionStep DEF PurgeRows
  <2>2. s \in ProcState BY FieldUpdates DEF PC
  <2>3. s.pc # "client" /\ LocalInv(s) BY DEF ProcState, LocalInv, PromotePC, CallPC
  <2> QED BY <1>4, <2>1, <2>2, <2>3, BecomeStep DEF PurgeRows, Go
<1>5. CASE PurgeBlob(p)
  <2>1. PICK b \in proc[p].drop :
          RemoveBlob(b) /\ Become(p, [proc[p] EXCEPT !.drop = proc[p].drop \ {b}])
    BY <1>5 DEF PurgeBlob
  <2> DEFINE s == [proc[p] EXCEPT !.drop = proc[p].drop \ {b}]
  <2>2. proc[p].drop \ {b} \in SUBSET Blob BY DEF ProcState
  <2>3. s \in ProcState BY <2>2, FieldUpdates
  <2>4. s.pc # "client" /\ LocalInv(s)
    BY <1>5 DEF ProcState, LocalInv, PromotePC, At, PurgeBlob
  <2>5. StoreStep BY <1>5, <2>1, RemoveBlobStep DEF PurgeBlob
  <2> QED BY <1>5, <2>1, <2>3, <2>4, <2>5, BecomeStep DEF PurgeBlob
<1>6. CASE PurgeNext(p)
  <2>1. CASE Finish(p) BY <1>6, <2>1, FinishStep DEF PurgeNext
  <2>2. CASE ~Finish(p)
    <3> DEFINE s == [proc[p] EXCEPT !.pc = "purgeAcquire", !.victim = NoKey]
    <3>1. s \in ProcState BY FieldUpdates DEF PC
    <3>2. proc' = [proc EXCEPT ![p] = s]
      BY <1>6, <2>2 DEF PurgeNext, IInv, TypeOK
    <3>3. held' \in [Proc -> SUBSET Key] BY <1>6, <2>2 DEF PurgeNext, IInv, TypeOK
    <3>4. CtlTypeOK' BY <1>6, <3>3 DEF CtlTypeOK, PurgeNext
    <3>5. s.pc # "client" /\ LocalInv(s) BY DEF ProcState, LocalInv, PromotePC, CallPC
    <3> QED BY <1>6, <3>1, <3>2, <3>4, <3>5, QuietStep DEF PurgeNext
  <2> QED BY <2>1, <2>2
<1>7. CASE StartRepair(p)
  <2> DEFINE s == [IdleProc EXCEPT !.pc = "repairNext", !.mode = "REPAIR",
                                   !.runs = AwaitingPersistence]
  <2>1. s \in ProcState BY IdleWorks, AwaitingIsSettled, FieldUpdates DEF PC
  <2>2. s.pc # "client" /\ LocalInv(s)
    BY AwaitingIsSettled DEF IdleProc, LocalInv, PromotePC, CallPC
  <2> QED BY <1>7, <2>1, <2>2, BecomeStep DEF StartRepair
<1>8. CASE RepairNext(p)
  <2>1. CASE Finish(p) BY <1>8, <2>1, FinishStep DEF RepairNext
  <2>2. CASE ~Finish(p)
    <3>1. PICK r \in proc[p].runs :
            Become(p, [proc[p] EXCEPT !.pc = "repairGet", !.runs = proc[p].runs \ {r},
                                      !.row = r.id, !.drop = r.blobs, !.ok = TRUE])
      BY <1>8, <2>2 DEF RepairNext
    <3> DEFINE s == [proc[p] EXCEPT !.pc = "repairGet", !.runs = proc[p].runs \ {r},
                                    !.row = r.id, !.drop = r.blobs, !.ok = TRUE]
    <3>2. /\ r.id \in Id /\ r.blobs \in SUBSET Blob
          /\ proc[p].runs \ {r} \in SUBSET Run
      BY DEF ProcState, Run
    <3>3. Settled(r.id) BY DEF LocalInv, PromotePC
    <3>4. s \in ProcState BY <3>2, FieldUpdates DEF PC
    <3>5. s.pc # "client" /\ LocalInv(s) BY <3>3 DEF ProcState, LocalInv, PromotePC, CallPC
    <3> QED BY <1>8, <3>1, <3>4, <3>5, BecomeStep DEF RepairNext
  <2> QED BY <2>1, <2>2
<1>9. CASE RepairGet(p)
  <2>1. Settled(proc[p].row) BY <1>9 DEF LocalInv, PromotePC, At, RepairGet
  <2>2. CASE Go(p, "repairFinalize")
    <3> DEFINE s == [proc[p] EXCEPT !.pc = "repairFinalize"]
    <3>1. s \in ProcState BY FieldUpdates DEF PC
    <3>2. s.pc # "client" /\ LocalInv(s) BY <2>1 DEF ProcState, LocalInv, PromotePC, CallPC
    <3> QED BY <1>9, <2>2, <3>1, <3>2, BecomeStep DEF RepairGet, Go
  <2>3. CASE ~Go(p, "repairFinalize")
    <3>1. PICK b \in proc[p].drop :
            Become(p, [proc[p] EXCEPT !.pc = "repairMark", !.drop = proc[p].drop \ {b},
                                      !.blob = b, !.found = b \in blobs,
                                      !.ok = (proc[p].ok /\ b \in blobs)])
      BY <1>9, <2>3 DEF RepairGet
    <3> DEFINE there == b \in blobs
               allThere == proc[p].ok /\ there
               s == [proc[p] EXCEPT !.pc = "repairMark", !.drop = proc[p].drop \ {b},
                                    !.blob = b, !.found = there, !.ok = allThere]
    <3>2. b \in Blob /\ proc[p].drop \ {b} \in SUBSET Blob BY DEF ProcState
    <3>3. there \in BOOLEAN /\ allThere \in BOOLEAN OBVIOUS
    <3> HIDE DEF there, allThere
    <3>4. s \in ProcState BY <3>2, <3>3, FieldUpdates DEF PC
    <3>5. s.pc # "client" /\ LocalInv(s) BY <2>1 DEF ProcState, LocalInv, PromotePC, CallPC
    <3>6. Become(p, s) BY <3>1 DEF there, allThere
    <3> QED BY <1>9, <3>4, <3>5, <3>6, BecomeStep DEF RepairGet
  <2> QED BY <2>2, <2>3
<1>10. CASE RepairMark(p)
  <2>1. Settled(proc[p].row) BY <1>10 DEF LocalInv, PromotePC, At, RepairMark
  <2>2. CASE Finish(p) /\ UNCHANGED storeVars
    BY <1>10, <2>2, StoreUnchanged, FinishStep DEF RepairMark
  <2>3. CASE ~(Finish(p) /\ UNCHANGED storeVars)
    <3> DEFINE s == [proc[p] EXCEPT !.pc = "repairGet", !.blob = NoBlob, !.found = FALSE]
               status == IF proc[p].found THEN "STORED" ELSE "FAILED"
    <3>1. MarkArtifacts(proc[p].row, proc[p].blob, status) /\ Become(p, s)
      BY <1>10, <2>3 DEF RepairMark
    <3>2. StoreStep BY <1>10, <3>1, MarkArtifactsStep DEF RepairMark, Status
    <3>3. s \in ProcState BY FieldUpdates DEF PC
    <3>4. s.pc # "client" /\ LocalInv(s) BY <2>1 DEF ProcState, LocalInv, PromotePC, CallPC
    <3> QED BY <1>10, <3>1, <3>2, <3>3, <3>4, BecomeStep DEF RepairMark
  <2> QED BY <2>2, <2>3
<1>11. CASE RepairFinalize(p)
  <2> DEFINE s == [proc[p] EXCEPT !.pc = "repairNext"]
  <2>1. s \in ProcState BY FieldUpdates DEF PC
  <2>2. s.pc # "client" /\ LocalInv(s) BY DEF ProcState, LocalInv, PromotePC, CallPC
  <2>3. CASE Finish(p) BY <1>11, <2>3, FinishStep DEF RepairFinalize
  <2>4. CASE Go(p, "repairNext") BY <1>11, <2>1, <2>2, <2>4, BecomeStep DEF RepairFinalize, Go
  <2>5. CASE ToPromote(p, "repairPromote")
    BY <1>11, <2>5, ToPromoteStep DEF RepairFinalize, At, PromotePC
  <2> QED BY <1>11, <2>3, <2>4, <2>5 DEF RepairFinalize
<1>12. CASE RepairPromote(p)
  BY <1>12, PromoteRowStep DEF RepairPromote, At, PromotePC
<1> QED BY <1>1, <1>2, <1>3, <1>4, <1>5, <1>6, <1>7, <1>8, <1>9, <1>10, <1>11, <1>12
     DEF AdminStep

LEMMA AbortStep ==
  ASSUME IInv, NEW p \in Proc, Abort(p)
  PROVE  IInv'
<1>1. StoreStep BY ProcFacts, StoreUnchanged DEF Abort
<1>2. aborts' \in 0 .. MaxAborts BY ReplayAssumption DEF Abort, IInv, TypeOK
<1>3. leaked' \subseteq Blob
  <2>1. proc[p].drop \subseteq Blob BY ProcFacts DEF ProcState
  <2> QED BY <2>1 DEF Abort, IInv, TypeOK
<1> QED BY <1>1, <1>2, <1>3, FinishStep DEF Abort, IInv, TypeOK

\* The step that inserts a row: its process becomes the owner of that row.
LEMMA SaveInProgressStep ==
  ASSUME IInv, NEW p \in Proc, SaveInProgress(p)
  PROVE  IInv'
<1> USE ProcFacts DEF SaveInProgress, At
<1> DEFINE s == [proc[p] EXCEPT !.pc = "client", !.row = nextId, !.seen = {}]
<1>1. nextId \in Id /\ nextId \in Nat /\ nextId' = nextId + 1
  BY StoreAssumption DEF IInv, TypeOK, Id
<1>2. proc[p].key \in Key BY DEF LocalInv, PromotePC, CallPC
<1>3. /\ StoreInv'
      /\ execs'[nextId].state = "IN_PROGRESS"
      /\ \A i \in Id \ {nextId} : execs'[i] = execs[i]
  BY <1>1, <1>2, SaveStep
<1>4. s \in ProcState BY <1>1, FieldUpdates DEF PC
<1>5. /\ proc' \in [Proc -> ProcState] /\ proc'[p] = s
      /\ \A q \in Proc \ {p} : proc'[q] = proc[q]
  BY <1>4 DEF Become, IInv, TypeOK
<1>6. s.pc = "client" /\ s.row = nextId BY DEF ProcState
<1>7. TypeOK'
  <2>1. nextId' \in 1 .. MaxRuns + 1 BY <1>1, StoreAssumption
  <2>2. held' = held BY DEF Become
  <2> QED BY <1>3, <1>5, <2>1, <2>2 DEF IInv, TypeOK, StoreInv
<1>8. \A i : Settled(i) => Settled(i)' /\ execs'[i] = execs[i]
  <2> SUFFICES ASSUME NEW i, Settled(i)
               PROVE  Settled(i)' /\ execs'[i] = execs[i]
    OBVIOUS
  <2>1. i \in Id /\ i \in Nat /\ i < nextId BY DEF Settled, Id
  <2>2. i # nextId /\ i < nextId' BY <2>1, <1>1
  <2> QED BY <2>1, <2>2, <1>3 DEF Settled
<1>9. ClientOwnsRow'
  <2>1. ASSUME NEW q \in Proc \ {p}, proc[q].pc = "client"
        PROVE  /\ proc[q].row \in Id
               /\ proc[q].row < nextId'
               /\ proc[q].row # nextId
               /\ execs'[proc[q].row].state \in {"IN_PROGRESS", "ABSENT"}
    <3>1. proc[q].row \in Id /\ proc[q].row < nextId
          /\ execs[proc[q].row].state \in {"IN_PROGRESS", "ABSENT"}
      BY <2>1 DEF IInv, ClientOwnsRow
    <3>2. proc[q].row \in Nat BY <3>1 DEF Id
    <3>3. proc[q].row # nextId /\ proc[q].row < nextId' BY <3>1, <3>2, <1>1
    <3> QED BY <3>1, <3>3, <1>3
  <2>2. \A q, r \in Proc \ {p} : proc[q].pc = "client" /\ proc[r].pc = "client" /\ q # r
          => proc[q].row # proc[r].row
    BY DEF IInv, ClientOwnsRow
  <2>3. nextId < nextId' BY <1>1
  <2> SUFFICES ASSUME NEW q \in Proc, proc'[q].pc = "client"
               PROVE  /\ proc'[q].row \in Id
                      /\ proc'[q].row < nextId'
                      /\ execs'[proc'[q].row].state \in {"IN_PROGRESS", "ABSENT"}
                      /\ \A r \in Proc \ {q} : proc'[r].pc = "client" => proc'[r].row # proc'[q].row
    BY DEF ClientOwnsRow
  <2>4. CASE q = p
    <3>1. proc'[q].row = nextId BY <2>4, <1>5, <1>6
    <3>2. \A r \in Proc \ {q} : proc'[r].pc = "client" => proc'[r].row # nextId
      BY <2>4, <2>1, <1>5
    <3> QED BY <3>1, <3>2, <2>3, <1>1, <1>3
  <2>5. CASE q # p
    <3>1. proc'[q] = proc[q] BY <2>5, <1>5
    <3>2. \A r \in Proc \ {q} : proc'[r].pc = "client" => proc'[r].row # proc[q].row
      <4>1. ASSUME NEW r \in Proc \ {q}, proc'[r].pc = "client" PROVE proc'[r].row # proc[q].row
        <5>1. CASE r = p BY <5>1, <3>1, <2>1, <2>5, <1>5, <1>6
        <5>2. CASE r # p BY <5>2, <4>1, <3>1, <2>2, <2>5, <1>5
        <5> QED BY <5>1, <5>2
      <4> QED BY <4>1
    <3> QED BY <3>1, <3>2, <2>1, <2>5
  <2> QED BY <2>4, <2>5
<1>10. WritersOnSettledRows'
  <2>1. ASSUME NEW q \in Proc PROVE LocalInv(proc[q])'
    <3>1. CASE q = p
      <4>1. proc[p].runs = s.runs BY DEF ProcState
      <4> QED BY <3>1, <4>1, <1>5, <1>6, <1>8 DEF LocalInv, PromotePC, CallPC
    <3>2. CASE q # p
      BY <3>2, <1>5, <1>8, LocalInvKept DEF IInv, WritersOnSettledRows
    <3> QED BY <3>1, <3>2
  <2> QED BY <2>1 DEF WritersOnSettledRows
<1> QED BY <1>3, <1>7, <1>9, <1>10 DEF IInv, StoreInv

\* The steps that record an outcome: the row's owner lets go of it.
LEMMA OutcomeSteps ==
  ASSUME IInv, NEW p \in Proc, ClientAnswers(p) \/ ClientFails(p)
  PROVE  IInv'
<1> USE ProcFacts DEF At
<1>1. At(p, "client") /\ Exists(proc[p].row) /\ UNCHANGED ctlVars
  BY DEF ClientAnswers, ClientFails
<1>2. /\ proc[p].row \in Id
      /\ proc[p].row < nextId
      /\ execs[proc[p].row].state = "IN_PROGRESS"
  BY <1>1 DEF IInv, ClientOwnsRow, Exists
<1>3. PICK outcome \in {"SUCCESS", "FAILED"} : RecordOutcome(proc[p].row, outcome)
  BY DEF ClientAnswers, ClientFails
<1>4. /\ StoreInv'
      /\ execs'[proc[p].row].state = outcome
      /\ \A j \in Id \ {proc[p].row} : execs'[j] = execs[j]
  BY <1>1, <1>2, <1>3, RecordOutcomeStep
<1>5. \A i : Settled(i) => Settled(i)' /\ execs'[i] = execs[i]
  BY <1>1, <1>2, <1>4 DEF Settled, ctlVars
<1>6. execs'[proc[p].row].state # "IN_PROGRESS" /\ nextId' = nextId BY <1>1, <1>4 DEF ctlVars
<1>7. PICK s \in ProcState :
        /\ proc' = [proc EXCEPT ![p] = s]
        /\ held' \in [Proc -> SUBSET Key]
        /\ s.pc # "client"
        /\ s.pc \in {"insert", "idle"}
        /\ s.pc = "insert" => s.row = proc[p].row /\ s.doc \in Doc
        /\ s.runs \in {proc[p].runs, {}}
  <2>1. CASE ClientAnswers(p)
    <3> DEFINE s == [proc[p] EXCEPT !.pc = "insert", !.doc = 1]
    <3>1. 1 \in Doc BY StoreAssumption DEF Doc, InputDoc
    <3>2. s \in ProcState BY <3>1, FieldUpdates DEF PC
    <3>3. s.pc = "insert" /\ s.row = proc[p].row /\ s.doc = 1 /\ s.runs = proc[p].runs
      BY DEF ProcState
    <3>4. proc' = [proc EXCEPT ![p] = s] /\ held' = held
      BY <2>1 DEF ClientAnswers, Become
    <3> QED BY <3>1, <3>2, <3>3, <3>4 DEF IInv, TypeOK
  <2>2. CASE ClientFails(p)
    <3>1. proc' = [proc EXCEPT ![p] = IdleProc] /\ held' \in [Proc -> SUBSET Key]
      BY <2>2 DEF ClientFails, Finish, IInv, TypeOK
    <3>2. IdleProc.pc = "idle" /\ IdleProc.runs = {} BY DEF IdleProc
    <3> QED BY <3>1, <3>2, IdleWorks
  <2> QED BY <2>1, <2>2
<1>8. /\ proc' \in [Proc -> ProcState] /\ proc'[p] = s
      /\ \A q \in Proc \ {p} : proc'[q] = proc[q]
  BY <1>7 DEF IInv, TypeOK
<1>9. TypeOK' BY <1>1, <1>4, <1>7, <1>8 DEF IInv, TypeOK, StoreInv, ctlVars
<1>10. ClientOwnsRow'
  <2> SUFFICES ASSUME NEW q \in Proc, proc'[q].pc = "client"
               PROVE  /\ proc'[q].row \in Id
                      /\ proc'[q].row < nextId'
                      /\ execs'[proc'[q].row].state \in {"IN_PROGRESS", "ABSENT"}
                      /\ \A r \in Proc \ {q} : proc'[r].pc = "client" => proc'[r].row # proc'[q].row
    BY DEF ClientOwnsRow
  <2>1. q # p /\ proc'[q] = proc[q] BY <1>7, <1>8
  <2>2. /\ proc[q].row \in Id /\ proc[q].row < nextId
        /\ execs[proc[q].row].state \in {"IN_PROGRESS", "ABSENT"}
        /\ proc[q].row # proc[p].row
    BY <1>1, <2>1 DEF IInv, ClientOwnsRow
  <2>3. \A r \in Proc \ {q} : proc'[r].pc = "client" => proc'[r].row # proc'[q].row
    BY <1>7, <1>8, <2>1 DEF IInv, ClientOwnsRow
  <2> QED BY <1>1, <1>4, <2>1, <2>2, <2>3 DEF ctlVars
<1>11. WritersOnSettledRows'
  <2> SUFFICES ASSUME NEW q \in Proc PROVE LocalInv(proc[q])'
    BY DEF WritersOnSettledRows
  <2>1. CASE q = p
    <3>1. \A r \in s.runs : Settled(r.id)' BY <1>5, <1>7 DEF LocalInv, PromotePC
    <3>2. s.pc = "insert" => /\ s.row \in Id /\ s.row < nextId' /\ s.doc \in Doc
                             /\ execs'[s.row].state # "IN_PROGRESS"
      BY <1>2, <1>6, <1>7
    <3> QED BY <2>1, <3>1, <3>2, <1>7, <1>8 DEF LocalInv, PromotePC, CallPC, Settled
  <2>2. CASE q # p
    BY <2>2, <1>5, <1>8, LocalInvKept DEF IInv, WritersOnSettledRows
  <2> QED BY <2>1, <2>2
<1> QED BY <1>4, <1>9, <1>10, <1>11 DEF IInv, StoreInv

-----------------------------------------------------------------------------
(* The theorems.                                                           *)

\* IInv holds at the start: the stores are empty and every process is idle.
LEMMA InitInv == Init => IInv
<1> SUFFICES ASSUME Init PROVE IInv
  OBVIOUS
<1> USE DEF Init, StoreInit
<1>1. \A i \in Id : execs[i].state = "ABSENT" /\ ~execs[i].persisted BY DEF AbsentRow
<1>2. StoreTypeOK BY AbsentRowType DEF StoreTypeOK
<1>3. TypeOK
  <2>1. 1 \in 1 .. MaxRuns + 1 BY StoreAssumption
  <2>2. 0 \in 0 .. MaxFaults /\ 0 \in 0 .. MaxAborts BY ReplayAssumption
  <2> QED BY <1>2, <2>1, <2>2, IdleWorks DEF TypeOK
<1>4. AtMostOneCurrent BY <1>1 DEF AtMostOneCurrent, Servable
<1>5. UnfinishedIsBare /\ ReferencesResolve
  BY <1>1 DEF UnfinishedIsBare, ReferencesResolve, Exists
<1>6. ClientOwnsRow BY IdleWorks DEF ClientOwnsRow, At
<1>7. WritersOnSettledRows BY IdleWorks DEF WritersOnSettledRows
<1> QED BY <1>3, <1>4, <1>5, <1>6, <1>7 DEF IInv

\* IInv is inductive: one lemma per group of actions.
LEMMA NextInv == IInv /\ [Next]_vars => IInv'
<1> SUFFICES ASSUME IInv, [Next]_vars PROVE IInv'
  OBVIOUS
<1>1. ASSUME NEW p \in Proc,
             \/ StartCall(p) \/ StartPurge(p) \/ StartRepair(p)
             \/ CallStep(p) \/ AdminStep(p) \/ Abort(p)
      PROVE  IInv'
  BY <1>1, ReadSteps, StoringSteps, AdminSteps, AbortStep, SaveInProgressStep, OutcomeSteps
  DEF CallStep
<1>2. CASE UNCHANGED vars
  BY <1>2 DEF vars, storeVars, ctlVars, IInv, TypeOK, StoreTypeOK, AtMostOneCurrent,
     ReferencesResolve, UnfinishedIsBare, ClientOwnsRow, WritersOnSettledRows, LocalInv,
     PromotePC, Settled, Supersedes, Servable, Exists, At
<1> QED BY <1>1, <1>2 DEF Next

\* Every reachable state of the stores and of the processes satisfies IInv,
\* whatever calls, purges, evictions and repairs interleave.
THEOREM InvariantHolds == Spec => []IInv
BY InitInv, NextInv, PTL DEF Spec

\* Every reachable state is well typed: no transaction of the repository puts
\* a value in a column, and no handler a value in its state, that is not meant
\* to be there.
THEOREM TypeCorrect == Spec => []TypeOK
<1>1. IInv => TypeOK BY DEF IInv
<1> QED BY <1>1, InvariantHolds, PTL

\* "Current answer: at most one per key at a time" (docs/domain-model.md), for
\* every number of callers, of keys and of runs, even when lock waits run out
\* and a repair finalizes the run of a live writer.
THEOREM OneCurrentAnswer == Spec => []AtMostOneCurrent
<1>1. IInv => AtMostOneCurrent BY DEF IInv
<1> QED BY <1>1, InvariantHolds, PTL

\* The foreign keys of migration 0001 and the join of an execution with its
\* identity: no removal, whoever runs it and whatever it races, leaves an
\* artifact without its execution or an execution without its identity.
THEOREM RowsStayRebuildable == Spec => []ReferencesResolve
<1>1. IInv => ReferencesResolve BY DEF IInv
<1> QED BY <1>1, InvariantHolds, PTL
=============================================================================
