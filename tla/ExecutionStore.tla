--------------------------- MODULE ExecutionStore ---------------------------
(***************************************************************************)
(* The two stores an execution is kept in: the SQLite tables written by    *)
(* SqliteExecutionRepository and the directory of blobs written by         *)
(* FilesystemBlobStore.  Every repository method is one transaction, so    *)
(* it is one operator here, or two when what it reads before its first     *)
(* write can go stale; nothing spans the two stores atomically.            *)
(*                                                                         *)
(* Left out: the columns no rule reads (timestamps, names, failure text,   *)
(* token usage), tags, the journal, and the sizes.                         *)
(***************************************************************************)
EXTENDS Naturals, FiniteSets

CONSTANTS
  Key,          \* execution keys
  NoKey,        \* the key of a row that does not exist
  MaxRuns,      \* bound: how many execution rows are ever inserted
  NumOutputs,   \* output documents of a run: stdout, stderr and the files
  Fingerprint   \* the content fingerprint of each document

Output   == 1 .. NumOutputs
InputDoc == NumOutputs + 1
Doc      == 1 .. InputDoc

ASSUME StoreAssumption ==
  /\ NoKey \notin Key
  /\ MaxRuns \in Nat \ {0}
  /\ NumOutputs \in Nat \ {0}
  /\ Fingerprint \in [Doc -> Nat]

\* An execution's id (execution_id, a UUID), numbered in insertion order.  The
\* INTEGER PRIMARY KEY keeps that order too: a new row gets the largest plus one.
\* That the number of a deleted newest row is then given out again is left out:
\* a statement that uses a number read before the deletion finds no row here.
Id == 1 .. MaxRuns

RunState  == {"ABSENT", "IN_PROGRESS", "SUCCESS", "FAILED"}
Status    == {"PENDING", "STORED", "FAILED"}
Execution == [key : Key \cup {NoKey}, state : RunState,
              persisted : BOOLEAN, superseded : BOOLEAN]
Artifact  == [exec : Id, doc : Doc, owner : Id, status : Status]
Blob      == Id \X Nat

VARIABLES
  execs,       \* table executions, with state ABSENT where there is no row
  artifacts,   \* table artifacts
  identities,  \* table call_identities: the keys that have a row
  blobs        \* the files in the blob directory, by blob key

storeVars == <<execs, artifacts, identities, blobs>>

StoreTypeOK ==
  /\ execs \in [Id -> Execution]
  /\ artifacts \subseteq Artifact
  /\ identities \subseteq Key
  /\ blobs \subseteq Blob

AbsentRow ==
  [key |-> NoKey, state |-> "ABSENT", persisted |-> FALSE, superseded |-> FALSE]

StoreInit ==
  /\ execs = [i \in Id |-> AbsentRow]
  /\ artifacts = {}
  /\ identities = {}
  /\ blobs = {}

-----------------------------------------------------------------------------
(* Queries.                                                                *)

\* BlobKey.for_execution: the owning execution and the content fingerprint.
BlobKey(owner, doc) == <<owner, Fingerprint[doc]>>
BlobOf(a) == BlobKey(a.owner, a.doc)

Exists(i)     == execs[i].state # "ABSENT"
RowsOf(k)     == {i \in Id : Exists(i) /\ execs[i].key = k}
ArtifactsOf(i) == {a \in artifacts : a.exec = i}

\* The WHERE clause every reader of a "current" execution uses.
Servable(i) ==
  /\ execs[i].state = "SUCCESS"
  /\ execs[i].persisted
  /\ ~execs[i].superseded

CurrentOf(k) == {i \in Id : Servable(i) /\ execs[i].key = k}

\* ORDER BY id DESC LIMIT 1.
IsNewest(i, S) == i \in S /\ \A j \in S : j <= i

\* The artifact rows an UPDATE ... WHERE blob_key AND execution_id selects.
Matching(i, b) == {a \in ArtifactsOf(i) : BlobOf(a) = b}

HasInput(i) == \E a \in ArtifactsOf(i) : a.doc = InputDoc

\* The newest row of each key, when it is unpersisted and has documents that
\* are not STORED, with the blob keys of those documents.
AwaitingPersistence ==
  {[id |-> i, blobs |-> {BlobOf(a) : a \in {x \in ArtifactsOf(i) : x.status # "STORED"}}] :
     i \in {j \in Id : /\ Exists(j)
                       /\ ~execs[j].persisted
                       /\ IsNewest(j, RowsOf(execs[j].key))
                       /\ \E a \in ArtifactsOf(j) : a.status # "STORED"}}

-----------------------------------------------------------------------------
(* Transactions of the repository.                                         *)

Save(i, k) ==
  /\ execs' = [execs EXCEPT ![i] = [key |-> k, state |-> "IN_PROGRESS",
                                    persisted |-> FALSE, superseded |-> FALSE]]
  /\ identities' = identities \cup {k}
  /\ UNCHANGED <<artifacts, blobs>>

RecordOutcome(i, outcome) ==
  /\ execs' = [execs EXCEPT ![i].state = outcome]
  /\ UNCHANGED <<artifacts, identities, blobs>>

PersistArtifact(i, d) ==
  /\ artifacts' = artifacts \cup {[exec |-> i, doc |-> d, owner |-> i, status |-> "PENDING"]}
  /\ UNCHANGED <<execs, identities, blobs>>

\* Defective variant: the run's outcome is written where a status belongs.
MarkArtifactsWithOutcome(i, b, s) ==
  /\ artifacts' = (artifacts \ Matching(i, b)) \cup
                  {[a EXCEPT !.status = execs[i].state] : a \in Matching(i, b)}
  /\ UNCHANGED <<execs, identities, blobs>>

MarkArtifacts(i, b, s) ==
  /\ artifacts' = (artifacts \ Matching(i, b)) \cup
                  {[a EXCEPT !.status = s] : a \in Matching(i, b)}
  /\ UNCHANGED <<execs, identities, blobs>>

\* The checks of finalize_output_persisted: SELECTs, which the driver runs
\* before the transaction its first UPDATE opens.
CanFinalize(i) ==
  /\ Exists(i)
  /\ \A a \in ArtifactsOf(i) : a.status = "STORED"

\* Defective variant: a kept failure displaces the prior answer too.
SupersedesOnAnyOutcome(i) == execs[i].key

\* The key whose current answer a finalize of row i replaces: a kept failure
\* replaces none.
Supersedes(i) == IF execs[i].state = "SUCCESS" THEN execs[i].key ELSE NoKey

\* Defective variant: the prior answer is left current.
SupersedeNothing(k, j) == FALSE

\* _supersede_prior_current: every current row of the key, the promoted one
\* included when it is already current.
SupersededBy(k, j) == Servable(j) /\ execs[j].key = k

\* The writes of finalize_output_persisted; a row deleted since its checks is
\* updated in vain.
Promote(i, k) ==
  /\ execs' = [j \in Id |->
       [execs[j] EXCEPT !.superseded = @ \/ SupersededBy(k, j),
                        !.persisted = @ \/ (j = i /\ Exists(j))]]
  /\ UNCHANGED <<artifacts, identities, blobs>>

\* Defective variant: the identity goes although the key has other rows.
RemoveExecutionAndIdentity(i) ==
  IF Exists(i)
  THEN /\ execs' = [execs EXCEPT ![i] = AbsentRow]
       /\ artifacts' = artifacts \ ArtifactsOf(i)
       /\ identities' = identities \ {execs[i].key}
       /\ UNCHANGED blobs
  ELSE UNCHANGED storeVars

RemoveExecution(i) ==
  IF Exists(i)
  THEN /\ execs' = [execs EXCEPT ![i] = AbsentRow]
       /\ artifacts' = artifacts \ ArtifactsOf(i)
       /\ identities' = IF RowsOf(execs[i].key) = {i}
                        THEN identities \ {execs[i].key} ELSE identities
       /\ UNCHANGED blobs
  ELSE UNCHANGED storeVars

\* Attach the PENDING input document to the current row, unless it has one.
AddInputArtifacts(k, owner) ==
  /\ artifacts' = artifacts \cup
       {[exec |-> i, doc |-> InputDoc, owner |-> owner, status |-> "PENDING"] :
          i \in {j \in Id : IsNewest(j, CurrentOf(k)) /\ ~HasInput(j)}}
  /\ UNCHANGED <<execs, identities, blobs>>

SoftPurgeExecution(k) ==
  /\ artifacts' = {a \in artifacts : a.exec \notin RowsOf(k)}
  /\ execs' = [i \in Id |->
       IF i \in RowsOf(k) THEN [execs[i] EXCEPT !.persisted = FALSE] ELSE execs[i]]
  /\ UNCHANGED <<identities, blobs>>

HardDeleteExecution(k) ==
  /\ artifacts' = {a \in artifacts : a.exec \notin RowsOf(k)}
  /\ execs' = [i \in Id |-> IF i \in RowsOf(k) THEN AbsentRow ELSE execs[i]]
  /\ identities' = identities \ {k}
  /\ UNCHANGED blobs

(* Operations of the blob store: put replaces atomically, remove is a no-op *)
(* on a key that has no file.                                               *)

PutBlob(b) ==
  /\ blobs' = blobs \cup {b}
  /\ UNCHANGED <<execs, artifacts, identities>>

RemoveBlob(b) ==
  /\ blobs' = blobs \ {b}
  /\ UNCHANGED <<execs, artifacts, identities>>
=============================================================================
