---------------------------- MODULE RecordReplay ----------------------------
(***************************************************************************)
(* Record and replay: the processes that share one store directory.  A     *)
(* process is a CLI invocation or a thread of the daemon; it executes      *)
(* calls (CachedMlExecutionService), purges and evicts (PurgeService) or   *)
(* repairs (RepairStoreService).  Each repository transaction, each blob   *)
(* operation and each lock acquisition is one step, so everything another  *)
(* process can see between two of them is a state here.                    *)
(*                                                                         *)
(* The per-key lock is taken as a mutex whose bounded wait may run out     *)
(* (LockTimeouts); its two levels are the subject of ExecutionKeyLock.     *)
(***************************************************************************)
EXTENDS ExecutionStore

CONSTANTS
  Proc,          \* the processes
  Modes,         \* cache modes callers use, of CACHE, REFRESH and OFFLINE
  Depths,        \* whether input is kept: {FALSE} = CACHE, {TRUE} = DATASET
  Admin,         \* what else happens, of SOFT, HARD, REPAIR and EVICT
  LockTimeouts,  \* whether a wait for the key lock may reach its deadline
  MaxFaults,     \* bound: blob writes and status updates that fail
  MaxAborts      \* bound: processes that die or let an exception escape

ASSUME ReplayAssumption ==
  /\ Modes \subseteq {"CACHE", "REFRESH", "OFFLINE"}
  /\ Depths \subseteq BOOLEAN
  /\ Admin \subseteq {"SOFT", "HARD", "REPAIR", "EVICT"}
  /\ LockTimeouts \in BOOLEAN
  /\ MaxFaults \in Nat
  /\ MaxAborts \in Nat

VARIABLES
  proc,      \* what each process is doing
  held,      \* the key locks each process holds
  nextId,    \* the id the next inserted execution gets
  faults,    \* failures injected so far
  aborts,    \* aborts so far
  leaked     \* blobs an aborted purge had still to remove

ctlVars == <<nextId, faults, aborts, leaked>>
vars == <<storeVars, proc, held, ctlVars>>

CallMode == {"CACHE", "REFRESH", "OFFLINE"}
PC == {"idle", "find", "load", "hydrate", "hit", "heal", "acquire", "save",
       "client", "insert", "put", "mark", "finalize", "promote", "recorded",
       "fillAcquire", "fillRead", "fillAdd",
       "purgeAcquire", "purgeRead", "purgeRows", "purgeBlobs",
       "repairNext", "repairGet", "repairMark", "repairFinalize", "repairPromote"}
Run == [id : Id, blobs : SUBSET Blob]
NoBlob == <<0, 0>>

ProcState ==
  [pc : PC,
   mode : CallMode \cup {"SOFT", "HARD", "REPAIR"},
   key : Key \cup {NoKey},        \* the key of the call
   dataset : BOOLEAN,             \* the call wants its input kept
   locked : BOOLEAN,              \* inside the key's critical section
   filling : BOOLEAN,             \* storing a back-filled input document
   row : Id \cup {0},             \* the execution read, recorded or repaired
   seen : SUBSET Artifact,        \* the artifacts read with that execution
   doc : Doc \cup {0},            \* the document being persisted
   ok : BOOLEAN,                  \* all_stored, all_present
   supersede : Key \cup {NoKey},  \* the key whose answer the row is to replace
   drop : SUBSET Blob,            \* blobs still to remove or to reconcile
   blob : Blob \cup {NoBlob},     \* the blob being reconciled
   found : BOOLEAN,               \* whether that blob was there
   victims : SUBSET Key,          \* keys still to purge
   victim : Key \cup {NoKey},     \* the key being purged
   runs : SUBSET Run]             \* runs still to repair

IdleProc ==
  [pc |-> "idle", mode |-> "CACHE", key |-> NoKey, dataset |-> FALSE,
   locked |-> FALSE, filling |-> FALSE, row |-> 0, seen |-> {}, doc |-> 0,
   ok |-> TRUE, supersede |-> NoKey, drop |-> {}, blob |-> NoBlob, found |-> FALSE,
   victims |-> {}, victim |-> NoKey, runs |-> {}]

TypeOK ==
  /\ StoreTypeOK
  /\ proc \in [Proc -> ProcState]
  /\ held \in [Proc -> SUBSET Key]
  /\ nextId \in 1 .. MaxRuns + 1
  /\ faults \in 0 .. MaxFaults
  /\ aborts \in 0 .. MaxAborts
  /\ leaked \subseteq Blob

Init ==
  /\ StoreInit
  /\ proc = [p \in Proc |-> IdleProc]
  /\ held = [p \in Proc |-> {}]
  /\ nextId = 1
  /\ faults = 0
  /\ aborts = 0
  /\ leaked = {}

-----------------------------------------------------------------------------
(* Moving a process, and the key lock.                                     *)

At(p, label) == proc[p].pc = label

Become(p, state) == proc' = [proc EXCEPT ![p] = state] /\ UNCHANGED held
Go(p, label) == Become(p, [proc[p] EXCEPT !.pc = label])

\* The call returns or raises: every lock is released on the way out.
Finish(p) ==
  /\ proc' = [proc EXCEPT ![p] = IdleProc]
  /\ held' = [held EXCEPT ![p] = {}]

HeldByOther(p, k) == \E q \in Proc \ {p} : k \in held[q]

\* A caller inside the critical section of k enters it again at once: the lock
\* is re-entrant, whether or not the first wait ran out.
Inside(p, k) == proc[p].locked /\ k = proc[p].key

\* Defective variant: nobody waits for anybody.
AcquireKeyUnguarded(p, k, state) ==
  /\ proc' = [proc EXCEPT ![p] = state]
  /\ held' = [held EXCEPT ![p] = @ \cup {k}]

\* Defective variant: the wait has no deadline.
AcquireKeyForever(p, k, state) ==
  /\ ~HeldByOther(p, k)
  /\ proc' = [proc EXCEPT ![p] = state]
  /\ held' = [held EXCEPT ![p] = @ \cup {k}]

\* Waiting for the lock of k ends by getting it or, past the deadline, by
\* going on without it.
AcquireKey(p, k, state) ==
  /\ proc' = [proc EXCEPT ![p] = state]
  /\ \/ Inside(p, k) /\ UNCHANGED held
     \/ /\ ~Inside(p, k)
        /\ ~HeldByOther(p, k)
        /\ held' = [held EXCEPT ![p] = @ \cup {k}]
     \/ /\ ~Inside(p, k)
        /\ HeldByOther(p, k)
        /\ LockTimeouts
        /\ UNCHANGED held

NoFault == UNCHANGED faults
Fault   == faults < MaxFaults /\ faults' = faults + 1

-----------------------------------------------------------------------------
(* execute: looking for a current answer.                                  *)

StartCall(p) ==
  /\ At(p, "idle")
  /\ \E k \in Key, m \in Modes, ds \in Depths :
       Become(p, [IdleProc EXCEPT !.pc = IF m = "REFRESH" THEN "acquire" ELSE "find",
                                  !.mode = m, !.key = k, !.dataset = ds])
  /\ UNCHANGED <<storeVars, ctlVars>>

\* Defective variant: an OFFLINE call that finds nothing goes on to run.
MissRunsOffline(p) == Go(p, IF proc[p].locked THEN "save" ELSE "acquire")

\* A miss: the end of an OFFLINE call; otherwise the caller goes for the
\* lock, or runs the client when it already re-checked under the lock.
Miss(p) ==
  IF proc[p].mode = "OFFLINE" THEN Finish(p)
  ELSE Go(p, IF proc[p].locked THEN "save" ELSE "acquire")

\* find_current's first SELECT.
FindCurrent(p) ==
  /\ At(p, "find")
  /\ \/ /\ CurrentOf(proc[p].key) = {}
        /\ Miss(p)
     \/ \E i \in Id :
          /\ IsNewest(i, CurrentOf(proc[p].key))
          /\ Become(p, [proc[p] EXCEPT !.pc = "load", !.row = i])
  /\ UNCHANGED <<storeVars, ctlVars>>

\* find_current's later SELECTs, in a snapshot of their own: the artifacts and
\* the identity.  Without an identity row the execution cannot be rebuilt and
\* the entry counts as a miss.
LoadExecution(p) ==
  /\ At(p, "load")
  /\ IF proc[p].key \in identities
     THEN Become(p, [proc[p] EXCEPT !.pc = "hydrate", !.seen = ArtifactsOf(proc[p].row)])
     ELSE Miss(p)
  /\ UNCHANGED <<storeVars, ctlVars>>

SeenBlobs(p) == {BlobOf(a) : a \in proc[p].seen}

\* _hydrate reads the blob of every artifact, whatever its status.
Hydrate(p) ==
  /\ At(p, "hydrate")
  /\ IF SeenBlobs(p) \subseteq blobs THEN Go(p, "hit")
     ELSE IF proc[p].mode = "OFFLINE" THEN Finish(p)
     ELSE Become(p, [proc[p] EXCEPT !.pc = "heal", !.drop = SeenBlobs(p), !.seen = {}])
  /\ UNCHANGED <<storeVars, ctlVars>>

SeenInput(p) == \E a \in proc[p].seen : a.doc = InputDoc

\* The hit is returned, after back-filling the input when the caller now
\* wants it and the entry read does not have it.
ServeHit(p) ==
  /\ At(p, "hit")
  /\ IF proc[p].dataset /\ ~SeenInput(p) THEN Go(p, "fillAcquire") ELSE Finish(p)
  /\ UNCHANGED <<storeVars, ctlVars>>

-----------------------------------------------------------------------------
(* _remove_execution_and_blobs: self-healing, blobs first, then the rows.  *)

HealBlob(p) ==
  /\ At(p, "heal")
  /\ \E b \in proc[p].drop :
       /\ RemoveBlob(b)
       /\ Become(p, [proc[p] EXCEPT !.drop = @ \ {b}])
  /\ UNCHANGED ctlVars

HealRows(p) ==
  /\ At(p, "heal")
  /\ proc[p].drop = {}
  /\ RemoveExecution(proc[p].row)
  /\ Miss(p)
  /\ UNCHANGED ctlVars

-----------------------------------------------------------------------------
(* _run_fresh_locked.                                                      *)

\* Defective variant: the caller does not look again under the lock.
AcquireWithoutRecheck(p) ==
  /\ At(p, "acquire")
  /\ AcquireKey(p, proc[p].key,
       [proc[p] EXCEPT !.pc = "save", !.locked = TRUE, !.row = 0, !.seen = {}])
  /\ UNCHANGED <<storeVars, ctlVars>>

\* A CACHE call looks again under the lock; a REFRESH call goes on to run.
Acquire(p) ==
  /\ At(p, "acquire")
  /\ AcquireKey(p, proc[p].key,
       [proc[p] EXCEPT !.pc = IF proc[p].mode = "CACHE" THEN "find" ELSE "save",
                       !.locked = TRUE, !.row = 0, !.seen = {}])
  /\ UNCHANGED <<storeVars, ctlVars>>

SaveInProgress(p) ==
  /\ At(p, "save")
  /\ nextId <= MaxRuns
  /\ Save(nextId, proc[p].key)
  /\ Become(p, [proc[p] EXCEPT !.pc = "client", !.row = nextId, !.seen = {}])
  /\ nextId' = nextId + 1
  /\ UNCHANGED <<faults, aborts, leaked>>

\* The insert raises (the health gate of a DATASET call raises before it); the
\* model also ends a call here that would exceed MaxRuns.
SaveFails(p) ==
  /\ At(p, "save")
  /\ nextId > MaxRuns
  /\ Finish(p)
  /\ UNCHANGED <<storeVars, ctlVars>>

\* The client answered and the run is to be kept: a success, or a failure
\* under record_on_error.
ClientAnswers(p) ==
  /\ At(p, "client")
  /\ Exists(proc[p].row)
  /\ \E outcome \in {"SUCCESS", "FAILED"} : RecordOutcome(proc[p].row, outcome)
  /\ Become(p, [proc[p] EXCEPT !.pc = "insert", !.doc = 1])
  /\ UNCHANGED ctlVars

\* Defective variant: the row of a failed run is left as it is.
ClientFailsUnrecorded(p) ==
  /\ At(p, "client")
  /\ Finish(p)
  /\ UNCHANGED <<storeVars, ctlVars>>

\* The client failed and the failure is not kept, or it raised.
ClientFails(p) ==
  /\ At(p, "client")
  /\ Exists(proc[p].row)
  /\ RecordOutcome(proc[p].row, "FAILED")
  /\ Finish(p)
  /\ UNCHANGED ctlVars

\* RunInterrupted: a requested stop leaves no record.
ClientInterrupted(p) ==
  /\ At(p, "client")
  /\ RemoveExecution(proc[p].row)
  /\ Finish(p)
  /\ UNCHANGED ctlVars

\* The row was deleted meanwhile: StoreConsistencyError, at the outcome or
\* at the next document.
RowGone(p) ==
  /\ proc[p].pc \in {"client", "insert"}
  /\ ~Exists(proc[p].row)
  /\ Finish(p)
  /\ UNCHANGED <<storeVars, ctlVars>>

-----------------------------------------------------------------------------
(* _persist_documents and _store_blob, one document at a time.             *)

InsertArtifact(p) ==
  /\ At(p, "insert")
  /\ Exists(proc[p].row)
  /\ PersistArtifact(proc[p].row, proc[p].doc)
  /\ Go(p, "put")
  /\ UNCHANGED ctlVars

OwnBlob(p) == BlobKey(proc[p].row, proc[p].doc)

Put(p) ==
  /\ At(p, "put")
  /\ PutBlob(OwnBlob(p))
  /\ Go(p, "mark")
  /\ UNCHANGED ctlVars

LastDoc(p) == IF proc[p].dataset THEN InputDoc ELSE NumOutputs

\* Defective variant: the last document is skipped.
NextDocumentSkipsLast(p, ok) ==
  IF proc[p].filling THEN Finish(p)
  ELSE IF proc[p].doc < LastDoc(p) - 1
  THEN Become(p, [proc[p] EXCEPT !.pc = "insert", !.doc = @ + 1, !.ok = ok])
  ELSE Become(p, [proc[p] EXCEPT !.pc = "finalize", !.ok = ok])

\* On to the next document, with what is known of the ones so far.  A
\* back-fill stores one document and then the hit is returned.
NextDocument(p, ok) ==
  IF proc[p].filling THEN Finish(p)
  ELSE IF proc[p].doc < LastDoc(p)
  THEN Become(p, [proc[p] EXCEPT !.pc = "insert", !.doc = @ + 1, !.ok = ok])
  ELSE Become(p, [proc[p] EXCEPT !.pc = "finalize", !.ok = ok])

\* The write failed and the document is marked FAILED; when there is no row
\* to mark, the error escapes.
PutFails(p) ==
  /\ At(p, "put")
  /\ Fault
  /\ IF Matching(proc[p].row, OwnBlob(p)) = {}
     THEN Finish(p) /\ UNCHANGED storeVars
     ELSE /\ MarkArtifacts(proc[p].row, OwnBlob(p), "FAILED")
          /\ NextDocument(p, FALSE)
  /\ UNCHANGED <<nextId, aborts, leaked>>

MarkStored(p) ==
  /\ At(p, "mark")
  /\ Matching(proc[p].row, OwnBlob(p)) # {}
  /\ MarkArtifacts(proc[p].row, OwnBlob(p), "STORED")
  /\ NextDocument(p, proc[p].ok)
  /\ UNCHANGED ctlVars

\* The blob is there and the update failed, or found no row: the document
\* stays PENDING for a repair.
MarkFails(p) ==
  /\ At(p, "mark")
  /\ IF Matching(proc[p].row, OwnBlob(p)) = {} THEN NoFault ELSE Fault
  /\ NextDocument(p, FALSE)
  /\ UNCHANGED <<storeVars, nextId, aborts, leaked>>

\* Go on to promote the row, with what was read of it.
ToPromote(p, label) ==
  Become(p, [proc[p] EXCEPT !.pc = label, !.supersede = Supersedes(proc[p].row)])

PromoteRow(p, label) ==
  /\ Promote(proc[p].row, proc[p].supersede)
  /\ Become(p, [proc[p] EXCEPT !.pc = label, !.supersede = NoKey])

\* Defective variant: an incomplete run is promoted as well.
FinalizeIncompleteRun(p) ==
  /\ At(p, "finalize")
  /\ ToPromote(p, "promote")
  /\ UNCHANGED <<storeVars, ctlVars>>

\* Finalize the run when every document was stored; finalize checks that
\* again and raises when it does not hold.
FinalizeRun(p) ==
  /\ At(p, "finalize")
  /\ IF proc[p].ok /\ CanFinalize(proc[p].row) THEN ToPromote(p, "promote") ELSE Finish(p)
  /\ UNCHANGED <<storeVars, ctlVars>>

PromoteRun(p) ==
  /\ At(p, "promote")
  /\ PromoteRow(p, "recorded")
  /\ UNCHANGED ctlVars

\* _after_record: with a quota, evict other current entries while the
\* recorded key is still locked.
AfterRecord(p) ==
  /\ At(p, "recorded")
  /\ \/ Finish(p)
     \/ /\ "EVICT" \in Admin
        /\ \E ks \in SUBSET {k \in Key : CurrentOf(k) # {}} :
             /\ ks # {}
             /\ Become(p, [proc[p] EXCEPT !.pc = "purgeAcquire", !.victims = ks])
  /\ UNCHANGED <<storeVars, ctlVars>>

-----------------------------------------------------------------------------
(* _accumulate_input: back-filling the input document on a hit.            *)

FillAcquire(p) ==
  /\ At(p, "fillAcquire")
  /\ AcquireKey(p, proc[p].key, [proc[p] EXCEPT !.pc = "fillRead", !.row = 0, !.seen = {}])
  /\ UNCHANGED <<storeVars, ctlVars>>

FillRead(p) ==
  /\ At(p, "fillRead")
  /\ \/ /\ \A i \in CurrentOf(proc[p].key) :
             IsNewest(i, CurrentOf(proc[p].key)) => HasInput(i)
        /\ Finish(p)
     \/ \E i \in Id :
          /\ IsNewest(i, CurrentOf(proc[p].key))
          /\ ~HasInput(i)
          /\ Become(p, [proc[p] EXCEPT !.pc = "fillAdd", !.row = i, !.doc = InputDoc,
                                       !.filling = TRUE])
  /\ UNCHANGED <<storeVars, ctlVars>>

FillAdd(p) ==
  /\ At(p, "fillAdd")
  /\ AddInputArtifacts(proc[p].key, proc[p].row)
  /\ Go(p, "put")
  /\ UNCHANGED ctlVars

-----------------------------------------------------------------------------
(* PurgeService: one key at a time under its lock; the rows go before the  *)
(* blobs.  An eviction runs the same steps inside the recording call.      *)

StartPurge(p) ==
  /\ At(p, "idle")
  /\ \E m \in Admin \cap {"SOFT", "HARD"}, ks \in SUBSET Key :
       /\ ks # {}
       /\ Become(p, [IdleProc EXCEPT !.pc = "purgeAcquire", !.mode = m, !.victims = ks])
  /\ UNCHANGED <<storeVars, ctlVars>>

PurgeAcquire(p) ==
  /\ At(p, "purgeAcquire")
  /\ \E k \in proc[p].victims :
       AcquireKey(p, k, [proc[p] EXCEPT !.pc = "purgeRead", !.victim = k,
                                        !.victims = @ \ {k}])
  /\ UNCHANGED <<storeVars, ctlVars>>

\* Defective variant: only documents known to be stored are looked at.
PurgeReadStored(p) ==
  /\ At(p, "purgeRead")
  /\ Become(p, [proc[p] EXCEPT !.pc = "purgeRows",
       !.drop = {BlobOf(a) : a \in {x \in artifacts : /\ x.exec \in RowsOf(proc[p].victim)
                                                     /\ x.status = "STORED"}}])
  /\ UNCHANGED <<storeVars, ctlVars>>

\* _blob_sizes_for: the blobs every row of the key names, whatever their status.
PurgeRead(p) ==
  /\ At(p, "purgeRead")
  /\ Become(p, [proc[p] EXCEPT !.pc = "purgeRows",
       !.drop = {BlobOf(a) : a \in {x \in artifacts : x.exec \in RowsOf(proc[p].victim)}}])
  /\ UNCHANGED <<storeVars, ctlVars>>

PurgeRows(p) ==
  /\ At(p, "purgeRows")
  /\ IF proc[p].mode = "HARD"
     THEN HardDeleteExecution(proc[p].victim)
     ELSE SoftPurgeExecution(proc[p].victim)
  /\ Go(p, "purgeBlobs")
  /\ UNCHANGED ctlVars

PurgeBlob(p) ==
  /\ At(p, "purgeBlobs")
  /\ \E b \in proc[p].drop :
       /\ RemoveBlob(b)
       /\ Become(p, [proc[p] EXCEPT !.drop = @ \ {b}])
  /\ UNCHANGED ctlVars

\* Release this victim, unless it is the key the caller is recording.
PurgeNext(p) ==
  /\ At(p, "purgeBlobs")
  /\ proc[p].drop = {}
  /\ IF proc[p].victims = {} THEN Finish(p)
     ELSE /\ proc' = [proc EXCEPT ![p].pc = "purgeAcquire", ![p].victim = NoKey]
          /\ held' = [held EXCEPT ![p] = @ \ ({proc[p].victim} \ {proc[p].key})]
  /\ UNCHANGED <<storeVars, ctlVars>>

-----------------------------------------------------------------------------
(* RepairStoreService.repair: no lock is taken.                            *)

StartRepair(p) ==
  /\ At(p, "idle")
  /\ "REPAIR" \in Admin
  /\ Become(p, [IdleProc EXCEPT !.pc = "repairNext", !.mode = "REPAIR",
                                !.runs = AwaitingPersistence])
  /\ UNCHANGED <<storeVars, ctlVars>>

RepairNext(p) ==
  /\ At(p, "repairNext")
  /\ \/ proc[p].runs = {} /\ Finish(p)
     \/ \E r \in proc[p].runs :
          Become(p, [proc[p] EXCEPT !.pc = "repairGet", !.runs = @ \ {r}, !.row = r.id,
                                    !.drop = r.blobs, !.ok = TRUE])
  /\ UNCHANGED <<storeVars, ctlVars>>

RepairGet(p) ==
  /\ At(p, "repairGet")
  /\ \/ proc[p].drop = {} /\ Go(p, "repairFinalize")
     \/ \E b \in proc[p].drop :
          Become(p, [proc[p] EXCEPT !.pc = "repairMark", !.drop = @ \ {b}, !.blob = b,
                                    !.found = b \in blobs, !.ok = @ /\ b \in blobs])
  /\ UNCHANGED <<storeVars, ctlVars>>

\* An update that finds no row raises and ends the whole repair.
RepairMark(p) ==
  /\ At(p, "repairMark")
  /\ IF Matching(proc[p].row, proc[p].blob) = {}
     THEN Finish(p) /\ UNCHANGED storeVars
     ELSE /\ MarkArtifacts(proc[p].row, proc[p].blob,
                           IF proc[p].found THEN "STORED" ELSE "FAILED")
          /\ Become(p, [proc[p] EXCEPT !.pc = "repairGet", !.blob = NoBlob, !.found = FALSE])
  /\ UNCHANGED ctlVars

RepairFinalize(p) ==
  /\ At(p, "repairFinalize")
  /\ IF ~proc[p].ok THEN Go(p, "repairNext")
     ELSE IF CanFinalize(proc[p].row) THEN ToPromote(p, "repairPromote")
     ELSE Finish(p)
  /\ UNCHANGED <<storeVars, ctlVars>>

RepairPromote(p) ==
  /\ At(p, "repairPromote")
  /\ PromoteRow(p, "repairNext")
  /\ UNCHANGED ctlVars

-----------------------------------------------------------------------------
(* The process dies, or lives on after an exception its code does not      *)
(* handle has ended the operation: a locked database, a blob that cannot   *)
(* be read or removed, the health gate, and while it runs the client a     *)
(* record_outcome or remove_execution that raises, or anything that is no  *)
(* Exception, which leave the row as it is.  Its locks are released.       *)

Abort(p) ==
  /\ ~At(p, "idle")
  /\ aborts < MaxAborts
  /\ aborts' = aborts + 1
  /\ leaked' = leaked \cup (IF At(p, "purgeBlobs") THEN proc[p].drop ELSE {})
  /\ Finish(p)
  /\ UNCHANGED <<storeVars, nextId, faults>>

CallStep(p) ==
  \/ FindCurrent(p) \/ LoadExecution(p) \/ Hydrate(p) \/ ServeHit(p)
  \/ HealBlob(p) \/ HealRows(p)
  \/ Acquire(p) \/ SaveInProgress(p) \/ SaveFails(p)
  \/ ClientAnswers(p) \/ ClientFails(p) \/ ClientInterrupted(p) \/ RowGone(p)
  \/ InsertArtifact(p) \/ Put(p) \/ PutFails(p) \/ MarkStored(p) \/ MarkFails(p)
  \/ FinalizeRun(p) \/ PromoteRun(p) \/ AfterRecord(p)
  \/ FillAcquire(p) \/ FillRead(p) \/ FillAdd(p)

AdminStep(p) ==
  \/ PurgeAcquire(p) \/ PurgeRead(p) \/ PurgeRows(p) \/ PurgeBlob(p) \/ PurgeNext(p)
  \/ RepairNext(p) \/ RepairGet(p) \/ RepairMark(p) \/ RepairFinalize(p)
  \/ RepairPromote(p)

Next == \E p \in Proc :
  \/ StartCall(p) \/ StartPurge(p) \/ StartRepair(p)
  \/ CallStep(p) \/ AdminStep(p) \/ Abort(p)

Spec == Init /\ [][Next]_vars

\* A process that is not idle keeps running: the client call is bounded by its
\* timeout and the operating system schedules every process.
Fairness == \A p \in Proc : WF_vars(CallStep(p) \/ AdminStep(p))

FairSpec == Spec /\ Fairness

-----------------------------------------------------------------------------
(* Properties.                                                             *)

\* At most one execution of a key is current (docs/domain-model.md, "Current
\* answer"), whatever two writers, a repair and a purge do to it.
AtMostOneCurrent ==
  \A i, j \in Id : Servable(i) /\ Servable(j) /\ execs[i].key = execs[j].key => i = j

\* An execution that can be served has each of its output documents STORED and
\* its bytes in the blob store (ArtifactStatus, artifact.py).
ServableIsComplete ==
  \A i \in Id : Servable(i) =>
    \A d \in Output : \E a \in ArtifactsOf(i) :
      a.doc = d /\ a.status = "STORED" /\ BlobOf(a) \in blobs

\* Every artifact row belongs to an execution row and every execution row has
\* its key's identity: no removal cuts a row off from what it is rebuilt from.
ReferencesResolve ==
  /\ \A a \in artifacts : Exists(a.exec)
  /\ \A i \in Id : Exists(i) => execs[i].key \in identities

\* Every blob is named by an artifact row, or a purge is about to remove it or
\* died before it could (DB-first ordering, _persist_documents).
NoUntrackedBlob ==
  blobs \subseteq
    {BlobOf(a) : a \in artifacts} \cup leaked \cup
    UNION {proc[p].drop : p \in {q \in Proc : At(q, "purgeBlobs")}}

\* Record once: no two processes run the client for one key, and a CACHE call
\* runs it only while the key has no current answer (_run_fresh_locked).
RecordOnce ==
  \A p \in Proc : At(p, "client") =>
    /\ proc[p].mode = "CACHE" => CurrentOf(proc[p].key) = {}
    /\ \A q \in Proc \ {p} : ~(At(q, "client") /\ proc[q].key = proc[p].key)

\* What a hit returns is the whole output of a run, or none of it: never a part
\* (find_current reads all the artifacts in one SELECT).
HitAllOrNothing ==
  \A p \in Proc : At(p, "hit") =>
    {a.doc : a \in proc[p].seen} \cap Output \in {{}, Output}

\* What a hit returns is the whole output of the run: byte-for-byte replay.
HitIsComplete ==
  \A p \in Proc : At(p, "hit") => Output \subseteq {a.doc : a \in proc[p].seen}

\* A key loses its current answer to nothing but a purge of that key or the
\* quarantine of that very entry: a refresh that fails, dies or is superseded
\* keeps the old answer serving until the new one takes over in one step.
AnswerNeverLost ==
  [][\A k \in Key : CurrentOf(k) # {} /\ CurrentOf(k)' = {} =>
       \E p \in Proc :
         \/ At(p, "purgeRows") /\ proc[p].victim = k
         \/ At(p, "heal") /\ proc[p].row \in CurrentOf(k)]_vars

\* A newer answer is never displaced by an older run.
CurrentMovesForward ==
  [][\A k \in Key : \A i \in CurrentOf(k), j \in CurrentOf(k)' : i <= j]_vars

\* A self-healing read removes an execution only when its output really cannot
\* be read: a document of its output is not STORED or its bytes are gone.
QuarantineOnlyBroken ==
  [][\A p \in Proc :
       /\ ~At(p, "heal") /\ At(p, "heal")'
       /\ Servable(proc[p].row)
       => \E d \in Output : \A a \in ArtifactsOf(proc[p].row) :
            a.doc = d => a.status # "STORED" \/ BlobOf(a) \notin blobs]_vars

\* A run is IN_PROGRESS only while its process is still running the client: every
\* way out of the call settles or removes the row (_run_fresh_locked), and whatever
\* the others do, no settled row is opened again.  A row stays open only if the
\* process dies right there, or if recording the outcome or removing the row raises.
Running(i) == \E p \in Proc : At(p, "client") /\ proc[p].row = i
LeftOpen   == {i \in Id : execs[i].state = "IN_PROGRESS" /\ ~Running(i)}
InProgressIsRunning ==
  [][\A i \in LeftOpen' \ LeftOpen : Running(i) /\ aborts' = aborts + 1]_vars

\* Whatever a process does, it comes back: waits for the key lock are bounded,
\* so a peer that keeps the lock never blocks a caller for good.
OperationsEnd == \A p \in Proc : ~At(p, "idle") ~> At(p, "idle")

-----------------------------------------------------------------------------
(* Why AtMostOneCurrent holds: a row turns current only in Promote, which  *)
(* supersedes the others in the same transaction, provided that what was   *)
(* read of the row still holds and that no row already persisted has its   *)
(* outcome recorded later.                                                 *)

\* A run's row is not persisted before its outcome is recorded, and it has no
\* documents either; ids from nextId on are unused.
UnfinishedIsBare ==
  /\ \A i \in Id : Exists(i) => i < nextId
  /\ \A i \in Id : execs[i].state = "IN_PROGRESS" => ~execs[i].persisted
  /\ \A a \in artifacts : a.exec < nextId /\ execs[a.exec].state # "IN_PROGRESS"

\* A process running the client owns its row, whose outcome is still open.
ClientOwnsRow ==
  \A p \in Proc : At(p, "client") =>
    /\ proc[p].row \in Id
    /\ proc[p].row < nextId
    /\ execs[proc[p].row].state \in {"IN_PROGRESS", "ABSENT"}
    /\ \A q \in Proc \ {p} : At(q, "client") => proc[q].row # proc[p].row

Settled(i) == i \in Id /\ i < nextId /\ execs[i].state # "IN_PROGRESS"

CallPC == {"find", "load", "hydrate", "hit", "heal", "acquire", "save", "fillAcquire"}
PromotePC == {"promote", "repairPromote"}

\* A call has a key; a process storing documents, or repairing, works on rows
\* with an outcome; and what it read of the row it promotes is still so.
LocalInv(state) ==
  /\ state.pc \in CallPC => state.key \in Key
  /\ state.pc \in {"insert", "put", "mark", "fillAdd"} =>
       Settled(state.row) /\ state.doc \in Doc
  /\ state.pc \in {"finalize", "repairGet", "repairMark", "repairFinalize"} \cup PromotePC =>
       Settled(state.row)
  /\ state.pc \in PromotePC /\ Exists(state.row) => state.supersede = Supersedes(state.row)
  /\ \A r \in state.runs : Settled(r.id)

WritersOnSettledRows == \A p \in Proc : LocalInv(proc[p])

\* The inductive invariant behind AtMostOneCurrent and ReferencesResolve: what
\* the transactions of _run_fresh_locked, a purge and a repair keep true of one
\* another, in whatever order they come.
IInv ==
  /\ TypeOK
  /\ AtMostOneCurrent
  /\ ReferencesResolve
  /\ UnfinishedIsBare
  /\ ClientOwnsRow
  /\ WritersOnSettledRows

-----------------------------------------------------------------------------
(* Why a key is recorded once, and why its answer is never lost, as long   *)
(* as every wait for a key lock ends by getting it and nobody repairs:     *)
(* between its re-check and its promotion a recorder is alone with the key.*)

Recording(p) ==
  /\ proc[p].pc \in {"client", "insert", "put", "mark", "finalize", "promote"}
  /\ ~proc[p].filling

Reading(p) == proc[p].pc \in {"load", "hydrate", "hit", "heal"}
Purging(p) == proc[p].pc \in {"purgeRead", "purgeRows", "purgeBlobs"}
Repairing(p) ==
  proc[p].pc \in {"repairNext", "repairGet", "repairMark", "repairFinalize", "repairPromote"}

\* A lock has one holder, and whoever records or purges a key is that holder.
LocksGuard ==
  /\ \A p, q \in Proc : p # q => held[p] \cap held[q] = {}
  /\ \A p \in Proc :
       /\ proc[p].locked => proc[p].key \in held[p]
       /\ Recording(p) \/ At(p, "save") => proc[p].locked
       /\ Purging(p) => proc[p].victim \in held[p]
       /\ proc[p].filling => proc[p].pc \in {"fillAdd", "put", "mark"}
       /\ At(p, "fillAdd") => proc[p].filling
       /\ ~Repairing(p)

\* A recorder's row is newer than the current one, and not servable yet.
RecorderOwnsRow ==
  \A p \in Proc : Recording(p) =>
    /\ proc[p].row \in Id
    /\ proc[p].row < nextId
    /\ Exists(proc[p].row)
    /\ execs[proc[p].row].key = proc[p].key
    /\ ~execs[proc[p].row].persisted
    /\ ~execs[proc[p].row].superseded
    /\ \A i \in CurrentOf(proc[p].key) : i < proc[p].row

\* A reader never works on a row that is being recorded, and one that reads
\* under the lock has read the only row that can be current.
ReaderAvoidsRecorders ==
  \A p \in Proc : Reading(p) =>
    /\ proc[p].row \in Id
    /\ proc[p].row < nextId
    /\ \A q \in Proc : Recording(q) => proc[q].row # proc[p].row
    /\ proc[p].locked => CurrentOf(proc[p].key) \subseteq {proc[p].row}

\* A CACHE call that found nothing under the lock is right until it promotes.
MissStays ==
  \A p \in Proc :
    proc[p].mode = "CACHE" /\ (Recording(p) \/ At(p, "save")) => CurrentOf(proc[p].key) = {}

\* The inductive invariant behind RecordOnce, AnswerNeverLost and
\* CurrentMovesForward: what the per-key lock gives _run_fresh_locked.
LockInv == LocksGuard /\ RecorderOwnsRow /\ ReaderAvoidsRecorders /\ MissStays
-----------------------------------------------------------------------------
(* What the callers see of all this: the cache of AnswerStore.             *)

\* ORDER BY id DESC LIMIT 1, or nothing.
Newest(S) == IF S = {} THEN 0 ELSE CHOOSE i \in S : \A j \in S : j <= i

Asking(p) == proc[p].pc \in {"find", "acquire", "save"}

\* Before its outcome is out a call is asking, was told of a row, or runs the
\* client; a purge, an eviction and a back-fill are no part of a call.
CallStage(p) ==
  IF Asking(p) THEN "asking" ELSE IF Reading(p) THEN "told"
  ELSE IF Recording(p) THEN "running" ELSE "idle"

CallSeen(p) ==
  IF CallStage(p) = "idle" THEN [mode |-> "CACHE", key |-> NoKey, run |-> 0]
  ELSE [mode |-> proc[p].mode, key |-> proc[p].key,
        run |-> IF Asking(p) THEN 0 ELSE proc[p].row]

answers == [k \in Key |-> Newest(CurrentOf(k))]
stages  == [p \in Proc |-> CallStage(p)]
calls   == [p \in Proc |-> CallSeen(p)]

Cache == INSTANCE AnswerStore WITH
  Caller <- Proc, answer <- answers, fresh <- nextId, step <- stages, call <- calls

\* Interleaved as they may be, the transactions of the callers, the purges and
\* the evictions add up to the one-step operations of AnswerStore (execute,
\* _run_fresh_locked): a hit is the answer of one moment, one caller at a time
\* runs the client for a key, an OFFLINE call changes nothing, and an answer
\* gives way only to a newer one, to a purge or to the caller it was no use to.
ImplementsAnswerStore == Cache!Spec

\* A call has a key and keeps to its mode: a REFRESH call looks for no answer,
\* an OFFLINE call neither removes one nor runs the client.
CallsKeepMode ==
  \A p \in Proc :
    /\ CallStage(p) # "idle" => proc[p].key \in Key
    /\ At(p, "find") \/ Reading(p) => proc[p].mode \in {"CACHE", "OFFLINE"}
    /\ At(p, "acquire") \/ At(p, "save") \/ Recording(p) =>
         proc[p].mode \in {"CACHE", "REFRESH"}
    /\ At(p, "heal") => proc[p].mode = "CACHE"

\* The row a reader was given is of its key, as long as it exists.
ReaderRowOfKey ==
  \A p \in Proc : Reading(p) /\ Exists(proc[p].row) => execs[proc[p].row].key = proc[p].key

\* The inductive invariant behind ImplementsAnswerStore.
AnswerInv == LockInv /\ CallsKeepMode /\ ReaderRowOfKey
=============================================================================
