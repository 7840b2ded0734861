# A TLA+ model of generic-ml-cache

generic-ml-cache (`gmlcache`) runs a call to an ML client once, records what it
answered, and replays the record by the call's content key.  Several processes
may use one store directory at the same time: command-line invocations, a
daemon with worker threads, detached workers, and programs that embed the core
library.  This directory models what makes that safe, from the key of a call to the
daemon's gateway, and says what has been checked of it and what has been proved.

Paths below are relative to the repository.  CORE stands for
`packages/core/src/generic_ml_cache_core/application`, ADP for
`packages/adapters/src/generic_ml_cache_adapters`.

## 1. The system

### Components, their state and operations

| Component | State | Operations | Hard behaviour | What makes it correct |
|---|---|---|---|---|
| Record-and-replay use case, `CORE/usecase/cached_ml_execution_service.py`, `run_ml_execution_service.py` | none of its own; the locals of a call in progress | `execute`: hit, miss, re-check under the lock, run the client, record, store documents, finalize, self-heal, back-fill the input, evict | every step is visible to other processes; the client may fail, be interrupted, or the process die | recorded once; an answer is lost only to a purge; what is served is complete |
| Execution repository, `ADP/adapter/outbound/persistence/sqlite/execution_repository.py`, `migrations/0001` | tables `executions`, `artifacts`, `call_identities` (and tags) | `save`, `record_outcome`, `persist_artifact`, `mark_artifacts_*`, `finalize_output_persisted`, `remove_execution`, `add_input_artifacts`, purges, `find_current`, `runs_awaiting_persistence` | reads before the first write of a transaction may be stale; several SELECTs of one method are several snapshots | one current answer per key; rows can be rebuilt |
| Blob store, `ADP/adapter/outbound/storage/filesystem_blob_store.py` | one file per blob key | `put` (atomic), `get`, `remove` | no transaction spans blobs and rows | no blob without a row |
| Per-key lock, `ADP/adapter/outbound/persistence/filesystem_execution_key_lock.py` | thread stripes, lock files | `acquire` | bounded wait across processes, unbounded within one; re-entrant | mutual exclusion until a deadline; nobody waits for good |
| Purge and eviction, `CORE/usecase/purge_service.py` | none | purge by key, session, tag, age; evict to a quota; soft or hard | rows first, blobs after; runs inside a recording call | never cuts a row off from what it refers to |
| Repair, `CORE/usecase/repair_store_service.py` | none | `repair` | no lock | promotes complete runs only |
| Store lock and encryption, `ADP/adapter/outbound/crypto`, `filesystem_store_lock.py` | manifest, staging directory, marker, blobs | enable, disable, rotate, invalidate, recover | crashes between files; writers wired before a migration; removals that take no store lock | every blob is in the form the manifest says, or a commit that the next open completes brings it there; no data key is lost |
| Schema migration, `ADP/migration_runner.py` | schema version row | `run_migrations` | builds of different versions; a file that fails; a crash between two files | each file applied once, in order; nobody uses a schema that is not its own |
| Detached jobs, `packages/cli/.../async_jobs.py`, `controllers/execution.py`, `controllers/run.py` | spec, status, liveness lock, event log per job | submit, work, status, watch, result | status and lock are read one after the other; the probe takes the lock it tests | a running job is never reported interrupted; a watch returns |
| `gmlcache run` and its settings, `packages/cli/.../config.py`, `controllers/run.py` | the config file | resolve, submit, run, validate | the settings change between submission and work | offline stays offline; a file found valid loads |
| Daemon, `packages/daemon` | job registry, worker pool, sweep task, runners | submit, poll, stream, sweep, shut down | readers without a lock; hung calls; an exception in a sweep | accepted jobs end and are told whole; sweeps catch up |
| Gateway, `packages/daemon/.../controllers/gateway.py`, the relay adapter | the capture file | relay, cache, capture | callers with different credentials meet in one key; refusals, streams, broken pages | what is served is what upstream said to that body; only a 200 is cached |
| Journal, sessions, reports, eviction order | append-only events, session tags | record, aggregate, price, purge by session | best effort; prices are read later than events | totals match the events; a hard purge forgets |
| Client runner, `ADP/adapter/outbound/client`, workspace | a child process, its config home | stage, launch, wait, stop, time out, capture, parse | exit against timeout against signal; a client that ignores SIGTERM; four dialects | an answer is complete and the client's last word; calls end |
| HTTP adapters, `ADP/adapter/outbound/api` | a request | send, retry, parse | an answer lost on the way of work already done | pays again only for what was lost |
| Call identity, `CORE/usecase/*identity*`, `domain/model/identity` | none | fingerprint, key, serialize | files edited between fingerprint and run | a hit answers the call that is made |
| Adapter discovery, `packages/bootstrap/.../discovery`, `composition` | catalogs scanned once | scan, gate, select, resolve, wire | packages come and go under a long-lived process; two adapters of one name | only vetted code runs; what is listed is what is wired |
| Read-only commands, `packages/cli/.../controllers/store.py`, `execution.py`, the queries | none | list, tags, export, inspect, check, stats | several statements without a transaction, beside recordings and purges | tags to exclude win; what is shown as stored is there |

### How they interact

A command (`RunCommand`) or a request to the daemon (`DaemonJobs`, `Gateway`) resolves an adapter
(`AdapterDiscovery`), reduces its call to a key (`CallIdentity`) and executes it against the store
(`RecordReplay`), which on a miss runs a client (`ClientProcess`, `ClientDialects`) or asks a provider
(`HttpRetry`), writes blobs through the wiring that the manifest gave it (`StoreEncryption`) into a
database of its own schema (`SchemaMigration`), journals the call (`SessionJournal`) and evicts
(`QuotaEviction`).  The parts talk through return values and exceptions; what they share
is the store directory, and there the rows and blobs are the subject of `RecordReplay`, the form
of the blobs that of `StoreEncryption`, the journal that of `SessionJournal`.

A call (`execute`) computes its key and asks the repository for the key's
current execution.  `find_current` reads the row, then its artifacts and
identity; the service reads the blobs (`_hydrate`).  If the blobs are there it is
a hit, returned without any lock; if not, the entry is quarantined: its blobs
are removed, then its rows.  On a miss the call takes the key's lock, looks
again, inserts an `IN_PROGRESS` row, runs the client, and then records the
outcome, inserts and stores each document, and finalizes the row: in one
transaction the former current row is superseded and this one becomes servable.
With a quota configured it then evicts other keys, its own key still locked.  A
hit of a caller that keeps inputs adds the input document to the entry, under
the lock.  Purges take the lock of one key at a time.  A repair takes none.

### Behaviours that are hard here

They are listed with their lines under "hazards" in `PROJECT.json`.  The ones this
model is about:

- two processes between any two of the steps above (the repository has no
  transaction over several of its methods, and none over rows and blobs);
- reads that are stale when they are used: `find_current` in several snapshots,
  `finalize_output_persisted` checking before its transaction opens;
- a wait for the lock that runs out, after which two runs, or a run and a
  purge, work on one key together;
- death of a process, or an escaping exception, at any step;
- one blob write or one status update of several failing;
- a repair working on the run of a live process;
- recorders that evict each other;
- a migration of the blobs that dies between two files, and one more death in its recovery;
- readers of a job's fields, or of its status and its lock, between its writer's two writes;
- a client that exits, is stopped and times out at about the same time;
- decisions on snapshots: eviction order, report prices, tags of an export, adapters of a catalog.

## 2. The modules

| Module | Models |
|---|---|
| `ExecutionStore` | the tables and the blob directory, their queries, and one operator per transaction |
| `AnswerStore` | what `execute` promises: the abstract specification of the cache, one step per operation |
| `RecordReplay` | the processes: calls, purges, evictions, repairs, the key lock, failures and aborts; the properties; shown to implement `AnswerStore` |
| `MCRecordReplay` | instances for TLC |
| `RecordReplay_proofs` | theorems for every value of the constants |
| `RecordReplayLock_proofs` | theorems about callers that wait until they get the key lock, and no repair |
| `RecordReplayStore_proofs` | theorems about what the two stores hold, under the same settings and without kept inputs |
| `KeyMutex` | what `ExecutionKeyLockPort` promises: the abstract specification of the key lock |
| `ExecutionKeyLock` | `FilesystemExecutionKeyLock`: stripes, lock files, deadlines; shown to implement `KeyMutex` |
| `MCExecutionKeyLock` | instances for TLC |
| `ExecutionKeyLock_proofs` | theorems for every value of the constants |
| `StoreEncryption` | `StoreEncryptor`, the store lock and the processes beside a migration |
| `SchemaMigration` | `run_migrations` by builds of different versions |
| `DetachedJobs` | one `run --detach` job, its worker and the commands that ask about it |
| `RunCommand` | the settings of `gmlcache run`, its submission, its exit code |
| `DaemonJobs` | the daemon's job registry, pool and its readers |
| `Gateway` | the Messages proxy: bind, request, relay, recording, capture file |
| `QuotaEviction` | sweeps of the daemon and of a recording run |
| `SessionJournal` | the journal, session tags, reports and purges by session |
| `ClientProcess` | the life of one client process |
| `ClientDialects` | how a call is put to each of four clients and its answer read |
| `HttpRetry` | `request_json`, the API adapters, the relay |
| `CallIdentity` | which calls share a key |
| `AdapterDiscovery` | which adapter answers for a name |
| `StoreQueries` | list, tags, export, inspect, check, stats beside a changing store |
| `MCComponents` | the fourteen above in one run for TLC |
| `Encryption_proofs` | theorems about `StoreEncryption`, for every value of the constants, as in the three below |
| `Store_proofs` | theorems about `SchemaMigration`, `StoreQueries`, `QuotaEviction` and `SessionJournal` |
| `Jobs_proofs` | theorems about `RunCommand`, `DetachedJobs`, `DaemonJobs`, `Gateway` and `AdapterDiscovery` |
| `Client_proofs` | theorems about `HttpRetry`, `ClientProcess`, `ClientDialects` and `CallIdentity` |

Each of the fourteen keeps its own variables and has its own `...Init`, `...Next`, `...Spec` and type
invariant, so that each can be read, checked and proved about alone.

### ExecutionStore

| State | Code |
|---|---|
| `execs` | rows of `executions`: key, `execution_state`, `output_persisted`, `superseded_at` as a flag; `ABSENT` where there is no row |
| `artifacts` | rows of `artifacts`: their execution, which document, the execution that owns the blob, the status |
| `identities` | the keys that have a row in `call_identities` |
| `blobs` | the files of the blob directory, named by owning execution and content fingerprint (`BlobKey.for_execution`) |

Ids are the insertion order: rows are selected by `ORDER BY id DESC`, and
execution ids are fresh UUIDs, so the model mints each id once (the row id that a
deletion frees is another matter: section 5).  Every method of
the repository is one transaction, hence one operator, except where it reads
before it writes and the reads can go stale: Python's `sqlite3` opens a
transaction at the first INSERT, UPDATE or DELETE, so the SELECTs of
`finalize_output_persisted` run before it.  They are `CanFinalize` and `Supersedes`,
its UPDATEs are `Promote`, and other processes may act in between.  For the other
methods the read and the write are one step; a row that disappears between
the two makes the method raise, which `RowGone` and `Abort` cover.

### RecordReplay

`proc[p]` is what process `p` is doing: a program counter and the locals of the
code that later steps use (`row`, `seen`, `doc`, `all_stored`, the blobs still to
remove, the victims still to purge).  One action is one transaction, one blob
operation or one acquisition of the lock.

| Code | Actions |
|---|---|
| `execute` up to the miss, `find_current`, `_load_execution`, `_hydrate`, `_serve_hit` | `StartCall`, `FindCurrent`, `LoadExecution`, `Hydrate`, `ServeHit` |
| `_remove_execution_and_blobs` | `HealBlob`, `HealRows` |
| `_run_fresh`, `_run_fresh_locked` | `Acquire`, `SaveInProgress`, `SaveFails`, `ClientAnswers`, `ClientFails`, `ClientInterrupted`, `RowGone` |
| `_persist_documents`, `_store_blob` | `InsertArtifact`, `Put`, `PutFails`, `MarkStored`, `MarkFails` |
| `finalize_output_persisted`, `_after_record` | `FinalizeRun`, `PromoteRun`, `AfterRecord` |
| `_accumulate_input` | `FillAcquire`, `FillRead`, `FillAdd`, then `Put` and `MarkStored` |
| `PurgeService` | `StartPurge`, `PurgeAcquire`, `PurgeRead`, `PurgeRows`, `PurgeBlob`, `PurgeNext` |
| `RepairStoreService.repair` | `StartRepair`, `RepairNext`, `RepairGet`, `RepairMark`, `RepairFinalize`, `RepairPromote` |
| a killed process, an exception that escapes | `Abort`: the locks go, the rows and blobs stay |

The per-key lock is a re-entrant mutex.  `LockTimeouts = TRUE` lets a wait end at its
deadline, after which the caller goes on without the lock, as
`_acquire_os_lock` does.  `LockTimeouts = FALSE` describes callers whose waits end by
getting the lock: threads of one process, which share a stripe with no
deadline, and processes whose peers answer within the client timeout the wait is
sized by (`lock_wait_for_client_timeout`).

Simplifications, all in the direction of the properties:

- content is a fingerprint per document; blobs of one key never differ, so
  `_hydrate` is one step however many blobs it reads;
- which keys an eviction or an administrator's purge selects is any nonempty set
  (of keys with a current answer for an eviction);
- the re-read of `_accumulate_input` under the lock and its `add_input_artifacts`
  are one step each; so is `find_all` in a purge;
- tags, journal events, token usage, sizes, METER and uncacheable calls change
  nothing the properties read and are left out;
- entries the code reports as corrupt (`StoreCorrupt`) are not modelled.

### AnswerStore

The cache as those who call `execute` see it: `answer[k]` is the number of the run that answers a key, or 0;
`step[c]` how far a caller is; `call[c]` its mode, its key and the run it was told of or makes itself; `fresh` the
number of the next run.  Every operation is one step.  `RecordReplay` implements it under this refinement mapping
(the `INSTANCE` called `Cache`): `answer` is the newest current row of each key, `fresh` is `nextId`, and a process
that is at *find*, *acquire* or *save* is asking, one that reads a row (from *load* to its hit or its quarantine) was told,
one between its in-progress row and its finalize is running.  A purge, an eviction and a
back-fill belong to no call: their processes are idle.

| Step of `AnswerStore` | is one transaction of `RecordReplay`, whatever comes between the others |
|---|---|
| `Ask` | `StartCall` |
| `Look` | the first SELECT of `find_current`, before the lock or under it (`FindCurrent`, `Acquire`) |
| `Discard` | the end of a quarantine (`HealRows`), or a row that was gone when it was loaded |
| `StartRun` | the insert of the in-progress row (`SaveInProgress`) |
| `Keep` | the UPDATEs of a finalize that supersede the old answer and promote the new one (`PromoteRun`) |
| `Return` | every way out of a call: a hit, a miss of an OFFLINE call, a failed, kept or interrupted run, a death |
| `Forget` | the DELETE or UPDATE of a purge or an eviction of the key (`PurgeRows`) |

All other actions leave the mapped state as it is.  `Discard` may find that the key has another answer by now, and
then it must leave that one alone; `Look` may tell an answer that is forgotten before it is served.

### KeyMutex and ExecutionKeyLock

`KeyMutex` is the promise of the port: per key, sections that one caller at a time
guards; a caller that cannot get the lock may go in unguarded; two threads of
one process are never inside together.

`ExecutionKeyLock` is the class that keeps it.

| State | Code |
|---|---|
| `thread[t]` | where the thread is in `acquire`; the keys of the (at most two) sections it is inside of, which are its `_held_keys`; for which of them it has the file (`acquired`); two countdowns, to the deadline of its wait and to the timeout of its client call, and whether that call is an API client's (`api`), which the timeout does not bound |
| `stripe[pr][s]` | the `RLock`s of `_stripes`: owner and how often it was entered |
| `os[k]` | who has the `flock` on the key's file |
| `outlasted` | history, for one property: waiters whose file was unlocked since their wait began |

| Code | Actions |
|---|---|
| a `with acquire(...)`: the first, the same key again (back-fill), another key (eviction) | `StartAcquire` |
| `self._stripes[...]`, the `held` test | `TakeStripe` |
| `_open_lock_file` and the start of `_acquire_os_lock` | `OpenLockFile`, `OpenDenied` |
| one turn of the retry loop | `TryLock`, `GiveUp` |
| the `finally` block, and the end of the outer `with` | `Leave`, `DropStripe` |
| a client call that never ends; a killed process; time | `Hang`, `Die`, `Tick` |

The hash of a key is salted per process in Python, so each process has its own
`StripeOf`.  Two sections deep is what the code nests: a back-fill or an eviction
inside a recording call.  Time is counted in ticks, much longer than the retry
interval of 0.05 s: a thread that is due (it can take its stripe or file, its deadline has
come, its client is at its timeout) acts before the next `Tick`.  A client call
starts with its section and ends by its timeout, unless it hangs or has no
timeout; what follows it in the section (storing the answer) takes no ticks, except an
eviction, which may wait for other keys and counts as `evicting`.  `Margin` stands for the 30 s that
cover the rest.  The in-process fallback of tests and embedders is the stripes with every file denied.

### StoreEncryption

A blob's content is fixed by its name, so a file is only the form it is in: `Plain`, ciphertext under a data
key, or `Garbled` (ciphertext of ciphertext).  `blobs` and `staging` are the two directories, `marker` and
`manifest` the two JSON files, `exclusive` and `sharing` the two modes of `store.lock`.

| Code | Actions |
|---|---|
| `recover`, at every open and before every migration | `Open`, `StartMigration`, `Recover` |
| `resolve_blob_store` | `Wire` |
| `enable`, `disable`, `rotate`, `invalidate` | `BeginEnable`, `BeginDisable`, `Rotate`, `BeginInvalidate`, `Wipe`, `WipeRest` |
| `_stage`, `_commit`, `_roll_forward` | `StageBlob`, `WriteMarker`, `MoveBlob`, `DropStaging`, `Flip`, `Unmark` |
| `put`, `get` and quarantine, `remove` of an open store | `PutStart`, `Put`, `ReadCorrupt`, `Heal`, `Remove`, `Close` |
| a killed process | `Die`, between any two of these |

`misplaced` is history: the blobs a process last wrote in another form than the store's, because it was wired
before a migration, or that an invalidation cut short left behind.  The code does write such blobs; the
properties are about all others, and say what happens to these (divergences, below).

### SchemaMigration, DetachedJobs, RunCommand

`SchemaMigration` is `run_migrations` statement by statement under the store lock, by builds that ship different
last versions, on databases that are new, that the `PRAGMA user_version` runner left, or that were seeded
twice.  `DetachedJobs` is one job: `SpawnWorker` and before it the two files, `HoldJobLock` to `WorkerSucceeds`, and for each command
`ReadStatus`, `Probe`, `ProbeEnds`, `Decide`; the probe takes the lock, so it can be what a worker or another
probe finds.  `RunCommand` is what comes before and after: flag, environment, file, default; `--offline` over
all of them; a spec that a worker reads later, while the file is edited and entries come and go.

### DaemonJobs, Gateway, QuotaEviction, SessionJournal

`DaemonJobs` has one step per field the pool thread sets (`SetExecution`, then the state) and per field a request
reads; `Interrupt` (Ctrl-C) runs the queue down; `DieOfTerm`, when the open requests are over, and `KillDaemon` forget it.  `Gateway` follows a request from `Post` to
`Capture`; a caller that misses waits for the one that relays the same body, as within one process
it does.  `QuotaEviction` reads the total, the sizes and the last accesses in three steps and purges victim by victim,
twice over: the daemon's loop and a run's own sweep.  `SessionJournal` counts events, reads them session by session
and prices them key by key with the usage that is stored then; `usage` is what the latest recording of a key
reported, and `Supersedes`, of a recording, a refresh or a repair, may change it under a report.

### ClientProcess, ClientDialects, HttpRetry, CallIdentity, AdapterDiscovery, StoreQueries

`ClientProcess` is one call of `RunMlExecutionService` with a local client: workspace, launch, handlers, waiting, grace,
capture, disposal, beside a client that prints, exits, is `stubborn` (ignores SIGTERM) or `lingering` (a child
holds its pipe).  `ClientDialects` keeps of the command line and of the config files the tokens that open a
door or carry a part of the call, and of the output which line is an event of which kind.  `HttpRetry` counts the
requests the provider has carried out (`worked`) and those whose answer was lost.  `CallIdentity` takes digests
to be injective and keeps what is hashed.  `AdapterDiscovery` has one step per look at the installed
plugins, with `Pip` between any two.  `StoreQueries` has one step per SELECT or blob read of a command.

Definitions introduced by "(mutant)", in the first modules as "Defective variant", are deliberate bugs. No action
uses them; each is put in place of the definition that follows it to see
that the property named for it in `PROJECT.json` notices.

## 3. What is checked

### Runs that pass

**record_replay** (`RecordReplay.cfg`): one key, three processes, two runs, three output
documents of which two have the same bytes, CACHE, REFRESH and OFFLINE callers, hard purges, one failing write or
update, one abort, no lock timeout.  Three processes are what a refresh, a second caller and a purge
need to meet; two runs are an old answer and a new one; three documents tell a
partial output from none and from all of it, and two that share a blob key are put, marked and failed
together.  Keys share no state except through evictions, which have runs of their own.  Soft purges are not in
this run, which has 1.1 million distinct states without them: their transaction takes part as
an eviction in *record_replay_degraded*, *record_replay_liveness* and *eviction_deadlock* and as a purge in *hit_during_purge*,
and each property of this run has a theorem for every choice of purges.

| Property | Says |
|---|---|
| `AtMostOneCurrent` | a key never has two current answers |
| `ServableIsComplete` | what can be served has every output document `STORED` and its bytes in the blob store |
| `ReferencesResolve` | an artifact has its execution, an execution its identity |
| `NoUntrackedBlob` | a blob without an artifact row is only ever one that a purge is removing or died over |
| `RecordOnce` | two processes never run the client for one key together, and a CACHE call runs it only while there is no current answer |
| `HitAllOrNothing` | a hit holds all output documents of its run or none, never some |
| `AnswerInv` | the inductive invariant behind `RecordOnce` and the two that follow |
| `AnswerNeverLost` | a key loses its answer only to a purge of that key or to the quarantine of that entry |
| `ImplementsAnswerStore` | every step is a step of `AnswerStore` or none |

`HitAllOrNothing` allows an empty hit because the code does (see the findings);
without that the torn read is the only way to break it.  That an older run never displaces a newer answer
(`CurrentMovesForward`) is the guard of `Keep` in `AnswerStore`, so no run checks it by itself; it has its own theorem.

**record_replay_degraded** (`RecordReplayDegraded.cfg`): two processes whose calls keep their input,
hard purges, evictions, repairs, one abort, and lock waits that run out.  About 2.8 million distinct states.  An input is back-filled
where a repair has promoted a run that had not stored it yet; that callers who keep no input meet those who do is
left to *hit_during_backfill* and to the theorems, which hold for every mix.  It checks
what survives all of that: `IInv` (which contains `TypeOK`, `AtMostOneCurrent` and
`ReferencesResolve`) and `InProgressIsRunning`: a row that loses its client while it is `IN_PROGRESS` loses it to
an abort (`Abort`) of that very process, nothing else leaves it open, and no settled row is opened again.  An abort there is
a death, but also an exception in a process that lives on: `record_outcome` or `remove_execution` that
raises, or something that is no `Exception`.  Nothing settles such a row later; repairs and hits pass it by.

**record_replay_liveness** (`RecordReplayLiveness.cfg`): two keys whose recorders evict each other,
lock waits bounded: every operation ends (`OperationsEnd`).  Fairness is weak fairness of each
process's own steps, not of starting new operations: the client call is
bounded by its timeout and the operating system runs every process.  No
fairness is assumed of any particular outcome.

**execution_key_lock** (`ExecutionKeyLock.cfg`): two threads of a process whose hash puts both
keys on one stripe, and a thread of another process; client timeout two ticks,
margin one; API clients, evictions, stuck clients, denied files and deaths.  About 683,000 distinct states.  Threads of one
process, and the keys, are interchangeable (`SYMMETRY`).  Three threads are a holder, a waiter at the stripe and
a waiter at the file; two keys on one stripe are what counting re-entries is about; with a
timeout of two and a margin of one, a waiter can start in the middle of a holder's call.

| Property | Says |
|---|---|
| `KeyLockInv` | a file is locked by exactly the section that took it, a stripe entered exactly as often as it is in use |
| `Exclusion` | threads of one process never meet inside a key; of several processes at most one has the file |
| `NoSelfDenial` | no thread waits for a file it has locked itself |
| `OutwaitsHolder` | a wait that runs out has outlasted the client call of whoever held the file when it began, unless that one is stuck, evicts by now, asks a provider over HTTP or has a timeout the wait was not sized to |
| `ImplementsMutex` | every step is a step of `KeyMutex` or none |

**components** (`Components.cfg`): the fourteen modules that share no variable with the store model.  `focus`
picks the one a behaviour is about; the others stay at their initial state, so the states are the sum of the
components' and not their product, and TLC explores each component completely.  It is one run because
each is small.  About 591,000 distinct states.

| Property | Says |
|---|---|
| `StoreStaysOpenable` | whatever step a migration dies in, each blob written in the form of its store is in the form the manifest announces, or staged in it under a commit marker, and its data key is wrapped under a token that was told or that its living process will tell; the one exception is a token whose own process died between committing the store to it and printing it (`untold`), and no other death is excused |
| `ReadersOfTheStoreKeepIt` | a reader that has the store's key quarantines no sound blob, unless a commit is pending |
| `VersionTellsSchema` | no file is applied twice, and a version row tells exactly the files applied |
| `OpensOwnVersion` | a build starts to use a store only with exactly the schema it ships |
| `InterruptedIsOver` | a job reported interrupted has no worker that runs it or will |
| `WatchReturns` | once a job runs, its watchers return |
| `SettingsAreKept` | a call submitted to stay offline never starts the client; what `config validate` finds right is loaded, but for an empty `adapters` or a `%` under a key it does not read |
| `StreamTellsTheEnd` | the last event of a stream has what its state announces |
| `AcceptedJobEnds` | an accepted job ends, through a Ctrl-C too, unless calls hang or the daemon is terminated or killed |
| `EvictionIsRight` | a finished sweep leaves the quota and what was recorded since, and purges the longest unused |
| `EvictionCatchesUp` | when recordings pause the store comes under its quota again, in a later sweep if not in this one, unless a sweep failed or the daemon stops |
| `JournalIsHonest` | reports add up to what was paid and saved, unless a key was recorded anew with another usage; a hard purge leaves nothing |
| `AnswerIsSound` | an answer is from a client that exited unstopped, and complete, but for a stream whose reader was given up on or died |
| `WorkspaceOutlivesClient` | the three cases in which a workspace is taken from a running client |
| `CallEnds` | every launched call comes back, but for one case the code leaves open |
| `CallIsTranslated` | what the caller grants and gives reaches the client, under the cache's grants, and the answer is its last word |
| `RetriesAreSafe` | a provider is paid again only for work whose answer was lost, within the policy |
| `HitsAreSound` | a hit is the answer to a call that means the same (four named pairs of calls aside), from the editions just fingerprinted |
| `GatewayIsTransparent` | a reply is upstream's to this very body; captures tell no secret |
| `NamesLeadToVettedAdapters` | only vetted plugins run; a listed adapter is the one constructed |
| `QueriesTellTheStore` | excluded tags win, records are whole, what is shown as stored is there, unless a purge says otherwise |

Bounds, and why they are enough to meet the cases: two processes, one blob, two secrets and one death for
encryption (a migration, its recovery after a death, and a writer wired before; a second blob only
repeats the first, since no file operation touches two); two builds, of which one ships one file more, and two mishaps (a
failure and the death of the next attempt); two commands beside one job; two lines of output; three attempts; two jobs on
one thread (a queue is when jobs outnumber threads); two entries of one and two bytes under a quota of one, two
recordings (the first may go over it, and the second come while that is swept, so that one sweep is not enough), a
clock of two values; two sessions on one key, two calls, two usages a run may report (two events are what a sum, the
loss of one of them, and a price that changed in between need); three events of a client (something on the way, a last word, something torn); two
callers of fourteen calls that differ in one respect each, one edit; two
callers of the gateway, of which one is on another machine, with a request each; two bundled and four other
plugins, two changes of what is installed; two keys, two executions of each and two changes of the store
under a command.  Where a property depends on a bound in the guards it says so.

Fairness in this run: the worker of a job and the commands that ask (`WatchReturns`); the caller of a client
and a client that obeys SIGTERM (`CallEnds`, which presumes a configured timeout; the daemon passes none, and `AcceptedJobEnds`
has its `hung` calls); the pool's threads; the sweep loop.  Each is a process or a thread the operating system
runs; none assumes an outcome, and a client, a submitter, a `pip` and a kill are never fair.

`CHECK_DEADLOCK FALSE` appears here because a job, a call and a command do end.

The bounds of `RecordReplay`: `MaxRuns` execution rows are ever inserted (a call that would insert another
one ends, as if the insert had raised); `MaxFaults` failures and `MaxAborts` aborts.
`CHECK_DEADLOCK FALSE` appears only in the runs whose system ends (*components*,
*done_job_without_output*) and in the run about the deadlock, which asks the
question as liveness; in all other runs TLC also checks that some step is always
possible.

### Disagreements between the code and what it says

Each is a run TLC refutes; the quotations are in `PROJECT.json`.

1. **repair_of_partial_run**: a process dies after inserting its first document's row.
   A repair finds the blob, marks the row and promotes the run: the entry is
   served without its other documents.
2. **repair_of_live_run**: a repair lists the run of a live process.  Both finalize it;
   the second finalize supersedes every current row of the key, which is the very
   row it then marks persisted.  The key has no answer left.
3. **hit_during_purge**: a soft purge commits between `find_current`'s reads.  The hit has
   no documents.
4. **hit_during_backfill**: a hit loads the row while the input document of a back-fill is
   still `PENDING`.  The blob is missing, so the complete entry is quarantined.
5. **eviction_deadlock**: two threads of one process each hold the stripe of the
   key they recorded and wait for the other's to evict it.  The stripes have no deadline.
6. **wait_of_third**: a waiter's deadline is one client timeout and a margin from its own
   start.  If the file changes hands meanwhile, it gives up on the new holder, which is
   alive and within its timeout, and becomes a duplicate run.
7. **done_job_without_output**: `GET /jobs/{id}` reads a job's execution before its state, while the pool
   thread sets the execution and then the state.  A job that ends in between is told as done and
   without output.

### Further divergences, without a run

Seen while translating; the models have these outcomes, and where a property would forbid one
it names the exception.  Paths are those of the components.

- Encryption.  A writer wired before an encryption writes plaintext into the encrypted store
  (`store_encryptor.py` warns of it only for the migration itself).  One such blob makes `disable` raise
  `WrongEncryptionToken` for good.  A blob removed while it is staged makes the migration raise, and one
  removed after it was staged comes back.  An invalidation that dies after the manifest leaves unreadable
  ciphertext in a public store.  A token is printed only after the commit, so a death in
  between takes it along: the store is then encrypted under a token nobody was told (`untold`), after `encrypt` and after `rotate`.
- Jobs.  A job that finishes between the read of its status and the probe is called interrupted.  A probe
  can make a starting worker give up, and the job stays submitted; so does a death before the first status. A failed run that was
  not recorded is `succeeded` without a stored result.  `gmlcache daemon stop` looks for a `.daemon.pid` nothing writes.
  The daemon's `lifespan` waits for no job: on SIGTERM uvicorn finishes the open requests, then raises the signal again
  under its default handler, and the process ends with the jobs that are queued and running; only Ctrl-C lets the pool finish.
- Client runner.  A captured call of a client that ignores SIGTERM, or whose child keeps the pipe, hangs past its timeout.  So
  does a streaming one: its joins and its grace have limits, but `stream.close()` in the `finally` then waits for
  the thread that is blocked reading the pipe.  A reader's five-second join may truncate a recorded answer, and so does a byte
  that cannot be decoded, which ends the reading thread silently.  A prompt that cannot be encoded is swallowed by
  a stream, whose client answers an empty prompt; a captured call raises on it and leaves its client running while
  the workspace goes.  A stop that comes after a normal exit discards it.
- Dialects.  Cursor's `--force` comes behind its prompt and is read as prompt.  `splitlines()` breaks a line that holds
  U+2028, U+2029 or U+0085, so an earlier message or the raw stream is recorded.  Vibe ignores the effort that is in the key.
- Lock.  The wait is sized to the timeout of local clients (`application.py:189-191`), which an API client's runner never
  gets (`entrypoint_adapter_resolver.py:53-54`): it has 120 s for each operation of its socket, three attempts and pauses between
  them (`_http.py:141-166`).  A caller that waits for one with a shorter timeout goes in beside it, and both ask the provider.
- HTTP.  A connection that breaks inside the reply passes `request_json` as a raw exception; a negative `Retry-After`
  makes `sleep` raise; a reply without its text field becomes an empty answer that is recorded.
- Identity.  An input file edited between fingerprint and run is recorded under the old key.  No argument and one
  empty argument share a passthrough's key; folder names with commas may; a passthrough's working directory is in no
  key, nor are the headers a relay forwards, such as `anthropic-beta` (`Confusable` names these four).  Executable, timeout
  and environment are the installation's and left out.
- Discovery.  `doctor` looks whitelisted local clients up without the whitelist and raises.  Of two adapters of one client
  the command line takes the higher priority, the daemon the last listed for running and the first for the kind of call.
- Settings.  `config validate` passes an empty `adapters`, which loading refuses, and reports an empty `timeout`, which
  loading takes.  A lone `%` in a value raises uncaught; `config validate` passes it under `store`, `log_file`,
  `adapters` or an executable, which it does not read, and raises itself under any other key.
- Eviction and reports.  A victim that is hit after the sweep read its accesses is evicted all the same; two sweeps
  together evict too much; one exception ends the daemon's sweeps for good.  A failed run of a key that is recorded
  later is priced with that recording, and so is every earlier event of a key that a refresh or a repair gives another usage.
- Queries.  `export` reads the tags of one execution and the content of the next if the key is re-recorded in between,
  and reads a blob that a purge took as empty.  A session whose tags cannot be read is a 404.


## 4. What is proved

`RecordReplay_proofs` proves, for any number of processes, keys, runs and documents, with any
combination of modes, administration, timeouts, faults and aborts
(the assumptions are `StoreAssumption` and `ReplayAssumption`, which only give the constants
their types):

- `TypeCorrect`: `Spec => []TypeOK`;
- `OneCurrentAnswer`: `Spec => []AtMostOneCurrent`;
- `RowsStayRebuildable`: `Spec => []ReferencesResolve`;
- `InvariantHolds`: `Spec => []IInv`.

`AtMostOneCurrent` is not inductive.  A row becomes current in `Promote`, which supersedes the
key's current rows in the same transaction if the row was a SUCCESS when it was
read.  So the read must still be true: `LocalInv` says that a process about to promote
a row that still exists knows which key it supersedes, and `Settled` that the row's
outcome will not change any more.  That in turn needs `ClientOwnsRow`: only the
process that runs the client records the outcome, once, and no other process works on
that row before; and `UnfinishedIsBare`: a row without an outcome is not persisted and has
no documents, so nobody (a repair, notably) finds it.  The proof has one lemma per
transaction about the stores (`...Step`), a lemma that carries the processes' part over
every action that neither inserts a row nor records an outcome (`QuietStep`), and the
few actions that do treated on their own.

`RecordReplayLock_proofs` proves, under two more assumptions, `~LockTimeouts` and
`"REPAIR" \notin Admin`:

- `RunOnce`: `Spec => []RecordOnce`;
- `RefreshKeepsAnswer`: `Spec => AnswerNeverLost`;
- `AnswersMoveForward`: `Spec => CurrentMovesForward`;
- `LockInvHolds`: `Spec => []LockInv`;
- `AnswerInvHolds`: `Spec => []AnswerInv`;
- `AnswerStoreImplemented`: `Spec => ImplementsAnswerStore`, the refinement of `AnswerStore`.

Neither assumption can be dropped: a wait that ran out lets two recorders of one key
meet, and the finding *repair_of_live_run* is what a repair does to an answer.  `LockInv` says
what the lock gives: whoever records or purges a key holds its lock (`LocksGuard`); the
row being recorded is newer than the current one and not servable (`RecorderOwnsRow`); a reader,
who needs no lock, never holds the row of a recorder, so that its quarantine cannot
remove a run in progress (`ReaderAvoidsRecorders`); a miss under the lock stays a miss
(`MissStays`).  The proof splits a step in two halves: `OthersSafe`, what it leaves alone of the
other processes (`LockStep` turns that into their part of `LockInv'`), and `Fits`, what
the moving process can say of its own next state.  There is one lemma per group of actions; each
also shows what its steps do to the current rows (`NoneLost`, `Forward`), which
are the two action properties.

The refinement says more than these: it puts every operation of a caller at one moment, although none of them
is one transaction.  It is proved action by action: each is shown to be the step of
`AnswerStore` that section 2 names for it, or to change no mapped variable (lemmas `...View`), from `AnswerInv`, which adds two parts
to `LockInv`.  `CallsKeepMode`: a REFRESH call never reads a current row, an OFFLINE call never heals, locks or runs, and a call that
is under way has a key.  `ReaderRowOfKey`: the row a reader was told of is of its key as long as
it exists.  Without it a quarantine could take the answer of another key, which `Discard` may
not.  The steps that need the lock are `StartRun` (nobody else runs the client for the key, and a CACHE caller's miss is
still one: `LocksGuard`, `MissStays`), `Keep` (the promoted row is newer than the answer it supersedes, and it
is the only current row afterwards: `RecorderOwnsRow` and `AtMostOneCurrent` of `IInv`) and `Forget` (a purge
of a key that someone records would be a purge under that caller's feet: `LocksGuard`).  `Look` and
`Discard` need none; that a reader without a lock is safe is `ReaderAvoidsRecorders`.

`RecordReplayStore_proofs` proves, under those two assumptions and `TRUE \notin Depths` (no call keeps its input):

- `ServedIsComplete`: `Spec => []ServableIsComplete`;
- `BlobsAreTracked`: `Spec => []NoUntrackedBlob`;
- `HitsAreWholeOrEmpty`: `Spec => []HitAllOrNothing`;

and, without any of these assumptions, with lock waits that run out, repairs, any depth and any number of aborts:

- `NoRunLeftOpen`: `Spec => InProgressIsRunning`.

The third assumption is needed: a back-filled input is a row marked PENDING before its blob is there, so a hit that reads
in between quarantines a sound entry (the finding *hit_during_backfill*).  Documents of one run may share a
fingerprint here, and then a blob.  The inductive invariant `WholeInv` ties rows to blobs (`OwnBlobs`, `ServableWhole`,
`NoUntrackedBlob`) and says for each process what its position tells it: `RecorderStands` how much of the output is
inserted and stored, `ReaderStands` what a hit has read and why a quarantine may go on, `PurgerStands` whose
blobs a purge took and that it took them all.  `Keeps(p)` is what one step leaves to the others: a row that is neither
servable nor being recorded is never revived, so its blobs may go at any later time.  `NoRunLeftOpen` needs no lock: a
row that is IN_PROGRESS is run by the process that inserted it, whose every way out of the client but `Abort` settles or removes it.

`ExecutionKeyLock_proofs` proves, from `KeyLockAssumption` (types, and `Margin > 0`), for any number of
processes, threads, keys and stripes, any hash, and any timeouts:

- `KeyLockInvHolds`: `Spec => []KeyLockInv`;
- `MutualExclusion`: `Spec => []Exclusion`;
- `NeverSelfDenied`: `Spec => []NoSelfDenial`;
- `MutexImplemented`: `Spec => ImplementsMutex`, the refinement of `KeyMutex`;
- `WaitsOutlast`: `Spec => OutwaitsHolder`.

`KeyLockInv` is inductive: whoever is inside a section, or past the stripe on its way in or
out, is counted in that stripe, and a stripe has one owner, so two threads of a
process cannot use one key (`AloneInProcess`); that is the guard `Alone` of `KeyMutex`.  A step is
split by what it touches: steps that enter or leave no stripe (`SameStripes`) and those that
do (`OneStripe`).  `WaitsOutlast` needs a second invariant, `WaitInv`, about clocks: a waiter
that has not seen the file unlocked has its whole wait before it while the file is
free, and a `Margin` more than the holder's client call once somebody has it (`Ahead`).  A `Tick` keeps the
distance because a holder whose client is at its timeout is due (`HolderIsDue`).  That is so of local clients
with a timeout only: an API client's runner is built without it, has its own and asks up to three times, so
`OutwaitsHolder` excepts a holder that runs one (`api`).

`Encryption_proofs` proves, for any number of processes, blobs, secrets and deaths:

- `StoreOpenable`: `EncSpec => []StoreStaysOpenable`;
- `ReadersKeep`: `EncSpec => ReadersOfTheStoreKeepIt`.

The invariant `EncInv` has five parts about the store and one about each process.  `Locked`: who is in a migration
or recovery holds the lock alone.  `Keyed`: what the manifest and the marker may be together.  `Sound`: the forms of the files, with and
without a marker.  `TokensTold`: the token of either envelope was printed, or a living process will print it, or the process that minted it died past its commit (`untold`).
`Standing(p)`: what a process has reached in its migration; its part `Staged` says that what is not on the staging list any
more is gone or staged under the new key, and that no process is wired with that key yet.  This last
conjunct is what makes the proof go through: an old writer that held the new key could put a blob in the new form
and have it overwritten by an older staged copy.  Steps come in three kinds: those that change
nothing of a migration (`QuietStep`), those of the holder of the lock (`HolderStep`, which reduces the rest to the
holder itself), and `Put`, during which nobody holds it exclusively.

The other components have two kinds of theorem each: that its state keeps its types (`EncTypes`, `SchemaTypes`,
`QueriesTypes`, `EvictionTypes`, `JournalHasItsTypes`, `CommandTypes`, `JobsTypes`, `RegistryTypes`, `GatewayTypes`,
`DiscoveryTypes`, `HttpTypes`, `ClientTypes`, `DialectTypes`, `IdentityTypes`), and the properties the run `components`
checks of it.  Three of the type theorems bound something: `schema_version` never has more than two rows, the pool's queue is
never longer than there are jobs (no job is in it twice), and no call makes more attempts than its policy allows.

`Store_proofs`:

- `VersionTold` (`SchemaSpec => []VersionTellsSchema`) and `OwnVersionOpened` (`SchemaSpec => OpensOwnVersion`), for any
  builds and versions, one migration file at least: the files applied are always a prefix, the row names its length whenever it
  stands alone, and whoever compares holds the lock and has read the row that is there.
- `QueriesTell` (`QueriesSpec => []QueriesTellTheStore`), for any finite set of calls.  Rows change under a command in every
  way they can, so `QueriesInv` says of each step of a command what it has read that cannot become false: labels that bar a row
  stay (a label is only removed with its row), the row it is at was read after its tags, or the history variables
  `recorded`, `purged` and `filled` name what has intervened (`ExportSound`, `MatchSound`).  `QuietSound` says what a command
  with which nothing interfered has told so far; the lemma `BesideKeeps` carries the rest over whatever happens beside the command.
- `SweepsEvictRightly` (`QuotaSpec => []EvictionIsRight`), for any finite set of entries and any sizes.  That a sweep ends
  within the quota is not inductive: what matters while it runs is `Accounted`, that the entries stored together with those it
  still has to take weigh at most what it believes is stored plus what was recorded since (`running + grown`), and that those
  it has not seen weigh at most `grown`.  Taking a victim that someone else purged keeps both, so the total that goes wrong
  in the sweep's favour is never more than `grown`.  `Undisturbed` adds the order: what was taken was used no later than what is left.
- `JournalTellsTheTruth` (`JournalSpec => []JournalIsHonest`), for any finite set of keys, any sessions and any usages a run may report.
  `Tells` says that the rows of a session add up, at the price each key has now or had when the report read it (`AtPrice`), to
  what its calls paid and saved, and that every key they price is still stored; a recording with another usage makes the sessions and
  the report it reaches untold (`SupersedesKeeps`); a report copies rows and truth together (`ReportTells`), and the model starts no purge while a
  report is made (a report over what is being purged promises nothing).  `PurgeForgets`
  says which keys a hard purge has been through and that they are gone while nobody called.

`Jobs_proofs`:

- `SettingsKept` (`CommandSpec => []SettingsAreKept`): a spec, once written, says offline if the user asked for it.
- `InterruptedOver` (`JobsSpec => []InterruptedIsOver`), for any number of commands: a reader that found the lock free
  after a `running` status has a worker that is past its lock.
- `StreamTells` (`RegistrySpec => []StreamTellsTheEnd`), for any finite set of jobs, any requests and threads: an ended job
  has exactly one of its two fields set, and keeps it.
- `ProxyIsTransparent` (`GatewaySpec => []GatewayIsTransparent`), for any peers.  `Stands` ties each exchange to what upstream
  has said to that body (`relayed` only grows), a stored answer to one that was relayed and to who relayed it
  (`RecordedSound`), and the two that belong to other machines to a daemon that lets other machines in (`Reachable`, which no step
  revokes).  What a stream reports of its usage is a recursive function, `ParseUsage`; `UsageIsTheLast` relates it to the last
  usage the lines carry.
- `NamesLeadRight` (`DiscoverySpec => []NamesLeadToVettedAdapters`), for any finite set of bundled adapters, any plugins,
  any whitelist, and packages that come and go.  `DiscoveryInv` needs that `importlib` lists an installed plugin once
  (`InstalledOK`), that what a listing keeps has distinct ids (`Sieve`, again a recursive function), that nothing is listed
  before an answer and that the daemon's runners are all it has listed (`Staged`).

`Client_proofs`:

- `RetriesSafe` (`HttpSpec => []RetriesAreSafe`), for any policy: a call that is still to send has paid only for lost
  answers, and has slept at most once per attempt.
- `AnswersSound` (`ClientSpec => []AnswerIsSound`) and `WorkspaceKept` (`ClientSpec => []WorkspaceOutlivesClient`), for any
  number of lines and in either thread: the step the caller is at tells the state of the process, and what a stream
  may lack (its reader given up on, or dead of a byte it could not decode) and whom a failing call may leave running are
  part of the invariant.
- `TranslatorsAreRight` (`DialectSpec => []CallIsTranslated`), for every dialect, any grants and output of any length.
  `ArgvSound` keeps which words stand on the command line and that flags which are appended take none of them away
  (`HeardAtLeast`), `HomeSound` which config file governs, `StdoutSound` that a client prints what is its own and
  ends its output once; what is lifted is then the last message printed (`AnswerIsTheLast`, part of the property).
- `NoWrongHit` (`IdentitySpec => []HitsAreSound`), for any callers, calls and files.  An entry was stored under the key of
  its call and of editions that were found then (`EntrySound`); two calls with one key are equal in everything that is hashed, so
  the theorem rests on `BuildIdentity` keeping apart what it should (`SameKeySameCall` and the lemmas before it), and on the four
  named pairs that it does not keep apart (`Confusable`).

The assumptions on the constants are types and finiteness, with three that say more: at least one migration file ships;
no peer of the gateway is called `none` or `gateway` and no adapter's client `none` (the models use these
names for nobody); a waiter of the key lock has a positive margin.

The library's theorems for induction take an operator as a parameter, which these provers cannot instantiate.
Where a sum or a recursive function has to be reasoned about, the proofs use a least counterexample instead: `WFMin`
gives a minimal element of a set of numbers or of finite sets on which a claim fails, and one unfolding of the
definition refutes it.  That gives the sums of the community modules' folds (`SumIsTotal`: the fold equals
the number of units, which can be taken apart entry by entry), `ParseUsage` and `Sieve`.

Only model-checked: liveness (`OperationsEnd`, `WatchReturns`, `CallEnds`, `AcceptedJobEnds`, `EvictionCatchesUp`), because fairness
and ENABLED are beyond the prover; and `TypeOK` of `MCComponents`, the conjunction by component of the type invariants that are
proved one by one.

## 5. Not modelled, and the plan

Not modelled, and why:

- layout, formatting, argument grammar, response schemas, logging and metrics: they keep no state and make no promise a
  model could be wrong about;
- request bodies of the API adapters, thinking budgets, model listings: text built from arguments, without a branch that a
  property depends on;
- ciphers, digests, SQLite and the file system's atomic rename: taken for what they promise;
- the worker that a probe denied its lock, an eviction that fails a call already saved: the models have these outcomes, and
  no line of the code or its documents says what should happen instead (see the notes under "hazards");
- row ids that are given out again.  `executions.id` is an INTEGER PRIMARY KEY without AUTOINCREMENT, so the id of the newest row,
  once that row is deleted, is the id of the next run.  A statement that has read an id and then uses it (the document read
  of `find_current`, the UPDATEs of `finalize_output_persisted`, the INSERT of `persist_artifact`) could so meet another run's row if
  a deletion and an insertion fall between two of its statements.  In the models it finds no row.  All theorems and runs
  about `RecordReplay` are about stores in which this does not happen;
- METER calls, which look whether there is an answer and run the client in any case, without a row or a blob.

What is left to do: `StoreEncryption` composed with `RecordReplay`, so that a quarantine meets a migration; row ids as a
table of their own, to see what their reuse does to a hit; an abstract specification of the daemon's jobs, for
`DaemonJobs` and `DetachedJobs` to implement.
