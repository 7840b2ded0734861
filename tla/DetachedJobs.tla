----------------------------- MODULE DetachedJobs -----------------------------
(***************************************************************************)
(* One detached job of the command line: `run --detach` writes the job's   *)
(* spec and status and spawns a worker; the worker runs the call while it  *)
(* holds the job's liveness lock; `execution status`, `result`, `watch`    *)
(* and `materialize` read the status file and then probe the lock, which   *)
(* they do by taking it.                                                   *)
(***************************************************************************)
EXTENDS Naturals

CONSTANTS
  Reader,         \* commands that ask about the job
  WorkerDies      \* whether the worker may be killed

ASSUME JobsAssumption == WorkerDies \in BOOLEAN

VARIABLES
  jobSpec,        \* spec.json exists
  jobStatus,      \* the state in status.json
  jobEvents,      \* the kinds of event in events.jsonl
  submitter,      \* what `run --detach` does next
  worker,         \* what the worker does next
  lockFile,       \* the lock file exists
  probing,        \* the commands whose probe holds the lock
  reader          \* what each command does next, and what it found

jobVars == <<jobSpec, jobStatus, jobEvents, submitter, worker, lockFile, probing,
             reader>>
jobFiles == <<jobSpec, jobStatus, jobEvents>>

Terminal == {"succeeded", "failed"}
Stored   == {"none", "submitted", "running"} \cup Terminal

\* From the moment it has the lock to its release.
Owning == {"start", "announce", "call", "fail", "failed", "succeed", "succeeded"}
Over   == {"denied", "dead", "ended"}

\* `execution materialize` goes on as `execution result` does.
Command == {"status", "result", "watch"}

ReaderState ==
  [at : {"idle", "read", "probe", "release", "decide", "settle", "fetch", "done"},
   command : Command,
   saw : Stored, held : BOOLEAN, state : Stored \cup {"interrupted", "unknown"}]

JobsTypeOK ==
  /\ jobSpec \in BOOLEAN /\ jobStatus \in Stored /\ jobEvents \subseteq Stored
  /\ submitter \in {"spec", "status", "event", "spawn", "done", "refused"}
  /\ worker \in {"absent", "spawned", "opened"} \cup Owning \cup Over
  /\ lockFile \in BOOLEAN /\ probing \subseteq Reader
  /\ reader \in [Reader -> ReaderState]

JobsInit ==
  /\ jobSpec = FALSE /\ jobStatus = "none" /\ jobEvents = {}
  /\ submitter = "spec" /\ worker = "absent"
  /\ lockFile = FALSE /\ probing = {}
  /\ reader = [r \in Reader |-> [at |-> "idle", command |-> "status", saw |-> "none",
                                 held |-> FALSE, state |-> "unknown"]]

-----------------------------------------------------------------------------
(* run --detach                                                            *)

\* An encrypted store needs the token before anything is written.
RefuseWithoutToken ==
  /\ submitter = "spec" /\ submitter' = "refused"
  /\ UNCHANGED <<jobFiles, worker, lockFile, probing, reader>>

WriteSpec ==
  /\ submitter = "spec" /\ submitter' = "status" /\ jobSpec' = TRUE
  /\ UNCHANGED <<jobStatus, jobEvents, worker, lockFile, probing, reader>>

WriteSubmitted ==
  /\ submitter = "status" /\ submitter' = "event" /\ jobStatus' = "submitted"
  /\ UNCHANGED <<jobSpec, jobEvents, worker, lockFile, probing, reader>>

LogSubmitted ==
  /\ submitter = "event" /\ submitter' = "spawn"
  /\ jobEvents' = jobEvents \cup {"submitted"}
  /\ UNCHANGED <<jobSpec, jobStatus, worker, lockFile, probing, reader>>

SpawnWorker ==
  /\ submitter = "spawn" /\ submitter' = "done" /\ worker' = "spawned"
  /\ UNCHANGED <<jobFiles, lockFile, probing, reader>>

-----------------------------------------------------------------------------
(* The worker.  Its spec has been written before it was spawned.           *)

\* Connecting creates the file; the lock is the next statement.
OpenJobLock ==
  /\ worker = "spawned" /\ worker' = "opened" /\ lockFile' = TRUE
  /\ UNCHANGED <<jobFiles, submitter, probing, reader>>

\* No timeout: whoever has the lock, a probe too, makes the worker give up.
HoldJobLock ==
  /\ worker = "opened"
  /\ worker' = IF probing = {} THEN "start" ELSE "denied"
  /\ UNCHANGED <<jobFiles, submitter, lockFile, probing, reader>>

SetStatus(at, status, next) ==
  /\ worker = at /\ worker' = next /\ jobStatus' = status
  /\ UNCHANGED <<jobSpec, jobEvents, submitter, lockFile, probing, reader>>

LogEvent(at, kind, next) ==
  /\ worker = at /\ worker' = next /\ jobEvents' = jobEvents \cup {kind}
  /\ UNCHANGED <<jobSpec, jobStatus, submitter, lockFile, probing, reader>>

WorkerRunning   == SetStatus("start", "running", "announce")
WorkerAnnounces == LogEvent("announce", "running", "call")

\* The call through the cache: an exception, or an execution.  A failed run that
\* is not recorded is an execution too, with nothing in the store.
WorkerCall ==
  /\ worker = "call"
  /\ worker' \in {"fail", "succeed"}
  /\ UNCHANGED <<jobFiles, submitter, lockFile, probing, reader>>

WorkerFails    == SetStatus("fail", "failed", "failed") \/ LogEvent("failed", "failed", "ended")
WorkerSucceeds == \/ SetStatus("succeed", "succeeded", "succeeded")
                  \/ LogEvent("succeeded", "succeeded", "ended")

\* The operating system takes a dead worker's lock back.
WorkerDeath ==
  /\ WorkerDies /\ worker \notin Over \cup {"absent"} /\ worker' = "dead"
  /\ UNCHANGED <<jobFiles, submitter, lockFile, probing, reader>>

WorkerStep == \/ OpenJobLock \/ HoldJobLock \/ WorkerRunning \/ WorkerAnnounces
              \/ WorkerCall \/ WorkerFails \/ WorkerSucceeds

-----------------------------------------------------------------------------
(* The commands that ask about the job.                                    *)

OwnedByWorker == worker \in Owning
JobExists == jobSpec \/ jobStatus # "none"

Step(r, state) == reader' = [reader EXCEPT ![r] = state]
Exit(r) == Step(r, [reader[r] EXCEPT !.at = "done", !.command = "status"])

Ask(r) ==
  /\ reader[r].at = "idle"
  /\ \E command \in Command :
       IF JobExists THEN Step(r, [reader[r] EXCEPT !.at = "read", !.command = command]) ELSE Exit(r)
  /\ UNCHANGED <<jobFiles, submitter, worker, lockFile, probing>>

ReadStatus(r) ==
  /\ reader[r].at = "read" /\ Step(r, [reader[r] EXCEPT !.at = "probe", !.saw = jobStatus])
  /\ UNCHANGED <<jobFiles, submitter, worker, lockFile, probing>>

\* Held if the worker, or another probe, has the lock; else take it and let it go.
Probe(r) ==
  /\ reader[r].at = "probe"
  /\ IF lockFile /\ ~OwnedByWorker /\ probing = {}
       THEN Step(r, [reader[r] EXCEPT !.at = "release"]) /\ probing' = {r}
       ELSE /\ Step(r, [reader[r] EXCEPT !.at = "decide",
                                       !.held = lockFile /\ (OwnedByWorker \/ probing # {})])
            /\ UNCHANGED probing
  /\ UNCHANGED <<jobFiles, submitter, worker, lockFile>>

ProbeEnds(r) ==
  /\ reader[r].at = "release"
  /\ Step(r, [reader[r] EXCEPT !.at = "decide", !.held = FALSE]) /\ probing' = probing \ {r}
  /\ UNCHANGED <<jobFiles, submitter, worker, lockFile>>

\* (mutant) a job that has not started counts as interrupted
NotStarted(saw, held) ==
  CASE saw = "none"                                -> "unknown"
    [] saw \in {"submitted", "running"} /\ ~held   -> "interrupted"
    [] OTHER                                       -> saw
\* (mutant) the lock is not asked
AsRecorded(saw, held) == IF saw = "none" THEN "unknown" ELSE saw
DerivedState(saw, held) ==
  CASE saw = "none"              -> "unknown"
    [] saw = "running" /\ ~held  -> "interrupted"
    [] OTHER                     -> saw

\* What a command does with the state: it exits (with 0, 1, 4 or 75), looks again, or
\* fetches the answer.
NextStep(command, state) ==
  CASE command = "watch" /\ state \in Terminal                          -> "settle"
    [] command = "watch" /\ state \notin Terminal \cup {"interrupted"} -> "read"
    [] command = "result" /\ state = "succeeded"                        -> "fetch"
    [] OTHER                                                            -> "done"

Decide(r) ==
  /\ reader[r].at = "decide"
  /\ LET state == DerivedState(reader[r].saw, reader[r].held)
         next  == NextStep(reader[r].command, state)
     IN  Step(r, [at |-> next, state |-> state, saw |-> "none", held |-> FALSE,
                  command |-> IF next = "done" THEN "status" ELSE reader[r].command])
  /\ UNCHANGED <<jobFiles, submitter, worker, lockFile, probing>>

\* A watcher gives the last event a moment to land.
Settle(r) ==
  /\ reader[r].at = "settle" /\ Exit(r)
  /\ UNCHANGED <<jobFiles, submitter, worker, lockFile, probing>>

\* The current answer of the key, if there is one and the token opens it.
Fetch(r) ==
  /\ reader[r].at = "fetch" /\ Exit(r)
  /\ UNCHANGED <<jobFiles, submitter, worker, lockFile, probing>>

ReaderStep(r) == \/ ReadStatus(r) \/ Probe(r) \/ ProbeEnds(r) \/ Decide(r)
                 \/ Settle(r) \/ Fetch(r)

JobsNext ==
  \/ RefuseWithoutToken \/ WriteSpec \/ WriteSubmitted \/ LogSubmitted \/ SpawnWorker
  \/ WorkerStep \/ WorkerDeath
  \/ \E r \in Reader : Ask(r) \/ ReaderStep(r)

\* The worker's call ends (the client has its timeout) and a command keeps running.
JobsFairness == WF_jobVars(WorkerStep) /\ \A r \in Reader : WF_jobVars(ReaderStep(r))
JobsSpec == JobsInit /\ [][JobsNext]_jobVars /\ JobsFairness

-----------------------------------------------------------------------------
(* Properties.                                                             *)

\* A job is reported interrupted only when no worker is running it or will (the probe
\* comes after the status; async_jobs.py:14-20).  It may have finished meanwhile.
InterruptedIsOver ==
  \A r \in Reader : reader[r].state = "interrupted" => worker \in {"dead", "ended"}

\* Once a job runs, every watcher returns: the status becomes terminal or the lock
\* comes free, whatever the other probes do.  (Commands are finitely many here, so what
\* leads to an end is eventually over.)
WatchReturns ==
  <>[](\A r \in Reader :
         ~(jobStatus = "running" /\ reader[r].command = "watch" /\ reader[r].at # "done"))
=============================================================================
