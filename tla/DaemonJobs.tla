------------------------------ MODULE DaemonJobs ------------------------------
(***************************************************************************)
(* Detached executions of the daemon: POST /jobs puts a job in the         *)
(* registry and in the queue of its thread pool, a thread of the pool runs *)
(* it, and GET /jobs/{id} and /jobs/{id}/stream read its fields without a  *)
(* lock while that thread writes them.  The registry lives in memory: a    *)
(* daemon interrupted with Ctrl-C runs its queue down; one that is         *)
(* terminated finishes its requests, not its jobs; a killed one, neither.  *)
(***************************************************************************)
EXTENDS Naturals, Sequences, FiniteSets

CONSTANTS
  Job,            \* jobs that are submitted
  Asker,          \* requests that ask for a job
  Workers         \* threads of the pool

ASSUME JobRegistryAssumption == Workers \in Nat \ {0} /\ IsFiniteSet(Job)

VARIABLES
  serving,        \* the daemon: up, told to end (no new request), or gone
  job,            \* the registry: state, execution and error of each job
  queue,          \* the pool's work queue
  thread,         \* what the pool does with each job
  asker           \* what each request does next, and what it has read

registryVars == <<serving, job, queue, thread, asker>>

JobState == {"absent", "pending", "running", "done", "error"}
Ended    == {"done", "error"}
Unknown  == [state |-> "absent", execution |-> FALSE, error |-> FALSE]

AskerState ==
  [at : {"idle", "follow", "execution", "state", "error", "reply"},
   route : {"get", "stream"}, of : SUBSET Job,
   execution : BOOLEAN, state : JobState, error : BOOLEAN]

RegistryTypeOK ==
  /\ serving \in {"up", "interrupted", "terminated", "gone"}
  /\ job \in [Job -> [state : JobState, execution : BOOLEAN, error : BOOLEAN]]
  /\ queue \in Seq(Job) /\ Len(queue) <= Cardinality(Job)
  /\ thread \in [Job -> {"none", "start", "call", "hung", "raised", "returned", "end"}]
  /\ asker \in [Asker -> AskerState]

Idle == [at |-> "idle", route |-> "get", of |-> {},
         execution |-> FALSE, state |-> "absent", error |-> FALSE]

RegistryInit ==
  /\ serving = "up" /\ queue = <<>>
  /\ job = [j \in Job |-> Unknown] /\ thread = [j \in Job |-> "none"]
  /\ asker = [a \in Asker |-> Idle]

-----------------------------------------------------------------------------
(* Submission and the pool.                                                *)

\* The registry's entry, then the queue; an unknown client is refused before either.
SubmitJob(j) ==
  /\ serving = "up" /\ job[j] = Unknown
  /\ job' = [job EXCEPT ![j].state = "pending"] /\ queue' = Append(queue, j)
  /\ UNCHANGED <<serving, thread, asker>>

Busy == {j \in Job : thread[j] \notin {"none", "end"}}

\* (mutant) the jobs in front of the queue are left lying when the daemon is interrupted
TakesOnlyWhenUp == serving = "up" /\ queue # <<>> /\ Cardinality(Busy) < Workers
CanTake         == serving # "gone" /\ queue # <<>> /\ Cardinality(Busy) < Workers
TakeJob ==
  /\ CanTake
  /\ thread' = [thread EXCEPT ![Head(queue)] = "start"] /\ queue' = Tail(queue)
  /\ UNCHANGED <<serving, job, asker>>

Work(j, from, to) == serving # "gone" /\ thread[j] = from /\ thread' = [thread EXCEPT ![j] = to]

MarkRunning(j) ==
  /\ Work(j, "start", "call") /\ job' = [job EXCEPT ![j].state = "running"]
  /\ UNCHANGED <<serving, queue, asker>>

\* The daemon gives its local clients no timeout: a call may also never come back.
CallComesBack(j) ==
  /\ Work(j, "call", "returned") \/ Work(j, "call", "raised")
  /\ UNCHANGED <<serving, job, queue, asker>>
CallHangs(j) ==
  /\ Work(j, "call", "hung") /\ UNCHANGED <<serving, job, queue, asker>>

\* What is set first, then the state, with readers in between.
SetExecution(j) == ~job[j].execution /\ job' = [job EXCEPT ![j].execution = TRUE]
SetError(j)     == ~job[j].error /\ job' = [job EXCEPT ![j].error = TRUE]
SetState(j, s)  == job' = [job EXCEPT ![j].state = s]

\* (mutant) the state is set before the execution
MarkDoneStateFirst(j) ==
  /\ \/ Work(j, "returned", "returned") /\ job[j].state # "done" /\ SetState(j, "done")
     \/ Work(j, "returned", "end") /\ job[j].state = "done" /\ SetExecution(j)
  /\ UNCHANGED <<serving, queue, asker>>
MarkDone(j) ==
  /\ \/ Work(j, "returned", "returned") /\ SetExecution(j)
     \/ Work(j, "returned", "end") /\ job[j].execution /\ SetState(j, "done")
  /\ UNCHANGED <<serving, queue, asker>>

MarkError(j) ==
  /\ \/ Work(j, "raised", "raised") /\ SetError(j)
     \/ Work(j, "raised", "end") /\ job[j].error /\ SetState(j, "error")
  /\ UNCHANGED <<serving, queue, asker>>

PoolStep(j) == MarkRunning(j) \/ CallComesBack(j) \/ MarkDone(j) \/ MarkError(j)

-----------------------------------------------------------------------------
(* Asking for a job.                                                       *)

Asked(a, state) == asker' = [asker EXCEPT ![a] = state]

\* 404 for a job the registry does not know.
AskForJob(a) ==
  /\ serving = "up" /\ asker[a].at = "idle"
  /\ \E j \in Job :
       /\ job[j] # Unknown
       /\ \/ Asked(a, [Idle EXCEPT !.at = "execution", !.of = {j}])
          \/ Asked(a, [Idle EXCEPT !.at = "follow", !.route = "stream", !.of = {j}])
  /\ UNCHANGED <<serving, job, queue, thread>>

\* The stream looks at the state until it is final; then it reads as GET does: the
\* execution, the state, the error.
ReadsJob(a, at) == asker[a].at = at /\ UNCHANGED <<serving, job, queue, thread>>
Follow(a) ==
  /\ ReadsJob(a, "follow")
  /\ \E j \in asker[a].of : job[j].state \in Ended /\ Asked(a, [asker[a] EXCEPT !.at = "execution"])
ReadExecution(a) ==
  /\ ReadsJob(a, "execution")
  /\ \E j \in asker[a].of : Asked(a, [asker[a] EXCEPT !.at = "state", !.execution = job[j].execution])
ReadState(a) ==
  /\ ReadsJob(a, "state")
  /\ \E j \in asker[a].of : Asked(a, [asker[a] EXCEPT !.at = "error", !.state = job[j].state])
ReadError(a) ==
  /\ ReadsJob(a, "error")
  /\ \E j \in asker[a].of : Asked(a, [asker[a] EXCEPT !.at = "reply", !.error = job[j].error])
AskAgain(a) == ReadsJob(a, "reply") /\ Asked(a, Idle)

-----------------------------------------------------------------------------
(* The end of the daemon.                                                  *)

\* On a signal uvicorn takes no more requests and finishes the open ones; then it raises
\* the signals it caught again, the last one first, under the handlers it had found.
ToldToEnd(from, to) ==
  /\ serving \in from /\ serving' = to
  /\ UNCHANGED <<job, queue, thread, asker>>
Interrupt == ToldToEnd({"up", "terminated"}, "interrupted")
Terminate == ToldToEnd({"up", "interrupted"}, "terminated")

RequestsOver == \A a \in Asker : asker[a].at \in {"idle", "reply"}

\* SIGINT has become a KeyboardInterrupt, which uvicorn.run catches: main returns, and the
\* interpreter waits for the pool and its queue.
LeaveWhenDrained ==
  /\ serving = "interrupted" /\ RequestsOver /\ queue = <<>> /\ Busy = {} /\ serving' = "gone"
  /\ UNCHANGED <<job, queue, thread, asker>>

\* The next daemon knows none of the jobs.
Forget ==
  /\ serving' = "gone"
  /\ job' = [j \in Job |-> Unknown] /\ queue' = <<>> /\ thread' = [j \in Job |-> "none"]
  /\ asker' = [a \in Asker |-> Idle]

\* SIGTERM has its default handler again, which ends the process under its pool.
DieOfTerm == serving = "terminated" /\ RequestsOver /\ Forget

\* SIGKILL, a crash, or a second Ctrl-C while the pool is waited for.
KillDaemon == serving # "gone" /\ Forget

RegistryNext ==
  \/ \E j \in Job : SubmitJob(j) \/ PoolStep(j) \/ CallHangs(j)
  \/ TakeJob
  \/ \E a \in Asker : \/ AskForJob(a) \/ Follow(a) \/ ReadExecution(a) \/ ReadState(a)
                      \/ ReadError(a) \/ AskAgain(a)
  \/ Interrupt \/ Terminate \/ LeaveWhenDrained \/ DieOfTerm \/ KillDaemon

\* Threads run; a call that does not hang comes back.
RegistryFairness == WF_registryVars(TakeJob) /\ \A j \in Job : WF_registryVars(PoolStep(j))
RegistrySpec == RegistryInit /\ [][RegistryNext]_registryVars /\ RegistryFairness

-----------------------------------------------------------------------------
(* Properties.                                                             *)

Hung == {j \in Job : thread[j] = "hung"}

\* An accepted job comes to an end, when the daemon is interrupted as well, unless its own
\* call hangs, hung calls hold every thread of the pool, or the daemon is terminated or
\* killed, which forgets it ("absent").  (Jobs are finitely many here, so in the end all
\* of them are over.)
AcceptedJobEnds ==
  <>[](\A j \in Job : \/ job[j].state \in Ended \cup {"absent"} \/ j \in Hung
                       \/ Cardinality(Hung) = Workers)

\* The last event of a stream carries what it announces: the execution of a complete
\* one, the error of a failed one, never both (controllers/jobs.py:87-89).
StreamTellsTheEnd ==
  \A a \in Asker : asker[a].at = "reply" /\ asker[a].route = "stream" =>
    /\ asker[a].state \in Ended
    /\ asker[a].execution = (asker[a].state = "done")
    /\ asker[a].error = (asker[a].state = "error")

\* A job that is reported done is reported with its output (test_jobs.py:130-137).
DoneIsToldWithOutput ==
  \A a \in Asker : asker[a].at = "reply" /\ asker[a].state = "done" => asker[a].execution
=============================================================================
