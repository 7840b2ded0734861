------------------------------ MODULE Jobs_proofs ------------------------------
(***************************************************************************)
(* Proofs about calls that are made now and carried out later: the run     *)
(* command and its settings (RunCommand), a detached job and the commands  *)
(* that ask about it (DetachedJobs), the daemon's jobs (DaemonJobs), the   *)
(* calls that pass through its gateway (Gateway) and the adapters that     *)
(* either finds for a client's name (AdapterDiscovery); for any number of  *)
(* commands, jobs, requests, threads, callers and plugins.                 *)
(***************************************************************************)
EXTENDS RunCommand, DetachedJobs, DaemonJobs, Gateway, AdapterDiscovery,
        FiniteSetTheorems, WellFoundedInduction, TLAPS

-----------------------------------------------------------------------------
(* RunCommand.  The settings ask for an offline call in one of two ways    *)
(* only, and what they ask for is in the spec before anything changes.     *)

SettingsSayOffline ==
  \/ args.offline
  \/ /\ ~args.force /\ args.mode = "unset"
     /\ env = "offline" \/ (env \in {"unset", "empty"} /\ configFile.mode = "offline")

CommandInv ==
  /\ CommandTypeOK
  /\ cmdAt = "idle" => ~askedOffline
  /\ cmdAt = "resolve" /\ askedOffline => SettingsSayOffline
  /\ cmdAt \in {"submitted", "execute"} /\ askedOffline => spec.mode = "offline"
  /\ clientRan => cmdAt = "over" /\ ~askedOffline

LEMMA OfflineResolves ==
  ASSUME SettingsSayOffline, env # "bad" PROVE CacheMode = "offline"
BY DEF SettingsSayOffline, CacheMode, Pick

LEMMA CacheModeIsMode ==
  ASSUME CommandTypeOK, ~Refused(configFile), ~EnvRefused PROVE CacheMode \in Mode
BY DEF CommandTypeOK, CacheMode, Pick, Mode, Args, File, NoFile, Broken, EnvMode, FileMode,
       Refused, EnvRefused

LEMMA CommandInvInit == CommandInit => CommandInv
<1> SUFFICES ASSUME CommandInit PROVE CommandInv
  OBVIOUS
<1>1. args \in Args BY DEF CommandInit, Args
<1>2. spec.mode = "none" /\ spec.known \in BOOLEAN BY DEF CommandInit, NoSpec
<1>3. CommandTypeOK BY <1>1, <1>2 DEF CommandInit, CommandTypeOK, EnvMode
<1> QED BY <1>3 DEF CommandInit, CommandInv

LEMMA CommandInvStep == CommandInv /\ [CommandNext]_cmdVars => CommandInv'
<1> SUFFICES ASSUME CommandInv, [CommandNext]_cmdVars PROVE CommandInv'
  OBVIOUS
<1> USE DEF CommandInv, SettingsSayOffline
<1>1. CASE UNCHANGED cmdVars BY <1>1 DEF cmdVars, CommandTypeOK
<1>2. CASE Invoke
  <2>1. askedOffline' \in BOOLEAN /\ (askedOffline' => SettingsSayOffline')
    BY <1>2, Zenon DEF Invoke
  <2> QED BY <1>2, <2>1 DEF Invoke, CommandTypeOK
<1>3. CASE RefuseCommand BY <1>3 DEF RefuseCommand, ExitWith, CommandTypeOK
<1>4. CASE ResolveCommand
  <2>1. /\ ~Refused(configFile) /\ ~EnvRefused /\ cmdAt = "resolve"
        /\ spec' \in Resolved /\ cmdAt' \in {"submitted", "execute", "over"}
        /\ exitCode' \in {exitCode, "4"}
        /\ UNCHANGED <<args, env, configFile, entry, clientRan, askedOffline>>
    BY <1>4 DEF ResolveCommand, ExitWith
  <2>2. PICK known \in {TRUE, configFile.adapters = "others"} :
          spec' = [mode |-> CacheMode, known |-> known]
    BY <2>1 DEF Resolved
  <2>3. spec'.mode \in Mode /\ spec'.known \in BOOLEAN BY <2>1, <2>2, CacheModeIsMode
  <2>4. askedOffline => spec'.mode = "offline" BY <2>1, <2>2, OfflineResolves DEF EnvRefused
  <2> QED BY <2>1, <2>3, <2>4 DEF CommandTypeOK
<1>5. CASE StartSubmitted BY <1>5 DEF StartSubmitted, AsSubmitted, CommandTypeOK
<1>6. CASE EditConfig
  <2>1. configFile' \in File BY <1>6 DEF EditConfig, CommandTypeOK, File, NoFile, Broken
  <2> QED BY <1>6, <2>1 DEF EditConfig, CommandTypeOK
<1>7. CASE EntryComesOrGoes BY <1>7 DEF EntryComesOrGoes, CommandTypeOK
<1>8. CASE CacheErrorExit BY <1>8 DEF CacheErrorExit, ExitWith, CommandTypeOK
<1>9. CASE Replay BY <1>9 DEF Replay, ExitWith, CommandTypeOK
<1>10. CASE OfflineMiss BY <1>10 DEF OfflineMiss, ExitWith, CommandTypeOK
<1>11. CASE RunClient BY <1>11 DEF RunClient, ExitWith, CommandTypeOK
<1> QED BY <1>1, <1>2, <1>3, <1>4, <1>5, <1>6, <1>7, <1>8, <1>9, <1>10, <1>11 DEF CommandNext

\* gmlcache run, detached or not, goes by the settings it was given; the config file's
\* later edits do not reach the worker, and a file that `config validate` finds right stops no
\* command but for an empty list of adapters or a % under a key that only loading reads.
THEOREM SettingsKept == CommandSpec => []SettingsAreKept
<1>1. CommandInv => SettingsAreKept
  BY DEF CommandInv, SettingsAreKept, OfflineStaysOffline, ValidFileLoads, Errors, Refused,
         LoadRaises, ValidateRaises, CommandTypeOK, File, NoFile, Broken, Percent
<1> QED BY <1>1, CommandInvInit, CommandInvStep, PTL DEF CommandSpec

\* Settings, the spec of a submission and the exit code keep their shape.
THEOREM CommandTypes == CommandSpec => []CommandTypeOK
<1>1. CommandInv => CommandTypeOK BY DEF CommandInv
<1> QED BY <1>1, CommandInvInit, CommandInvStep, PTL DEF CommandSpec

-----------------------------------------------------------------------------
(* DetachedJobs.  The worker writes the status only while it holds its     *)
(* lock, so a command that has read "running" and then finds the lock free *)
(* looks at a worker that is over.                                         *)

Started  == (Owning \ {"start"}) \cup {"dead", "ended"}
IsOver   == worker \in {"dead", "ended"}

WorkerStands ==
  /\ worker # "absent" => submitter = "done"
  /\ jobStatus \notin {"none", "submitted"} => worker \in Started /\ lockFile
  /\ worker \in {"opened"} \cup Owning => lockFile

\* What a command has read and seen; old is over for good.
Informed(state) ==
  /\ state.at \in {"idle", "read", "probe", "release", "decide", "settle", "fetch", "done"}
  /\ state.held \in BOOLEAN
  /\ state.saw = "running" => worker \in Started /\ lockFile
  /\ state.at = "release" /\ state.saw = "running" => IsOver
  /\ state.at = "decide" /\ state.saw = "running" /\ ~state.held => IsOver
  /\ state.state = "interrupted" => IsOver

JobsInv == JobsTypeOK /\ WorkerStands /\ \A r \in Reader : Informed(reader[r])

LEMMA JobsInvInit == JobsInit => JobsInv
<1> SUFFICES ASSUME JobsInit PROVE JobsInv
  OBVIOUS
<1> DEFINE idle == [at |-> "idle", command |-> "status", saw |-> "none", held |-> FALSE, state |-> "unknown"]
<1>1. reader = [r \in Reader |-> idle] BY DEF JobsInit
<1>2. idle \in ReaderState BY DEF ReaderState, Command, Stored, Terminal
<1>3. reader \in [Reader -> ReaderState] BY <1>1, <1>2
<1>4. \A r \in Reader : Informed(reader[r]) BY <1>1 DEF Informed
<1> QED BY <1>3, <1>4 DEF JobsInit, JobsInv, JobsTypeOK, WorkerStands, Stored, Terminal, Owning, Over

\* A command that takes a step keeps the invariant if it is informed afterwards.
LEMMA ReaderMoves ==
  ASSUME JobsInv, NEW r \in Reader, NEW state \in ReaderState, Informed(state),
         Step(r, state), UNCHANGED <<jobFiles, submitter, worker, lockFile>>, probing' \subseteq Reader
  PROVE  JobsInv'
<1>1. reader' = [reader EXCEPT ![r] = state] /\ reader \in [Reader -> ReaderState]
  BY DEF Step, JobsInv, JobsTypeOK
<1>2. reader' \in [Reader -> ReaderState] BY <1>1
<1>3. UNCHANGED <<jobSpec, jobStatus, jobEvents, submitter, worker, lockFile>> BY DEF jobFiles
<1>4. ASSUME NEW q \in Reader PROVE Informed(reader[q])'
  <2>1. reader'[q] = state \/ reader'[q] = reader[q] BY <1>1
  <2>2. Informed(reader'[q]) BY <2>1 DEF JobsInv
  <2> QED BY <2>2, <1>3 DEF Informed, IsOver
<1> QED BY <1>2, <1>3, <1>4 DEF JobsInv, JobsTypeOK, WorkerStands

\* A step of the submitter or the worker keeps it if none that is over begins again.
LEMMA WorkerMoves ==
  ASSUME JobsInv, UNCHANGED <<reader, probing>>, WorkerStands',
         jobSpec' \in BOOLEAN, jobStatus' \in Stored, jobEvents' \subseteq Stored,
         submitter' \in {"spec", "status", "event", "spawn", "done", "refused"},
         worker' \in {"absent", "spawned", "opened"} \cup Owning \cup Over, lockFile' \in BOOLEAN,
         worker \in Started => worker' \in Started, IsOver => IsOver', lockFile => lockFile'
  PROVE  JobsInv'
<1>1. JobsTypeOK' BY DEF JobsInv, JobsTypeOK
<1>2. ASSUME NEW q \in Reader PROVE Informed(reader[q])'
  BY DEF JobsInv, Informed
<1> QED BY <1>1, <1>2 DEF JobsInv

LEMMA JobsInvStep == JobsInv /\ [JobsNext]_jobVars => JobsInv'
<1> SUFFICES ASSUME JobsInv, [JobsNext]_jobVars PROVE JobsInv'
  OBVIOUS
<1>1. /\ JobsTypeOK /\ WorkerStands /\ reader \in [Reader -> ReaderState]
      /\ \A r \in Reader : Informed(reader[r]) /\ reader[r] \in ReaderState
  BY DEF JobsInv, JobsTypeOK
<1>2. CASE UNCHANGED jobVars
  BY <1>1, <1>2 DEF jobVars, JobsInv, JobsTypeOK, WorkerStands, Informed, IsOver
<1>3. CASE RefuseWithoutToken \/ WriteSpec \/ WriteSubmitted \/ LogSubmitted \/ SpawnWorker
  BY <1>1, <1>3, WorkerMoves
  DEF RefuseWithoutToken, WriteSpec, WriteSubmitted, LogSubmitted, SpawnWorker, jobFiles,
      JobsTypeOK, WorkerStands, Started, Owning, Over, Stored, Terminal, IsOver
<1>4. CASE WorkerDeath \/ OpenJobLock \/ HoldJobLock \/ WorkerCall
  BY <1>1, <1>4, WorkerMoves
  DEF WorkerDeath, OpenJobLock, HoldJobLock, WorkerCall, jobFiles,
      JobsTypeOK, WorkerStands, Started, Owning, Over, Stored, Terminal, IsOver
<1>5. CASE WorkerRunning \/ WorkerAnnounces \/ WorkerFails \/ WorkerSucceeds
  BY <1>1, <1>5, WorkerMoves
  DEF WorkerRunning, WorkerAnnounces, WorkerFails, WorkerSucceeds, SetStatus, LogEvent,
      JobsTypeOK, WorkerStands, Started, Owning, Over, Stored, Terminal, IsOver
<1>6. ASSUME NEW r \in Reader, Ask(r) \/ ReaderStep(r) PROVE JobsInv'
  <2>1. Informed(reader[r]) /\ reader[r] \in ReaderState /\ probing \subseteq Reader
    BY <1>1 DEF JobsTypeOK
  <2>2. CASE Ask(r)
    <3>1. PICK command \in Command :
            \/ Step(r, [reader[r] EXCEPT !.at = "read", !.command = command])
            \/ Exit(r)
      BY <2>2 DEF Ask
    <3>2. UNCHANGED <<jobFiles, submitter, worker, lockFile, probing>> BY <2>2 DEF Ask
    <3> DEFINE asks == [reader[r] EXCEPT !.at = "read", !.command = command]
               ends == [reader[r] EXCEPT !.at = "done", !.command = "status"]
    <3>3. asks \in ReaderState /\ ends \in ReaderState BY <2>1 DEF ReaderState, Command
    <3>4. Informed(asks) /\ Informed(ends) BY <2>1 DEF Informed, ReaderState
    <3> QED BY <3>1, <3>2, <3>3, <3>4, <2>1, ReaderMoves DEF Exit
  <2>3. CASE ReadStatus(r)
    <3> DEFINE next == [reader[r] EXCEPT !.at = "probe", !.saw = jobStatus]
    <3>1. next \in ReaderState BY <1>1, <2>1 DEF ReaderState, JobsTypeOK
    <3>2. Informed(next) BY <1>1, <2>1 DEF Informed, ReaderState, WorkerStands
    <3> QED BY <2>1, <2>3, <3>1, <3>2, ReaderMoves DEF ReadStatus
  <2>4. CASE Probe(r)
    <3>1. CASE lockFile /\ ~OwnedByWorker /\ probing = {}
      <4> DEFINE next == [reader[r] EXCEPT !.at = "release"]
      <4>1. next \in ReaderState BY <2>1 DEF ReaderState
      <4>2. Informed(next)
        BY <2>1, <3>1 DEF Informed, ReaderState, OwnedByWorker, Started, IsOver
      <4>3. Step(r, next) /\ probing' = {r} /\ UNCHANGED <<jobFiles, submitter, worker, lockFile>>
        BY <2>4, <3>1 DEF Probe
      <4> QED BY <4>1, <4>2, <4>3, ReaderMoves
    <3>2. CASE ~(lockFile /\ ~OwnedByWorker /\ probing = {})
      <4> DEFINE held == lockFile /\ (OwnedByWorker \/ probing # {})
                 next == [reader[r] EXCEPT !.at = "decide", !.held = held]
      <4>1. next \in ReaderState BY <2>1 DEF ReaderState
      <4>2. Informed(next) BY <2>1, <2>4, <3>2 DEF Informed, ReaderState, Probe
      <4>3. Step(r, next) /\ UNCHANGED <<jobFiles, submitter, worker, lockFile, probing>>
        BY <2>4, <3>2 DEF Probe
      <4> QED BY <2>1, <4>1, <4>2, <4>3, ReaderMoves
    <3> QED BY <3>1, <3>2
  <2>5. CASE ProbeEnds(r)
    <3> DEFINE next == [reader[r] EXCEPT !.at = "decide", !.held = FALSE]
    <3>1. next \in ReaderState BY <2>1 DEF ReaderState
    <3>2. Informed(next) BY <2>1, <2>5 DEF Informed, ReaderState, ProbeEnds
    <3> QED BY <2>1, <2>5, <3>1, <3>2, ReaderMoves DEF ProbeEnds
  <2>6. CASE Decide(r)
    <3> DEFINE state == DerivedState(reader[r].saw, reader[r].held)
               go    == NextStep(reader[r].command, state)
               next  == [at |-> go, state |-> state, saw |-> "none", held |-> FALSE,
                         command |-> IF go = "done" THEN "status" ELSE reader[r].command]
    <3>1. go \in {"settle", "read", "fetch", "done"} BY DEF NextStep
    <3>2. state \in Stored \cup {"interrupted", "unknown"}
      BY <2>1 DEF DerivedState, ReaderState, Stored, Terminal
    <3>3. state = "interrupted" => IsOver
      BY <2>1, <2>6 DEF DerivedState, ReaderState, Stored, Terminal, Informed, Decide
    <3> HIDE DEF state, go
    <3>4. next \in ReaderState BY <2>1, <3>1, <3>2 DEF ReaderState, Command, Stored
    <3>5. Informed(next) BY <3>1, <3>3 DEF Informed
    <3> QED BY <2>1, <2>6, <3>4, <3>5, ReaderMoves DEF Decide, state, go
  <2>7. CASE Settle(r) \/ Fetch(r)
    <3> DEFINE ends == [reader[r] EXCEPT !.at = "done", !.command = "status"]
    <3>1. ends \in ReaderState BY <2>1 DEF ReaderState, Command
    <3>2. Informed(ends) BY <2>1 DEF Informed, ReaderState
    <3> QED BY <2>1, <2>7, <3>1, <3>2, ReaderMoves DEF Settle, Fetch, Exit
  <2> QED BY <1>6, <2>2, <2>3, <2>4, <2>5, <2>6, <2>7 DEF ReaderStep
<1> QED BY <1>2, <1>3, <1>4, <1>5, <1>6 DEF JobsNext, WorkerStep

\* However many commands ask and probe, none calls a job interrupted that is running or
\* will run.
THEOREM InterruptedOver == JobsSpec => []InterruptedIsOver
<1>1. JobsInv => InterruptedIsOver BY DEF JobsInv, Informed, InterruptedIsOver, IsOver
<1> QED BY <1>1, JobsInvInit, JobsInvStep, PTL DEF JobsSpec

\* A job's files, its worker and the commands that ask keep their shape.
THEOREM JobsTypes == JobsSpec => []JobsTypeOK
<1>1. JobsInv => JobsTypeOK BY DEF JobsInv
<1> QED BY <1>1, JobsInvInit, JobsInvStep, PTL DEF JobsSpec

-----------------------------------------------------------------------------
(* DaemonJobs.  What a job's fields are at each step of its thread; what   *)
(* is final stays as it is, and a stream looks at nothing else.            *)

Fields(state, does) ==
  /\ does = "none" => state.state \in {"absent", "pending"} /\ ~state.execution /\ ~state.error
  /\ does = "start" => state.state = "pending" /\ ~state.execution /\ ~state.error
  /\ does \in {"call", "hung"} => state.state = "running" /\ ~state.execution /\ ~state.error
  /\ does = "returned" => state.state = "running" /\ ~state.error
  /\ does = "raised" => state.state = "running" /\ ~state.execution
  /\ does = "end" => /\ state.state \in Ended
                     /\ state.execution = (state.state = "done")
                     /\ state.error = (state.state = "error")

\* A queued job waits, once.
QueueStands ==
  /\ \A i \in 1..Len(queue) : thread[queue[i]] = "none" /\ job[queue[i]].state = "pending"
  /\ \A i \in 1..Len(queue), k \in 1..Len(queue) : queue[i] = queue[k] => i = k

\* What a stream has read of its job.
Followed(one) ==
  /\ one.at # "idle" => \E j \in Job : one.of = {j}
  /\ one.route = "stream" =>
       /\ one.at \in {"execution", "state", "error"} => \A j \in one.of : job[j].state \in Ended
       /\ one.at \in {"state", "error"} => \A j \in one.of : one.execution = job[j].execution
       /\ one.at = "error" => \A j \in one.of : one.state = job[j].state
       /\ one.at = "reply" => /\ one.state \in Ended
                              /\ one.execution = (one.state = "done")
                              /\ one.error = (one.state = "error")

FieldsType == [state : JobState, execution : BOOLEAN, error : BOOLEAN]
ThreadType == {"none", "start", "call", "hung", "raised", "returned", "end"}

RegistryTyped ==
  /\ job \in [Job -> FieldsType] /\ thread \in [Job -> ThreadType]
  /\ queue \in Seq(Job) /\ asker \in [Asker -> AskerState]

JobsStand == (\A j \in Job : Fields(job[j], thread[j])) /\ QueueStands

RegistryInv == RegistryTyped /\ JobsStand /\ \A a \in Asker : Followed(asker[a])

LEMMA RegistryInvInit == RegistryInit => RegistryInv
<1> SUFFICES ASSUME RegistryInit PROVE RegistryInv
  OBVIOUS
<1>1. Unknown \in FieldsType /\ Fields(Unknown, "none")
  BY DEF Unknown, FieldsType, JobState, Fields
<1>2. Idle \in AskerState /\ Followed(Idle)
  BY DEF Idle, AskerState, JobState, Followed
<1>3. RegistryTyped BY <1>1, <1>2 DEF RegistryInit, RegistryTyped, ThreadType
<1>4. JobsStand BY <1>1 DEF RegistryInit, JobsStand, QueueStands
<1>5. \A a \in Asker : Followed(asker[a]) BY <1>2 DEF RegistryInit
<1> QED BY <1>3, <1>4, <1>5 DEF RegistryInv

\* A request that takes a step keeps the invariant if what it has read is so.
LEMMA AskerMoves ==
  ASSUME RegistryInv, NEW a \in Asker, NEW state \in AskerState, Followed(state), Asked(a, state),
         UNCHANGED <<job, queue, thread>>
  PROVE  RegistryInv'
<1>1. asker' = [asker EXCEPT ![a] = state] /\ asker \in [Asker -> AskerState]
  BY DEF Asked, RegistryInv, RegistryTyped
<1>2. RegistryTyped' BY <1>1 DEF RegistryInv, RegistryTyped
<1>3. ASSUME NEW b \in Asker PROVE Followed(asker[b])'
  <2>1. asker'[b] = state \/ asker'[b] = asker[b] BY <1>1
  <2>2. Followed(asker'[b]) BY <2>1 DEF RegistryInv
  <2> QED BY <2>2 DEF Followed
<1> QED BY <1>2, <1>3 DEF RegistryInv, JobsStand, QueueStands

\* A step of the pool keeps it if no job that has ended changes.
LEMMA PoolMoves ==
  ASSUME RegistryInv, NEW j \in Job, NEW fields \in FieldsType, NEW does \in ThreadType,
         job' = [job EXCEPT ![j] = fields], thread' = [thread EXCEPT ![j] = does],
         UNCHANGED asker, queue' \in Seq(Job), QueueStands', Fields(fields, does),
         job[j].state \notin Ended
  PROVE  RegistryInv'
<1>1. RegistryTyped' BY DEF RegistryInv, RegistryTyped
<1>2. ASSUME NEW k \in Job PROVE /\ Fields(job'[k], thread'[k])
                                 /\ job[k].state \in Ended => job'[k] = job[k]
  BY <1>1 DEF RegistryInv, RegistryTyped, JobsStand
<1>3. ASSUME NEW a \in Asker PROVE Followed(asker[a])'
  <2>1. Followed(asker[a]) /\ asker[a].of \subseteq Job
    BY DEF RegistryInv, RegistryTyped, AskerState
  <2> QED BY <1>2, <2>1 DEF Followed
<1>4. JobsStand' BY <1>2 DEF JobsStand, Fields
<1> QED BY <1>1, <1>3, <1>4 DEF RegistryInv

\* A queued job is not the one whose thread is at work.
LEMMA QueueStays ==
  ASSUME RegistryInv, NEW j \in Job, thread[j] # "none", NEW fields \in FieldsType, NEW does \in ThreadType,
         job' = [job EXCEPT ![j] = fields], thread' = [thread EXCEPT ![j] = does], UNCHANGED queue
  PROVE  QueueStands' /\ queue' \in Seq(Job)
<1>1. \A i \in 1..Len(queue) : queue[i] \in Job /\ queue[i] # j
  BY DEF RegistryInv, RegistryTyped, JobsStand, QueueStands
<1> QED BY <1>1 DEF RegistryInv, RegistryTyped, JobsStand, QueueStands

LEMMA RegistryInvStep == RegistryInv /\ [RegistryNext]_registryVars => RegistryInv'
<1> SUFFICES ASSUME RegistryInv, [RegistryNext]_registryVars PROVE RegistryInv'
  OBVIOUS
<1>1. /\ \A j \in Job : job[j] \in FieldsType /\ thread[j] \in ThreadType /\ Fields(job[j], thread[j])
      /\ \A a \in Asker : asker[a] \in AskerState /\ Followed(asker[a])
      /\ job \in [Job -> FieldsType] /\ thread \in [Job -> ThreadType]
      /\ queue \in Seq(Job) /\ QueueStands
  BY DEF RegistryInv, RegistryTyped, JobsStand
<1>2. CASE UNCHANGED registryVars
  BY <1>2 DEF registryVars, RegistryInv, RegistryTyped, JobsStand, QueueStands, Fields, Followed
<1>3. CASE Interrupt \/ Terminate \/ LeaveWhenDrained
  BY <1>3 DEF Interrupt, Terminate, ToldToEnd, LeaveWhenDrained, RegistryInv, RegistryTyped, JobsStand, QueueStands, Fields, Followed
<1>4. CASE DieOfTerm \/ KillDaemon
  <2>0. Forget BY <1>4 DEF DieOfTerm, KillDaemon
  <2>1. Unknown \in FieldsType /\ Fields(Unknown, "none") BY DEF Unknown, FieldsType, JobState, Fields
  <2>2. Idle \in AskerState /\ Idle.at = "idle" /\ Idle.route = "get" BY DEF Idle, AskerState, JobState
  <2>3. RegistryTyped' BY <2>0, <2>1, <2>2 DEF Forget, RegistryTyped, ThreadType
  <2>4. JobsStand' BY <2>0, <2>1 DEF Forget, JobsStand, QueueStands, Fields
  <2>5. \A a \in Asker : asker'[a].at = "idle" /\ asker'[a].route = "get" BY <2>0, <2>2 DEF Forget
  <2>6. \A a \in Asker : Followed(asker[a])' BY <2>5 DEF Followed
  <2> QED BY <2>3, <2>4, <2>6 DEF RegistryInv
<1>5. ASSUME NEW j \in Job, SubmitJob(j) PROVE RegistryInv'
  <2> DEFINE fields == [job[j] EXCEPT !.state = "pending"]
  <2>1. /\ job[j] = Unknown /\ job' = [job EXCEPT ![j] = fields] /\ queue' = Append(queue, j)
        /\ UNCHANGED <<thread, asker>>
    BY <1>5 DEF SubmitJob
  <2>2. /\ fields \in FieldsType /\ fields.state = "pending" /\ ~fields.execution /\ ~fields.error
        /\ job[j].state = "absent"
    <3>1. job[j].state = "absent" /\ ~job[j].execution /\ ~job[j].error BY <2>1 DEF Unknown
    <3>2. fields \in FieldsType BY <1>1 DEF FieldsType, JobState
    <3>3. /\ fields.state = "pending" /\ fields.execution = job[j].execution
          /\ fields.error = job[j].error
      BY <1>1 DEF FieldsType
    <3> QED BY <3>1, <3>2, <3>3
  <2>3. thread[j] = "none" BY <1>1, <2>1, <2>2 DEF Fields, ThreadType, Unknown, Ended
  <2>4. thread' = [thread EXCEPT ![j] = "none"] BY <1>1, <2>1, <2>3
  <2>5. /\ queue' \in Seq(Job) /\ Len(queue') = Len(queue) + 1 /\ queue'[Len(queue) + 1] = j
        /\ \A i \in 1..Len(queue) : queue'[i] = queue[i] /\ queue[i] \in Job /\ queue[i] # j
    BY <1>1, <2>1, <2>2 DEF QueueStands
  <2>6. QueueStands'
    <3>1. \A i \in 1..Len(queue') : thread'[queue'[i]] = "none" /\ job'[queue'[i]].state = "pending"
      BY <1>1, <2>1, <2>2, <2>3, <2>5 DEF QueueStands
    <3>2. \A i \in 1..Len(queue'), k \in 1..Len(queue') : queue'[i] = queue'[k] => i = k
      BY <1>1, <2>5 DEF QueueStands
    <3> QED BY <3>1, <3>2 DEF QueueStands
  <2>7. Fields(fields, "none") BY <2>2 DEF Fields
  <2> HIDE DEF fields
  <2> QED BY <2>1, <2>2, <2>4, <2>5, <2>6, <2>7, PoolMoves DEF ThreadType, Ended
<1>6. CASE TakeJob
  <2> DEFINE j == Head(queue)
  <2>1. /\ queue # <<>> /\ thread' = [thread EXCEPT ![j] = "start"] /\ queue' = Tail(queue)
        /\ UNCHANGED <<job, asker>>
    BY <1>6 DEF TakeJob, CanTake
  <2>2. /\ j \in Job /\ Len(queue) \in Nat /\ Len(queue) >= 1 /\ j = queue[1]
        /\ queue' \in Seq(Job) /\ Len(queue') = Len(queue) - 1
        /\ \A i \in 1..Len(queue') : queue'[i] = queue[i + 1]
        /\ \A i \in 1..Len(queue) : queue[i] \in Job
    BY <1>1, <2>1
  <2>3. \A i \in 1..Len(queue') : queue'[i] # j /\ i + 1 \in 1..Len(queue)
    BY <1>1, <2>2 DEF QueueStands
  <2>4. QueueStands'
    <3>1. \A i \in 1..Len(queue') : thread'[queue'[i]] = "none" /\ job'[queue'[i]].state = "pending"
      BY <1>1, <2>1, <2>2, <2>3 DEF QueueStands
    <3>2. ASSUME NEW i \in 1..Len(queue'), NEW k \in 1..Len(queue'), queue'[i] = queue'[k]
          PROVE  i = k
      <4>1. i + 1 \in 1..Len(queue) /\ k + 1 \in 1..Len(queue) /\ queue[i + 1] = queue[k + 1]
        BY <2>2, <2>3, <3>2
      <4>2. i + 1 = k + 1 BY <1>1, <4>1 DEF QueueStands
      <4> QED BY <4>2
    <3> QED BY <3>1, <3>2 DEF QueueStands
  <2>5. thread[j] = "none" /\ job[j].state = "pending" BY <1>1, <2>2 DEF QueueStands
  <2>6. Fields(job[j], "start") BY <1>1, <2>2, <2>5 DEF Fields
  <2>7. job' = [job EXCEPT ![j] = job[j]] /\ job[j] \in FieldsType /\ job[j].state \notin Ended
    BY <1>1, <2>1, <2>2, <2>5 DEF Ended
  <2> HIDE DEF j
  <2> QED BY <2>1, <2>2, <2>4, <2>6, <2>7, PoolMoves DEF ThreadType
<1>7. ASSUME NEW j \in Job, PoolStep(j) \/ CallHangs(j) PROVE RegistryInv'
  <2>1. \E fields \in FieldsType, does \in ThreadType :
          /\ job' = [job EXCEPT ![j] = fields] /\ thread' = [thread EXCEPT ![j] = does]
          /\ UNCHANGED <<asker, queue>> /\ Fields(fields, does)
          /\ job[j].state \notin Ended /\ thread[j] # "none"
    <3> DEFINE running  == [job[j] EXCEPT !.state = "running"]
               answered == [job[j] EXCEPT !.execution = TRUE]
               failed   == [job[j] EXCEPT !.error = TRUE]
               done     == [job[j] EXCEPT !.state = "done"]
               error    == [job[j] EXCEPT !.state = "error"]
    <3>1. /\ {job[j], running, answered, failed, done, error} \subseteq FieldsType
          /\ job = [job EXCEPT ![j] = job[j]]
      BY <1>1 DEF FieldsType, JobState
    <3>2. CASE MarkRunning(j)
      <4>1. Fields(running, "call") /\ job[j].state = "pending"
        BY <1>1, <3>2 DEF MarkRunning, Work, Fields, FieldsType
      <4> QED BY <3>1, <3>2, <4>1 DEF MarkRunning, Work, ThreadType, Ended
    <3>3. CASE CallComesBack(j) \/ CallHangs(j)
      <4>1. job[j].state = "running" /\ \A does \in {"returned", "raised", "hung"} : Fields(job[j], does)
        BY <1>1, <3>3 DEF CallComesBack, CallHangs, Work, Fields
      <4> QED BY <3>1, <3>3, <4>1 DEF CallComesBack, CallHangs, Work, ThreadType, Ended
    <3>4. CASE MarkDone(j)
      <4>1. /\ job[j].state = "running" /\ Fields(answered, "returned")
            /\ job[j].execution => Fields(done, "end")
        BY <1>1, <3>4 DEF MarkDone, Work, Fields, FieldsType, Ended
      <4> QED BY <3>1, <3>4, <4>1 DEF MarkDone, Work, SetExecution, SetState, ThreadType, Ended
    <3>5. CASE MarkError(j)
      <4>1. /\ job[j].state = "running" /\ Fields(failed, "raised")
            /\ job[j].error => Fields(error, "end")
        BY <1>1, <3>5 DEF MarkError, Work, Fields, FieldsType, Ended
      <4> QED BY <3>1, <3>5, <4>1 DEF MarkError, Work, SetError, SetState, ThreadType, Ended
    <3> QED BY <1>7, <3>2, <3>3, <3>4, <3>5 DEF PoolStep
  <2>2. PICK fields \in FieldsType, does \in ThreadType :
          /\ job' = [job EXCEPT ![j] = fields] /\ thread' = [thread EXCEPT ![j] = does]
          /\ UNCHANGED <<asker, queue>> /\ Fields(fields, does)
          /\ job[j].state \notin Ended /\ thread[j] # "none"
    BY <2>1
  <2> QED BY <2>2, QueueStays, PoolMoves
<1>8. ASSUME NEW a \in Asker,
             AskForJob(a) \/ Follow(a) \/ ReadExecution(a) \/ ReadState(a) \/ ReadError(a) \/ AskAgain(a)
      PROVE  RegistryInv'
  <2>1. asker[a] \in AskerState /\ Followed(asker[a]) BY <1>1
  <2>2. CASE AskForJob(a)
    <3>1. PICK j \in Job :
            \/ Asked(a, [Idle EXCEPT !.at = "execution", !.of = {j}])
            \/ Asked(a, [Idle EXCEPT !.at = "follow", !.route = "stream", !.of = {j}])
      BY <2>2 DEF AskForJob
    <3> DEFINE get    == [Idle EXCEPT !.at = "execution", !.of = {j}]
               stream == [Idle EXCEPT !.at = "follow", !.route = "stream", !.of = {j}]
    <3>2. /\ get = [Idle EXCEPT !.at = "execution", !.of = {j}]
          /\ get \in AskerState /\ stream \in AskerState /\ get.route = "get" /\ stream.at = "follow"
          /\ get.of = {j} /\ stream.of = {j}
      BY DEF AskerState, Idle, JobState
    <3>3. Followed(get) /\ Followed(stream) BY <3>2 DEF Followed
    <3> QED BY <2>2, <3>1, <3>2, <3>3, AskerMoves DEF AskForJob
  <2>3. CASE Follow(a)
    <3> DEFINE next == [asker[a] EXCEPT !.at = "execution"]
    <3>1. next \in AskerState BY <2>1 DEF AskerState
    <3>2. Followed(next) BY <2>1, <2>3 DEF Followed, AskerState, Follow, ReadsJob
    <3> QED BY <2>3, <3>1, <3>2, AskerMoves DEF Follow, ReadsJob
  <2>4. CASE ReadExecution(a)
    <3>1. PICK j \in asker[a].of : Asked(a, [asker[a] EXCEPT !.at = "state", !.execution = job[j].execution])
      BY <2>4 DEF ReadExecution
    <3> DEFINE next == [asker[a] EXCEPT !.at = "state", !.execution = job[j].execution]
    <3>2. j \in Job /\ asker[a].at = "execution" /\ asker[a].of = {j}
      BY <2>1, <2>4, <3>1 DEF Followed, AskerState, ReadExecution, ReadsJob
    <3>3. next \in AskerState BY <1>1, <2>1, <3>2 DEF AskerState, FieldsType
    <3>4. Followed(next) BY <2>1, <3>2 DEF Followed, AskerState
    <3> QED BY <2>4, <3>1, <3>3, <3>4, AskerMoves DEF ReadExecution, ReadsJob
  <2>5. CASE ReadState(a)
    <3>1. PICK j \in asker[a].of : Asked(a, [asker[a] EXCEPT !.at = "error", !.state = job[j].state])
      BY <2>5 DEF ReadState
    <3> DEFINE next == [asker[a] EXCEPT !.at = "error", !.state = job[j].state]
    <3>2. j \in Job /\ asker[a].at = "state" /\ asker[a].of = {j}
      BY <2>1, <2>5, <3>1 DEF Followed, AskerState, ReadState, ReadsJob
    <3>3. next \in AskerState BY <1>1, <2>1, <3>2 DEF AskerState, FieldsType
    <3>4. Followed(next) BY <2>1, <3>2 DEF Followed, AskerState
    <3> QED BY <2>5, <3>1, <3>3, <3>4, AskerMoves DEF ReadState, ReadsJob
  <2>6. CASE ReadError(a)
    <3>1. PICK j \in asker[a].of : Asked(a, [asker[a] EXCEPT !.at = "reply", !.error = job[j].error])
      BY <2>6 DEF ReadError
    <3> DEFINE next == [asker[a] EXCEPT !.at = "reply", !.error = job[j].error]
    <3>2. j \in Job /\ asker[a].at = "error" /\ asker[a].of = {j}
      BY <2>1, <2>6, <3>1 DEF Followed, AskerState, ReadError, ReadsJob
    <3>3. next \in AskerState BY <1>1, <2>1, <3>2 DEF AskerState, FieldsType
    <3>4. Fields(job[j], thread[j]) /\ thread[j] \in ThreadType BY <1>1, <3>2
    <3>5. job[j].state \in Ended => /\ job[j].execution = (job[j].state = "done")
                                    /\ job[j].error = (job[j].state = "error")
      BY <3>4 DEF Fields, Ended, ThreadType
    <3>6. Followed(next) BY <2>1, <3>2, <3>5 DEF Followed, AskerState
    <3> QED BY <2>6, <3>1, <3>3, <3>6, AskerMoves DEF ReadError, ReadsJob
  <2>7. CASE AskAgain(a)
    <3>1. Idle \in AskerState /\ Followed(Idle) BY DEF Idle, AskerState, JobState, Followed
    <3> QED BY <2>7, <3>1, AskerMoves DEF AskAgain, ReadsJob
  <2> QED BY <1>8, <2>2, <2>3, <2>4, <2>5, <2>6, <2>7
<1> QED BY <1>2, <1>3, <1>4, <1>5, <1>6, <1>7, <1>8 DEF RegistryNext

\* GET /jobs/{id}/stream ends with what happened: the job is over when its fields are
\* read, and the pool's thread touches none of them any more.
THEOREM StreamTells == RegistrySpec => []StreamTellsTheEnd
<1>1. RegistryInv => StreamTellsTheEnd BY DEF RegistryInv, Followed, StreamTellsTheEnd
<1> QED BY <1>1, RegistryInvInit, RegistryInvStep, PTL DEF RegistrySpec

\* A job waits once, so no more wait than there are.
LEMMA QueueHoldsEachOnce == RegistryInv => Len(queue) <= Cardinality(Job)
<1> SUFFICES ASSUME RegistryInv PROVE Len(queue) <= Cardinality(Job)
  OBVIOUS
<1>1. queue \in Seq(Job) /\ QueueStands /\ IsFiniteSet(Job)
  BY JobRegistryAssumption DEF RegistryInv, RegistryTyped, JobsStand
<1>2. Len(queue) \in Nat /\ queue \in [1..Len(queue) -> Job] BY <1>1
<1>3. queue \in Injection(1..Len(queue), Job)
  BY <1>1, <1>2 DEF QueueStands, Injection, IsInjective
<1>4. Cardinality(1..Len(queue)) <= Cardinality(Job) BY <1>1, <1>3, FS_Injection
<1>5. Cardinality(1..Len(queue)) = Len(queue)
  <2>1. Cardinality(1..Len(queue)) = IF 1 > Len(queue) THEN 0 ELSE Len(queue) - 1 + 1 BY <1>2, FS_Interval
  <2> QED BY <1>2, <2>1
<1> QED BY <1>4, <1>5

Serving == serving \in {"up", "interrupted", "terminated", "gone"}

LEMMA ServingStep == Serving /\ [RegistryNext]_registryVars => Serving'
BY DEF Serving, RegistryNext, registryVars, SubmitJob, PoolStep, MarkRunning, CallComesBack, MarkDone, MarkError,
       CallHangs, TakeJob, AskForJob, ReadsJob, Follow, ReadExecution, ReadState, ReadError, AskAgain, Interrupt, Terminate,
       ToldToEnd, LeaveWhenDrained, DieOfTerm, KillDaemon, Forget

\* Registry, pool and requests keep their shape, and the pool's queue holds no job twice,
\* for any number of jobs, requests and threads.
THEOREM RegistryTypes == RegistrySpec => []RegistryTypeOK
<1>1. RegistryInv /\ Serving => RegistryTypeOK
  BY QueueHoldsEachOnce DEF RegistryInv, RegistryTyped, Serving, RegistryTypeOK, FieldsType, ThreadType
<1>2. RegistryInit => Serving BY DEF RegistryInit, Serving
<1> QED BY <1>1, <1>2, ServingStep, RegistryInvInit, RegistryInvStep, PTL DEF RegistrySpec

-----------------------------------------------------------------------------
(* Gateway.  What upstream said stays in relayed, and whatever is kept,    *)
(* replied or captured with a 200 points back to it; an answer of another  *)
(* machine's cannot be had unless the daemon listens to other machines.    *)

BodyText  == {"first", "second", "no usage", "stream", "page", "refusal"}
ErrorCode == {"store.unavailable", "crypto.token_required", "provider.api_error",
              "provider.protocol_error", "no CacheError"}
Reply     == [status : Nat, text : BodyText \cup ErrorCode \cup {"none", "not a request"}]
Body      == UNION {Upstream(q) : q \in MessagesBody}
Exchange  == [at : {"idle", "asked", "waiting", "relaying", "answered", "replied", "over"},
              raw : RawBody, n : 0..MaxRequests, sent : SUBSET Header, reply : Reply,
              from : Peer \cup {"none", "gateway"}, upstream : {NoReply} \cup Body]

\* The daemon that is up listens where it may.
BindIsSafe ==
  /\ bind \in [at : {"down", "up", "refused"}, host : {"loopback", "routable", "unclassified"},
               unsafe : BOOLEAN, capture : BOOLEAN]
  /\ bind.at = "up" => SafeBind(bind.host, bind.unsafe)

Reachable == bind.at = "up" /\ bind.host # "loopback"

\* A reply with what upstream had said, to this body or to this caller.
Truthful(p, e, said) ==
  /\ e.from = "gateway" => e.reply.status >= 400 /\ (e.raw \notin MessagesBody => e.sent = {})
  /\ e.from # "gateway" /\ e.reply.status = 200 => \E body \in said[e.raw] : body.text = e.reply.text
  /\ e.from # "gateway" /\ e.reply.status # 200 =>
       e.from = p /\ e.reply.status = e.upstream.status /\ e.reply.text = e.upstream.text

\* Where an exchange stands says what its body, its answer and its sender can be; said is
\* what upstream has answered, and open whether other machines are let in.
Stands(p, e, said, open) ==
  /\ e.at \in {"idle", "asked"} => e.sent = {}
  /\ e.at \in {"waiting", "relaying", "answered"} => e.raw \in MessagesBody
  /\ e.at = "answered" => /\ e.upstream \in Upstream(e.raw)
                          /\ e.upstream.status = 200 => e.upstream \in said[e.raw]
  /\ e.at \in {"replied", "over"} => /\ e.from # "none" /\ Truthful(p, e, said)
                                     /\ e.from # "gateway" => e.raw \in MessagesBody
  /\ e.at \notin {"replied", "over"} => e.from = "none"
  /\ p \in Neighbour /\ e.at # "idle" => open
  /\ e.from \in Neighbour => open

\* A stored answer was made of one that was relayed, and by whom.
RecordedSound ==
  /\ relayed \in [MessagesBody -> SUBSET Body]
  /\ DOMAIN recorded \subseteq MessagesBody
  /\ \A q \in DOMAIN recorded :
       /\ recorded[q].by \in Peer /\ (recorded[q].by \in Neighbour => Reachable)
       /\ \E body \in relayed[q] : recorded[q].text = body.text /\ recorded[q].usage = ParseUsage(body)

GatewayInv ==
  /\ exchange \in [Peer -> Exchange]
  /\ BindIsSafe
  /\ \A p \in Peer : Stands(p, exchange[p], relayed, Reachable)
  /\ RecordedSound
  /\ CaptureTellsNoSecret

-----------------------------------------------------------------------------
(* What a stream reports.                                                  *)

LEMMA LeastNumber ==
  ASSUME NEW S \in SUBSET Nat, S # {} PROVE \E m \in S : \A x \in S : m <= x
<1>1. IsWellFoundedOn(OpToRel(<, Nat), Nat) BY NatLessThanWellFounded
<1>2. PICK m \in S : \A x \in S : ~(<<x, m>> \in OpToRel(<, Nat)) BY <1>1, WFMin
<1>3. \A x \in S : ~(x < m) BY <1>2 DEF OpToRel
<1> QED BY <1>3

\* What is overlaid, block by block, up to each block.
Merges(blocks, merged, n) ==
  merged = [i \in 0..n |-> IF i = 0 THEN <<>> ELSE Overlay(blocks[i], merged[i - 1])]

LEMMA OverlayIs ==
  ASSUME NEW newer, NEW older
  PROVE  /\ DOMAIN Overlay(newer, older) = DOMAIN newer \cup DOMAIN older
         /\ \A x \in DOMAIN newer : Overlay(newer, older)[x] = newer[x]
         /\ \A x \in DOMAIN older \ DOMAIN newer : Overlay(newer, older)[x] = older[x]
BY DEF Overlay

LEMMA MergingEnds ==
  ASSUME NEW blocks, NEW n \in Nat PROVE \E merged : Merges(blocks, merged, n)
<1> DEFINE never == {k \in Nat : ~ \E merged : Merges(blocks, merged, k)}
<1> SUFFICES ASSUME n \in never PROVE FALSE OBVIOUS
<1>1. PICK k \in never : \A x \in never : k <= x
  <2>1. never \in SUBSET Nat /\ never # {} OBVIOUS
  <2> HIDE DEF never
  <2> QED BY <2>1, LeastNumber
<1>2. k # 0
  <2> DEFINE none == [i \in 0..0 |-> <<>>]
  <2>1. \A i \in 0..0 : i = 0 OBVIOUS
  <2>2. Merges(blocks, none, 0) BY <2>1 DEF Merges
  <2> QED BY <2>2
<1>3. k - 1 \in Nat /\ k - 1 \notin never BY <1>1, <1>2
<1>4. PICK merged : Merges(blocks, merged, k - 1) BY <1>3
<1> DEFINE more == [i \in 0..k |-> IF i = k THEN Overlay(blocks[k], merged[k - 1]) ELSE merged[i]]
<1>5. ASSUME NEW i \in 0..k
      PROVE more[i] = IF i = 0 THEN <<>> ELSE Overlay(blocks[i], more[i - 1])
  <2>1. CASE i = k
    <3>1. more[k] = Overlay(blocks[k], merged[k - 1]) BY <1>2
    <3>2. k - 1 \in 0..k /\ k - 1 # k BY <1>3
    <3>3. more[k - 1] = merged[k - 1] BY <3>2
    <3> QED BY <2>1, <1>2, <3>1, <3>3
  <2>2. CASE i # k /\ i # 0
    <3>1. i \in 0..(k - 1) /\ i - 1 \in 0..k /\ i - 1 # k BY <2>2, <1>3
    <3>2. merged[i] = Overlay(blocks[i], merged[i - 1]) BY <1>4, <3>1, <2>2 DEF Merges
    <3>3. more[i] = merged[i] /\ more[i - 1] = merged[i - 1] BY <2>2, <3>1
    <3> QED BY <2>2, <3>2, <3>3
  <2>3. CASE i # k /\ i = 0
    <3>1. i \in 0..(k - 1) BY <2>3, <1>3
    <3>2. merged[i] = <<>> BY <1>4, <3>1, <2>3 DEF Merges
    <3>3. more[i] = merged[i] BY <2>3
    <3> QED BY <2>3, <3>2, <3>3
  <2> QED BY <2>1, <2>2, <2>3
<1>6. more = [i \in 0..k |-> more[i]] OBVIOUS
<1> HIDE DEF more
<1>7. Merges(blocks, more, k) BY <1>5, <1>6 DEF Merges
<1> QED BY <1>7, <1>1

\* A field that is reported last in a block reads in the end as that block has it.
LEMMA LastUsage ==
  ASSUME NEW blocks, NEW n \in Nat, NEW merged, Merges(blocks, merged, n),
         NEW i \in 1..n, NEW field \in DOMAIN blocks[i],
         \A k \in 1..n : field \in DOMAIN blocks[k] => k <= i
  PROVE  merged[n][field] = blocks[i][field]
<1> DEFINE wrong == {k \in Nat : k \in i..n /\ ~(field \in DOMAIN merged[k] /\ merged[k][field] = blocks[i][field])}
<1>1. \A k \in 1..n : merged[k] = Overlay(blocks[k], merged[k - 1]) BY DEF Merges
<1> SUFFICES ASSUME n \in wrong PROVE FALSE OBVIOUS
<1>2. PICK k \in wrong : \A x \in wrong : k <= x
  <2>1. wrong \in SUBSET Nat /\ wrong # {} OBVIOUS
  <2> HIDE DEF wrong
  <2> QED BY <2>1, LeastNumber
<1>3. k \in i..n /\ k \in 1..n /\ ~(field \in DOMAIN merged[k] /\ merged[k][field] = blocks[i][field]) OBVIOUS
<1>o. /\ DOMAIN merged[k] = DOMAIN blocks[k] \cup DOMAIN merged[k - 1]
      /\ \A x \in DOMAIN blocks[k] : merged[k][x] = blocks[k][x]
      /\ \A x \in DOMAIN merged[k - 1] \ DOMAIN blocks[k] : merged[k][x] = merged[k - 1][x]
  <2>1. merged[k] = Overlay(blocks[k], merged[k - 1]) BY <1>1, <1>3
  <2> QED BY <2>1 DEF Overlay
<1>4. k # i BY <1>o, <1>3
<1>5. k - 1 \in Nat /\ k - 1 \in i..n /\ k - 1 \notin wrong BY <1>2, <1>3, <1>4
<1>6. field \in DOMAIN merged[k - 1] /\ merged[k - 1][field] = blocks[i][field] BY <1>5
<1>7. field \notin DOMAIN blocks[k] BY <1>3, <1>4
<1> QED BY <1>o, <1>3, <1>6, <1>7

\* The usage of a body is the last its blocks report of each field.
LEMMA UsageIsTheLast ==
  ASSUME NEW body, Len(body.blocks) \in Nat, DOMAIN body.blocks = 1..Len(body.blocks)
  PROVE  \A i \in DOMAIN body.blocks : \A field \in DOMAIN body.blocks[i] :
           (\A k \in DOMAIN body.blocks : field \in DOMAIN body.blocks[k] => k <= i)
             => ParseUsage(body)[field] = body.blocks[i][field]
<1> DEFINE n == Len(body.blocks)
           merged == CHOOSE m : m = [i \in 0..n |-> IF i = 0 THEN <<>> ELSE Overlay(body.blocks[i], m[i - 1])]
<1>1. \E m : m = [i \in 0..n |-> IF i = 0 THEN <<>> ELSE Overlay(body.blocks[i], m[i - 1])]
  BY MergingEnds DEF Merges
<1>2. merged = [i \in 0..n |-> IF i = 0 THEN <<>> ELSE Overlay(body.blocks[i], merged[i - 1])]
  BY <1>1
<1>3. Merges(body.blocks, merged, n) BY <1>2 DEF Merges
<1>4. ParseUsage(body) = merged[n] BY DEF ParseUsage
<1> HIDE DEF merged
<1> QED BY <1>3, <1>4, LastUsage

-----------------------------------------------------------------------------
(* What upstream can say.                                                  *)

Block == {[input |-> 2, output |-> 2], [input |-> 2, output |-> 1], <<>>, [output |-> 2]}

LEMMA UpstreamSays ==
  ASSUME NEW q \in MessagesBody, NEW body \in Upstream(q)
  PROVE  /\ body.status \in {200, 401} /\ body.utf8 \in BOOLEAN /\ body.text \in BodyText
         /\ body.blocks \in Seq(Block)
         /\ ~body.utf8 => body.status = 200
         /\ body \in Body
<1>1. q \in BodyText /\ q \in RawBody BY DEF MessagesBody, BodyText, RawBody
<1> DEFINE b1 == <<[input |-> 2, output |-> 2]>>
           b2 == <<[input |-> 2, output |-> 1], <<>>, [output |-> 2]>>
<1>2. b1 \in Seq(Block) /\ b2 \in Seq(Block) /\ <<>> \in Seq(Block) BY DEF Block
<1> HIDE DEF b1, b2
<1>3. body \in {UpstreamBody(200, q, TRUE, b1), UpstreamBody(200, "no usage", TRUE, <<>>),
                UpstreamBody(200, "stream", TRUE, b2), UpstreamBody(200, "page", FALSE, <<>>),
                UpstreamBody(401, "refusal", TRUE, <<>>)}
  BY DEF Upstream, b1, b2
<1>4. /\ body.status \in {200, 401} /\ body.utf8 \in BOOLEAN /\ body.text \in BodyText
      /\ body.blocks \in {b1, b2, <<>>} /\ (~body.utf8 => body.status = 200)
  <2>1. CASE body = UpstreamBody(200, q, TRUE, b1) BY <1>1, <2>1 DEF UpstreamBody
  <2>2. CASE body = UpstreamBody(200, "no usage", TRUE, <<>>) BY <2>2 DEF UpstreamBody, BodyText
  <2>3. CASE body = UpstreamBody(200, "stream", TRUE, b2) BY <2>3 DEF UpstreamBody, BodyText
  <2>4. CASE body = UpstreamBody(200, "page", FALSE, <<>>) BY <2>4 DEF UpstreamBody, BodyText
  <2>5. CASE body = UpstreamBody(401, "refusal", TRUE, <<>>) BY <2>5 DEF UpstreamBody, BodyText
  <2> QED BY <1>3, <2>1, <2>2, <2>3, <2>4, <2>5
<1>5. body \in Body BY DEF Body
<1> QED BY <1>2, <1>4, <1>5

LEMMA BodySays ==
  ASSUME NEW body \in Body
  PROVE  /\ body.status \in {200, 401} /\ body.text \in BodyText /\ body.blocks \in Seq(Block)
BY UpstreamSays DEF Body

LEMMA ErrorsAreErrors ==
  ASSUME NEW code \in ErrorCode
  PROVE  ErrorResponse(code) \in Reply /\ ErrorResponse(code).status >= 400
<1> DEFINE status == CACHE_ERROR_HTTP(code)
<1>1. status \in {500, 401, 502, 503}
  <2>1. CASE code = "store.unavailable" BY <2>1 DEF CACHE_ERROR_HTTP
  <2>2. CASE code = "crypto.token_required" BY <2>2 DEF CACHE_ERROR_HTTP
  <2>3. CASE code = "provider.api_error" BY <2>3 DEF CACHE_ERROR_HTTP
  <2>4. CASE code \in {"provider.protocol_error", "no CacheError"} BY <2>4 DEF CACHE_ERROR_HTTP
  <2> QED BY <2>1, <2>2, <2>3, <2>4 DEF ErrorCode
<1>2. ErrorResponse(code) = [status |-> status, text |-> code] BY DEF ErrorResponse
<1>3. status \in Nat /\ status >= 400 BY <1>1
<1>4. code \in BodyText \cup ErrorCode \cup {"none", "not a request"} OBVIOUS
<1> DEFINE texts == BodyText \cup ErrorCode \cup {"none", "not a request"}
<1>5. Reply = [status : Nat, text : texts] BY DEF Reply
<1> HIDE DEF status, texts
<1>6. [status |-> status, text |-> code] \in [status : Nat, text : texts] BY <1>3, <1>4 DEF texts
<1>7. ErrorResponse(code).status = status BY <1>2
<1> QED BY <1>2, <1>3, <1>5, <1>6, <1>7

-----------------------------------------------------------------------------
(* The invariant says what the property says.                              *)

LEMMA PeersAreNoNames == "none" \notin Peer /\ "gateway" \notin Peer /\ Neighbour \subseteq Peer
BY GatewayAssumption

LEMMA TransparentIfInv == GatewayInv => GatewayIsTransparent
<1> SUFFICES ASSUME GatewayInv PROVE GatewayIsTransparent OBVIOUS
<1>1. \A p \in Peer : Stands(p, exchange[p], relayed, Reachable) BY DEF GatewayInv
<1>2. RepliesAreUpstreams
  <2>1. \A p \in Peer : exchange[p].at \in {"replied", "over"} => Truthful(p, exchange[p], relayed)
    BY <1>1 DEF Stands
  <2> QED BY <2>1 DEF RepliesAreUpstreams, Truthful
<1>3. StoredWithItsUsage
  <2> SUFFICES ASSUME NEW q \in DOMAIN recorded
               PROVE  \E body \in relayed[q] : /\ body.text = recorded[q].text
                        /\ \A i \in DOMAIN body.blocks : \A field \in DOMAIN body.blocks[i] :
                             (\A k \in DOMAIN body.blocks : field \in DOMAIN body.blocks[k] => k <= i)
                               => recorded[q].usage[field] = body.blocks[i][field]
    BY DEF StoredWithItsUsage
  <2>1. PICK body \in relayed[q] : recorded[q].text = body.text /\ recorded[q].usage = ParseUsage(body)
    BY DEF GatewayInv, RecordedSound
  <2>2. body \in Body BY DEF GatewayInv, RecordedSound
  <2>3. Len(body.blocks) \in Nat /\ DOMAIN body.blocks = 1..Len(body.blocks) BY <2>2, BodySays
  <2> QED BY <2>1, <2>3, UsageIsTheLast
<1>4. OneOwner
  <2> SUFFICES ASSUME NEW p \in Peer, exchange[p].from \in Peer \ {p}, {p, exchange[p].from} \cap Neighbour # {}
               PROVE  bind.unsafe
    BY DEF OneOwner
  <2>1. exchange[p].at # "idle" BY <1>1, PeersAreNoNames DEF Stands
  <2>2. Reachable BY <1>1, <2>1 DEF Stands
  <2> QED BY <2>2 DEF Reachable, GatewayInv, BindIsSafe, SafeBind
<1>5. CaptureTellsNoSecret BY DEF GatewayInv
<1> QED BY <1>2, <1>3, <1>4, <1>5 DEF GatewayIsTransparent

LEMMA TypesIfInv == GatewayInv => GatewayTypeOK
<1> SUFFICES ASSUME GatewayInv PROVE GatewayTypeOK OBVIOUS
<1>1. \A p \in Peer : exchange[p] \in Exchange BY DEF GatewayInv
<1>2. bind.at \in {"down", "up", "refused"} BY DEF GatewayInv, BindIsSafe
<1>3. DOMAIN recorded \subseteq MessagesBody /\ DOMAIN relayed = MessagesBody BY DEF GatewayInv, RecordedSound
<1> QED BY <1>1, <1>2, <1>3 DEF Exchange, GatewayTypeOK

-----------------------------------------------------------------------------
(* Steps.                                                                  *)

LEMMA GatewayBegins == GatewayInit => GatewayInv
<1> SUFFICES ASSUME GatewayInit PROVE GatewayInv OBVIOUS
<1>1. NoReply \in Reply BY DEF NoReply, Reply
<1>2. Quiet \in Exchange BY <1>1, GatewayAssumption DEF Quiet, Exchange, RawBody, MessagesBody
<1>3. exchange \in [Peer -> Exchange] /\ \A p \in Peer : exchange[p] = Quiet BY <1>2 DEF GatewayInit
<1>4. BindIsSafe BY DEF GatewayInit, BindIsSafe, Down
<1>5. \A p \in Peer : Stands(p, Quiet, relayed, Reachable) BY PeersAreNoNames DEF Stands, Quiet
<1>6. DOMAIN recorded = {} BY DEF GatewayInit
<1>7. relayed \in [MessagesBody -> SUBSET Body] BY DEF GatewayInit
<1>8. RecordedSound BY <1>6, <1>7 DEF RecordedSound
<1>9. CaptureTellsNoSecret BY DEF GatewayInit, CaptureTellsNoSecret
<1> QED BY <1>3, <1>4, <1>5, <1>8, <1>9 DEF GatewayInv

\* An exchange stands when upstream has said more.
LEMMA StandsLater ==
  ASSUME NEW p \in Peer, NEW e \in Exchange, NEW said, NEW more, NEW open \in BOOLEAN, Stands(p, e, said, open),
         \A q \in MessagesBody : said[q] \subseteq more[q]
  PROVE  Stands(p, e, more, open)
<1>1. CASE e.at \in {"replied", "over"}
  <2>1. Truthful(p, e, said) /\ (e.from # "gateway" => e.raw \in MessagesBody) BY <1>1 DEF Stands
  <2>2. Truthful(p, e, more) BY <2>1 DEF Truthful
  <2> QED BY <1>1, <2>2 DEF Stands
<1>2. CASE e.at \notin {"replied", "over"}
  <2>1. e.at = "answered" => e.raw \in MessagesBody BY DEF Stands
  <2> QED BY <1>2, <2>1 DEF Stands
<1> QED BY <1>1, <1>2

\* One exchange moves, and upstream may have said more.
LEMMA OneMoves ==
  ASSUME GatewayInv, NEW p \in Peer, NEW e \in Exchange, Set(p, e), bind' = bind,
         Stands(p, e, relayed', Reachable), RecordedSound', CaptureTellsNoSecret',
         \A q \in MessagesBody : relayed[q] \subseteq relayed'[q]
  PROVE  GatewayInv'
<1>1. exchange' \in [Peer -> Exchange] BY DEF GatewayInv, Set
<1>2. BindIsSafe' BY DEF GatewayInv, BindIsSafe
<1>3. Reachable' = Reachable /\ Reachable \in BOOLEAN BY DEF Reachable
<1>4. ASSUME NEW r \in Peer PROVE Stands(r, exchange'[r], relayed', Reachable')
  <2>1. CASE r = p BY <2>1, <1>3 DEF GatewayInv, Set
  <2>2. CASE r # p
    <3>1. exchange'[r] = exchange[r] BY <2>2 DEF GatewayInv, Set
    <3>2. exchange[r] \in Exchange /\ Stands(r, exchange[r], relayed, Reachable) BY DEF GatewayInv
    <3> QED BY <3>1, <3>2, <1>3, StandsLater
  <2> QED BY <2>1, <2>2
<1> QED BY <1>1, <1>2, <1>4 DEF GatewayInv

\* The same where nothing but an exchange moves.
LEMMA OnlyOneMoves ==
  ASSUME GatewayInv, NEW p \in Peer, NEW e \in Exchange, Set(p, e), UNCHANGED <<bind, recorded, relayed, captureFile>>,
         Stands(p, e, relayed, Reachable)
  PROVE  GatewayInv'
<1>1. RecordedSound' BY DEF GatewayInv, RecordedSound, Reachable
<1>2. CaptureTellsNoSecret' BY DEF GatewayInv, CaptureTellsNoSecret
<1> QED BY <1>1, <1>2, OneMoves

\* The gateway's own reply.
LEMMA GatewayReplies ==
  ASSUME GatewayInv, NEW p \in Peer, NEW reply \in Reply, reply.status >= 400,
         exchange[p].at # "idle", exchange[p].raw \in MessagesBody \/ exchange[p].sent = {}
  PROVE  /\ Replied(p, reply, "gateway") \in Exchange
         /\ Stands(p, Replied(p, reply, "gateway"), relayed, Reachable)
<1>1. exchange[p] \in Exchange /\ Stands(p, exchange[p], relayed, Reachable) BY DEF GatewayInv
<1> DEFINE e == exchange[p]
           r == Replied(p, reply, "gateway")
<1>2. r = [e EXCEPT !.at = "replied", !.reply = reply, !.from = "gateway"] BY DEF Replied
<1> HIDE DEF e, r
<1>3. e \in Exchange BY <1>1 DEF e
<1>4. r \in Exchange BY <1>2, <1>3 DEF Exchange
<1>5. r.at = "replied" /\ r.reply = reply /\ r.from = "gateway" /\ r.raw = e.raw /\ r.sent = e.sent
  BY <1>2, <1>3 DEF Exchange
<1>6. Truthful(p, r, relayed) BY <1>5 DEF Truthful, e
<1>7. p \in Neighbour => Reachable BY <1>1 DEF Stands
<1>8. Stands(p, r, relayed, Reachable) BY <1>5, <1>6, <1>7, PeersAreNoNames DEF Stands
<1> QED BY <1>4, <1>8 DEF r

LEMMA BindHostStep == GatewayInv /\ BindHost => GatewayInv'
<1> SUFFICES ASSUME GatewayInv, BindHost PROVE GatewayInv' OBVIOUS
<1>1. ~Reachable /\ Reachable' \in BOOLEAN BY DEF BindHost, Reachable
<1>2. UNCHANGED <<exchange, recorded, relayed, captureFile>> BY DEF BindHost
<1>3. BindIsSafe'
  <2>1. PICK host \in {"loopback", "routable", "unclassified"}, unsafe \in BOOLEAN, capture \in BOOLEAN :
           bind' = [at |-> IF SafeBind(host, unsafe) THEN "up" ELSE "refused",
                    host |-> host, unsafe |-> unsafe, capture |-> capture]
    BY DEF BindHost
  <2> QED BY <2>1 DEF BindIsSafe, SafeBind
<1>4. \A p \in Peer : Stands(p, exchange'[p], relayed', Reachable')
  BY <1>1, <1>2 DEF GatewayInv, Stands
<1>5. RecordedSound' BY <1>1, <1>2 DEF GatewayInv, RecordedSound
<1>6. CaptureTellsNoSecret' BY <1>2 DEF GatewayInv, CaptureTellsNoSecret
<1>7. exchange' \in [Peer -> Exchange] BY <1>2 DEF GatewayInv
<1> QED BY <1>3, <1>4, <1>5, <1>6, <1>7 DEF GatewayInv

LEMMA PurgeAllStep == GatewayInv /\ PurgeAll => GatewayInv'
<1> SUFFICES ASSUME GatewayInv, PurgeAll PROVE GatewayInv' OBVIOUS
<1>1. UNCHANGED <<bind, exchange, relayed, captureFile>> /\ DOMAIN recorded' = {} BY DEF PurgeAll
<1>2. RecordedSound' BY <1>1 DEF GatewayInv, RecordedSound
<1> QED BY <1>1, <1>2 DEF GatewayInv, BindIsSafe, CaptureTellsNoSecret, Reachable

\* A request begins anew, from where the daemon listens.
LEMMA PostStep == ASSUME GatewayInv, NEW p \in Peer, Post(p) PROVE GatewayInv'
<1>1. PICK raw \in RawBody :
        Set(p, [Quiet EXCEPT !.at = "asked", !.raw = raw, !.n = exchange[p].n + 1])
  BY DEF Post
<1> DEFINE n == exchange[p].n + 1
           e == [Quiet EXCEPT !.at = "asked", !.raw = raw, !.n = n]
<1>2. n \in 0..MaxRequests BY GatewayAssumption DEF GatewayInv, Exchange, Post
<1>3. Quiet \in Exchange /\ Quiet.sent = {} /\ Quiet.from = "none"
  <2>1. NoReply \in Reply BY DEF NoReply, Reply
  <2> QED BY <2>1, GatewayAssumption DEF Quiet, Exchange, RawBody, MessagesBody
<1>4. p \in Neighbour => Reachable BY DEF Post, Reachable
<1> HIDE DEF n
<1>5. e \in Exchange BY <1>2, <1>3 DEF Exchange
<1>6. e.at = "asked" /\ e.sent = {} /\ e.from = "none" BY <1>3 DEF Exchange
<1>7. Stands(p, e, relayed, Reachable) BY <1>4, <1>6, PeersAreNoNames DEF Stands
<1>8. UNCHANGED <<bind, recorded, relayed, captureFile>> /\ Set(p, e) BY <1>1 DEF Post, n
<1> HIDE DEF e
<1> QED BY <1>5, <1>7, <1>8, OnlyOneMoves

LEMMA RejectMalformedStep == ASSUME GatewayInv, NEW p \in Peer, RejectMalformed(p) PROVE GatewayInv'
<1> DEFINE reply == [status |-> 422, text |-> "not a request"]
<1>1. reply \in Reply /\ reply.status >= 400 BY DEF Reply
<1>2. Set(p, Replied(p, reply, "gateway")) /\ UNCHANGED <<bind, recorded, relayed, captureFile>>
  BY DEF RejectMalformed
<1>3. exchange[p].at # "idle" /\ exchange[p].sent = {} BY DEF RejectMalformed, GatewayInv, Stands
<1> HIDE DEF reply
<1> QED BY <1>1, <1>2, <1>3, GatewayReplies, OnlyOneMoves

LEMMA StoreFailsStep == ASSUME GatewayInv, NEW p \in Peer, StoreFails(p) PROVE GatewayInv'
<1>1. PICK code \in {"store.unavailable", "crypto.token_required"} :
        Set(p, Replied(p, ErrorResponse(code), "gateway"))
  BY DEF StoreFails
<1>2. ErrorResponse(code) \in Reply /\ ErrorResponse(code).status >= 400
  BY ErrorsAreErrors DEF ErrorCode
<1>3. /\ exchange[p].at # "idle" /\ exchange[p].raw \in MessagesBody
      /\ UNCHANGED <<bind, recorded, relayed, captureFile>>
  BY DEF StoreFails
<1> QED BY <1>1, <1>2, <1>3, GatewayReplies, OnlyOneMoves

LEMMA NoUpstreamStep == ASSUME GatewayInv, NEW p \in Peer, NoUpstream(p) PROVE GatewayInv'
<1>1. PICK code \in {"provider.api_error", "no CacheError"} :
        Set(p, Replied(p, ErrorResponse(code), "gateway"))
  BY DEF NoUpstream
<1>2. ErrorResponse(code) \in Reply /\ ErrorResponse(code).status >= 400
  BY ErrorsAreErrors DEF ErrorCode
<1>3. /\ exchange[p].at # "idle" /\ exchange[p].raw \in MessagesBody
      /\ UNCHANGED <<bind, recorded, relayed, captureFile>>
  BY DEF NoUpstream, GatewayInv, Stands
<1> QED BY <1>1, <1>2, <1>3, GatewayReplies, OnlyOneMoves

\* Waiting, relaying and being over change nothing a reply says.
LEMMA NotStoredStep == ASSUME GatewayInv, NEW p \in Peer, NotStored(p) PROVE GatewayInv'
<1>1. exchange[p] \in Exchange /\ Stands(p, exchange[p], relayed, Reachable) BY DEF GatewayInv
<1> DEFINE e == [exchange[p] EXCEPT !.at = "waiting"]
<1>2. e \in Exchange BY <1>1 DEF Exchange
<1>3. Stands(p, e, relayed, Reachable) BY <1>1 DEF Stands, Exchange, NotStored
<1>4. Set(p, e) /\ UNCHANGED <<bind, recorded, relayed, captureFile>> BY DEF NotStored
<1> HIDE DEF e
<1> QED BY <1>2, <1>3, <1>4, OnlyOneMoves

LEMMA RelayBodyStep == ASSUME GatewayInv, NEW p \in Peer, RelayBody(p) PROVE GatewayInv'
<1>1. exchange[p] \in Exchange /\ Stands(p, exchange[p], relayed, Reachable) BY DEF GatewayInv
<1> DEFINE e == [exchange[p] EXCEPT !.at = "relaying", !.sent = UpstreamHeaders]
<1>2. UpstreamHeaders \subseteq Header BY DEF UpstreamHeaders, Header
<1>3. e \in Exchange BY <1>1, <1>2 DEF Exchange
<1>4. Stands(p, e, relayed, Reachable) BY <1>1 DEF Stands, Exchange, RelayBody
<1>5. Set(p, e) /\ UNCHANGED <<bind, recorded, relayed, captureFile>> BY DEF RelayBody
<1> HIDE DEF e
<1> QED BY <1>3, <1>4, <1>5, OnlyOneMoves

LEMMA CaptureStep == ASSUME GatewayInv, NEW p \in Peer, Capture(p) PROVE GatewayInv'
<1>1. exchange[p] \in Exchange /\ Stands(p, exchange[p], relayed, Reachable) BY DEF GatewayInv
<1> DEFINE e == [exchange[p] EXCEPT !.at = "over"]
<1>2. e \in Exchange BY <1>1 DEF Exchange
<1>3. Stands(p, e, relayed, Reachable) BY <1>1 DEF Stands, Truthful, Exchange, Capture
<1>4. Set(p, e) /\ UNCHANGED <<bind, recorded, relayed>> BY DEF Capture
<1>5. RecordedSound' BY <1>4 DEF GatewayInv, RecordedSound, Reachable
<1>6. CaptureTellsNoSecret'
  <2> SUFFICES ASSUME NEW line \in captureFile' \ captureFile
               PROVE  /\ line.headers \cap {"authorization", "x-goog-api-key", "cookie"} = {}
                      /\ line.reply.status = 200 =>
                           \E q \in MessagesBody : \E body \in relayed[q] : body.text = line.reply.text
    BY <1>4 DEF GatewayInv, CaptureTellsNoSecret
  <2>1. line = [by |-> p, headers |-> Header \ SensitiveHeader, reply |-> exchange[p].reply] BY DEF Capture
  <2>2. line.headers = Header \ SensitiveHeader /\ line.reply = exchange[p].reply BY <2>1
  <2>3. ASSUME exchange[p].reply.status = 200
        PROVE  \E q \in MessagesBody : \E body \in relayed[q] : body.text = exchange[p].reply.text
    <3>1. exchange[p].at = "replied" BY DEF Capture
    <3>2. /\ Truthful(p, exchange[p], relayed)
          /\ exchange[p].from # "gateway" => exchange[p].raw \in MessagesBody
      BY <1>1, <3>1 DEF Stands
    <3>3. exchange[p].from # "gateway" BY <3>2, <2>3 DEF Truthful
    <3> QED BY <2>3, <3>2, <3>3 DEF Truthful
  <2> QED BY <2>2, <2>3 DEF SensitiveHeader
<1> HIDE DEF e
<1> QED BY <1>2, <1>3, <1>4, <1>5, <1>6, OneMoves

LEMMA ServeHitStep == ASSUME GatewayInv, NEW p \in Peer, ServeHit(p) PROVE GatewayInv'
<1> DEFINE q == exchange[p].raw
           reply == [status |-> 200, text |-> recorded[q].text]
           r == Replied(p, reply, recorded[q].by)
<1>1. exchange[p] \in Exchange /\ Stands(p, exchange[p], relayed, Reachable) BY DEF GatewayInv
<1>2. q \in MessagesBody /\ q \in DOMAIN recorded /\ exchange[p].at # "idle" BY DEF ServeHit, HasAnswer
<1>3. PICK body \in relayed[q] : recorded[q].text = body.text BY <1>2 DEF GatewayInv, RecordedSound
<1>4. body \in Body BY <1>2 DEF GatewayInv, RecordedSound
<1>5. reply \in Reply /\ reply.status = 200 /\ reply.text = body.text BY <1>3, <1>4, BodySays DEF Reply
<1>6. recorded[q].by \in Peer /\ (recorded[q].by \in Neighbour => Reachable)
  BY <1>2 DEF GatewayInv, RecordedSound
<1>7. r = [exchange[p] EXCEPT !.at = "replied", !.reply = reply, !.from = recorded[q].by] BY DEF Replied
<1>8. Set(p, r) /\ UNCHANGED <<bind, recorded, relayed, captureFile>> BY DEF ServeHit
<1> DEFINE by == recorded[q].by
<1> HIDE DEF reply, r, by
<1>9. r \in Exchange /\ r.at = "replied" /\ r.reply = reply /\ r.from = by /\ r.raw = q
  BY <1>1, <1>5, <1>6, <1>7 DEF Exchange, by
<1>10. Truthful(p, r, relayed) BY <1>3, <1>5, <1>6, <1>9, PeersAreNoNames DEF Truthful, by
<1>11. Stands(p, r, relayed, Reachable)
  BY <1>1, <1>2, <1>6, <1>9, <1>10, PeersAreNoNames DEF Stands, by
<1> QED BY <1>8, <1>9, <1>11, OnlyOneMoves

\* Upstream says something: a 200 that is text is answered with, and remembered.
LEMMA UpstreamsStep == ASSUME GatewayInv, NEW p \in Peer, Upstreams(p) PROVE GatewayInv'
<1> DEFINE q == exchange[p].raw
<1>1. exchange[p] \in Exchange /\ Stands(p, exchange[p], relayed, Reachable) BY DEF GatewayInv
<1>2. q \in MessagesBody /\ exchange[p].at = "relaying" BY <1>1 DEF Stands, Upstreams
<1>3. PICK body \in Upstream(q) :
        /\ relayed' = IF body.status = 200 /\ body.utf8
                        THEN [relayed EXCEPT ![q] = @ \cup {body}] ELSE relayed
        /\ IF ~body.utf8 /\ body.status = 200
             THEN Set(p, [Replied(p, ErrorResponse("provider.protocol_error"), "gateway") EXCEPT !.upstream = body])
             ELSE Set(p, [exchange[p] EXCEPT !.at = "answered", !.upstream = body])
  BY DEF Upstreams
<1>4. body \in Body /\ body.utf8 \in BOOLEAN /\ body.status \in {200, 401} BY <1>2, UpstreamSays
<1>5. UNCHANGED <<bind, recorded, captureFile>> BY DEF Upstreams
<1>6. relayed \in [MessagesBody -> SUBSET Body] BY DEF GatewayInv, RecordedSound
<1>7. relayed' \in [MessagesBody -> SUBSET Body] /\ \A s \in MessagesBody : relayed[s] \subseteq relayed'[s]
  BY <1>2, <1>3, <1>4, <1>6
<1>8. RecordedSound'
  <2>1. Reachable' = Reachable BY <1>5 DEF Reachable
  <2>2. ASSUME NEW s \in DOMAIN recorded
        PROVE  /\ recorded[s].by \in Peer /\ (recorded[s].by \in Neighbour => Reachable)
               /\ \E b \in relayed'[s] : recorded[s].text = b.text /\ recorded[s].usage = ParseUsage(b)
    BY <1>7 DEF GatewayInv, RecordedSound
  <2>3. DOMAIN recorded \subseteq MessagesBody BY DEF GatewayInv, RecordedSound
  <2> QED BY <1>5, <1>7, <2>1, <2>2, <2>3 DEF RecordedSound
<1>9. CaptureTellsNoSecret' BY <1>5, <1>7 DEF GatewayInv, CaptureTellsNoSecret
<1>10. CASE ~body.utf8 /\ body.status = 200
  <2> DEFINE r == Replied(p, ErrorResponse("provider.protocol_error"), "gateway")
             e == [r EXCEPT !.upstream = body]
  <2>1. ErrorResponse("provider.protocol_error") \in Reply /\ ErrorResponse("provider.protocol_error").status >= 400
    BY ErrorsAreErrors DEF ErrorCode
  <2>2. r \in Exchange /\ Stands(p, r, relayed, Reachable) BY <1>2, <2>1, GatewayReplies
  <2>3. r.at = "replied" /\ r.from = "gateway" BY <1>1 DEF Replied, Exchange
  <2> HIDE DEF r
  <2>4. e \in Exchange BY <1>4, <2>2 DEF Exchange
  <2>5. Stands(p, e, relayed, Reachable) BY <2>2, <2>3 DEF Stands, Truthful, Exchange
  <2>6. Set(p, e) BY <1>3, <1>10 DEF r
  <2>7. Reachable \in BOOLEAN BY DEF Reachable
  <2> HIDE DEF e
  <2>8. Stands(p, e, relayed', Reachable) BY <1>7, <2>4, <2>5, <2>7, StandsLater
  <2> QED BY <1>5, <1>7, <1>8, <1>9, <2>4, <2>6, <2>8, OneMoves
<1>11. CASE body.utf8 \/ body.status # 200
  <2> DEFINE e == [exchange[p] EXCEPT !.at = "answered", !.upstream = body]
  <2>1. Set(p, e) BY <1>3, <1>4, <1>11
  <2>2. e \in Exchange /\ e.at = "answered" /\ e.upstream = body /\ e.raw = q /\ e.from = exchange[p].from
    BY <1>1, <1>4 DEF Exchange
  <2>3. body.status = 200 => body \in relayed'[q] BY <1>2, <1>3, <1>4, <1>6, <1>11
  <2> HIDE DEF e
  <2>4. Stands(p, e, relayed', Reachable) BY <1>1, <1>2, <2>2, <2>3 DEF Stands
  <2> QED BY <1>5, <1>7, <1>8, <1>9, <2>1, <2>2, <2>4, OneMoves
<1> QED BY <1>4, <1>10, <1>11

\* A 200 may be kept; what the caller gets is what upstream said, whatever the status.
LEMMA RecordAnswerStep == ASSUME GatewayInv, NEW p \in Peer, RecordAnswer(p) PROVE GatewayInv'
<1> DEFINE q == exchange[p].raw
           body == exchange[p].upstream
           answer == ToAnswer(body)
           reply == ToHttpResponse(answer)
           r == Replied(p, reply, p)
           row == [text |-> answer.text, by |-> p, usage |-> ParseUsage(body)]
           kept == Overlay([s \in {q} |-> row], recorded)
<1>1. exchange[p] \in Exchange /\ Stands(p, exchange[p], relayed, Reachable) BY DEF GatewayInv
<1>2. q \in MessagesBody /\ exchange[p].at = "answered" /\ body \in Upstream(q)
      /\ (body.status = 200 => body \in relayed[q])
  BY <1>1 DEF Stands, RecordAnswer
<1>3. body.status \in {200, 401} /\ body.text \in BodyText BY <1>2, UpstreamSays
<1>4. (answer.exit = 0 <=> body.status = 200) /\ answer.text = body.text BY <1>3 DEF ToAnswer
<1>5. reply \in Reply /\ reply.status = body.status /\ reply.text = body.text
  <2>1. reply.status = body.status /\ reply.text = body.text BY <1>3 DEF ToHttpResponse, ToAnswer
  <2>2. reply = [status |-> reply.status, text |-> reply.text] BY DEF ToHttpResponse
  <2>3. reply.status \in Nat /\ reply.text \in BodyText BY <1>3, <2>1
  <2> HIDE DEF reply
  <2> QED BY <2>1, <2>2, <2>3 DEF Reply
<1>6. recorded' = recorded \/ (body.status = 200 /\ recorded' = kept) BY <1>4 DEF RecordAnswer
<1>7. Set(p, r) /\ UNCHANGED <<bind, relayed, captureFile>> BY DEF RecordAnswer
<1>8. r = [exchange[p] EXCEPT !.at = "replied", !.reply = reply, !.from = p] BY DEF Replied
<1>9. row.text = body.text /\ row.by = p /\ row.usage = ParseUsage(body) BY <1>4
<1>10. DOMAIN kept = {q} \cup DOMAIN recorded /\ kept[q] = row
       /\ \A s \in DOMAIN recorded : s # q => kept[s] = recorded[s]
  BY DEF Overlay
<1> HIDE DEF reply, r, kept, answer, row
<1>11. r \in Exchange /\ r.at = "replied" /\ r.reply = reply /\ r.from = p /\ r.raw = q /\ r.upstream = body
  BY <1>1, <1>5, <1>8 DEF Exchange
<1> HIDE DEF q, body
<1>12. Truthful(p, r, relayed) BY <1>2, <1>5, <1>11, PeersAreNoNames DEF Truthful
<1>13. p \in Neighbour => Reachable BY <1>1, <1>2 DEF Stands
<1>14. Stands(p, r, relayed, Reachable) BY <1>2, <1>11, <1>12, <1>13, PeersAreNoNames DEF Stands
<1>15. RecordedSound'
  <2>1. Reachable' = Reachable /\ relayed' = relayed BY <1>7 DEF Reachable
  <2>2. CASE recorded' = recorded BY <2>1, <2>2 DEF GatewayInv, RecordedSound
  <2>3. CASE body.status = 200 /\ recorded' = kept
    <3>1. DOMAIN kept \subseteq MessagesBody BY <1>2, <1>10 DEF GatewayInv, RecordedSound
    <3>2. ASSUME NEW s \in DOMAIN kept
          PROVE  /\ kept[s].by \in Peer /\ (kept[s].by \in Neighbour => Reachable)
                 /\ \E b \in relayed[s] : kept[s].text = b.text /\ kept[s].usage = ParseUsage(b)
      <4>1. CASE s = q BY <1>2, <1>9, <1>10, <1>13, <2>3, <4>1
      <4>2. CASE s # q BY <1>10, <4>2 DEF GatewayInv, RecordedSound
      <4> QED BY <4>1, <4>2
    <3>3. relayed \in [MessagesBody -> SUBSET Body] BY DEF GatewayInv, RecordedSound
    <3> QED BY <2>1, <2>3, <3>1, <3>2, <3>3 DEF RecordedSound
  <2> QED BY <1>6, <2>2, <2>3
<1>16. CaptureTellsNoSecret' BY <1>7 DEF GatewayInv, CaptureTellsNoSecret
<1>17. \A s \in MessagesBody : relayed[s] \subseteq relayed'[s] BY <1>7
<1> QED BY <1>7, <1>11, <1>14, <1>15, <1>16, <1>17, OneMoves

LEMMA GatewayStep == GatewayInv /\ [GatewayNext]_gatewayVars => GatewayInv'
<1> SUFFICES ASSUME GatewayInv, [GatewayNext]_gatewayVars PROVE GatewayInv' OBVIOUS
<1>1. CASE UNCHANGED gatewayVars
  BY <1>1 DEF gatewayVars, GatewayInv, BindIsSafe, Stands, RecordedSound, CaptureTellsNoSecret, Reachable, Truthful
<1>2. CASE GatewayNext
  BY <1>2, BindHostStep, PurgeAllStep, PostStep, RejectMalformedStep, ServeHitStep, StoreFailsStep,
     NotStoredStep, RelayBodyStep, UpstreamsStep, NoUpstreamStep, RecordAnswerStep, CaptureStep
  DEF GatewayNext
<1> QED BY <1>1, <1>2

\* The gateway's state keeps its shape, whatever is asked and whatever upstream says.
THEOREM GatewayTypes == GatewaySpec => []GatewayTypeOK
BY GatewayBegins, GatewayStep, TypesIfInv, PTL DEF GatewaySpec

\* For any number of callers, near and far, who ask the same and different things, hits,
\* relays that fail and purges between them: the proxy stands between its callers and
\* upstream without their noticing (gateway.py, relay.py, capture.py).
THEOREM ProxyIsTransparent == GatewaySpec => []GatewayIsTransparent
BY GatewayBegins, GatewayStep, TransparentIfInv, PTL DEF GatewaySpec

-----------------------------------------------------------------------------
(* AdapterDiscovery: a name leads to one adapter, and to one that may be   *)
(* run.  The lists are sieved, and what a sieve keeps is shown by the      *)
(* least place where it would go wrong.                                    *)

OneEach(list)  == \A i, k \in DOMAIN list : list[i] = list[k] => i = k
Distinct(list) == \A i, k \in DOMAIN list : list[i].id = list[k].id => i = k

\* What is kept of a list up to each place.
Sieving(list, set, kept, n) ==
  kept = [i \in 0..n |-> IF i = 0 THEN <<>>
                         ELSE IF list[i] \in set THEN Append(kept[i - 1], list[i]) ELSE kept[i - 1]]

LEMMA SievingEnds ==
  ASSUME NEW list, NEW set, NEW n \in Nat PROVE \E kept : Sieving(list, set, kept, n)
<1> DEFINE never == {k \in Nat : ~ \E kept : Sieving(list, set, kept, k)}
<1> SUFFICES ASSUME n \in never PROVE FALSE OBVIOUS
<1>1. PICK k \in never : \A x \in never : k <= x
  <2>1. never \in SUBSET Nat /\ never # {} OBVIOUS
  <2> HIDE DEF never
  <2> QED BY <2>1, LeastNumber
<1>2. k # 0
  <2> DEFINE none == [i \in 0..0 |-> <<>>]
  <2>1. \A i \in 0..0 : i = 0 OBVIOUS
  <2>2. Sieving(list, set, none, 0) BY <2>1 DEF Sieving
  <2> QED BY <2>2
<1>3. k - 1 \in Nat /\ k - 1 \notin never BY <1>1, <1>2
<1>4. PICK kept : Sieving(list, set, kept, k - 1) BY <1>3
<1> DEFINE Next1(i, before) == IF list[i] \in set THEN Append(before, list[i]) ELSE before
           more == [i \in 0..k |-> IF i = k THEN Next1(k, kept[k - 1]) ELSE kept[i]]
<1>5. ASSUME NEW i \in 0..k
      PROVE more[i] = IF i = 0 THEN <<>> ELSE Next1(i, more[i - 1])
  <2>1. CASE i = k
    <3>1. more[k] = Next1(k, kept[k - 1]) BY <1>2
    <3>2. k - 1 \in 0..k /\ k - 1 # k BY <1>3
    <3>3. more[k - 1] = kept[k - 1] BY <3>2
    <3> HIDE DEF more, Next1
    <3> QED BY <2>1, <1>2, <3>1, <3>3
  <2>2. CASE i # k /\ i # 0
    <3>1. i \in 0..(k - 1) /\ i - 1 \in 0..k /\ i - 1 # k BY <2>2, <1>3
    <3>2. kept[i] = Next1(i, kept[i - 1]) BY <1>4, <3>1, <2>2 DEF Sieving
    <3>3. more[i] = kept[i] /\ more[i - 1] = kept[i - 1] BY <2>2, <3>1
    <3> HIDE DEF more, Next1
    <3> QED BY <2>2, <3>2, <3>3
  <2>3. CASE i # k /\ i = 0
    <3>1. i \in 0..(k - 1) BY <2>3, <1>3
    <3>2. kept[i] = <<>> BY <1>4, <3>1, <2>3 DEF Sieving
    <3>3. more[i] = kept[i] BY <2>3
    <3> QED BY <2>3, <3>2, <3>3
  <2> QED BY <2>1, <2>2, <2>3
<1>6. more = [i \in 0..k |-> more[i]] OBVIOUS
<1> HIDE DEF more
<1>7. Sieving(list, set, more, k) BY <1>5, <1>6 DEF Sieving
<1> QED BY <1>7, <1>1

\* Of a list, a sieve keeps the members of the set, each as often as before.
Keeps(list, set, some, T, n) ==
  /\ some \in Seq(T)
  /\ AdaptersIn(some) = {list[i] : i \in 1..n} \cap set
  /\ OneEach(list) => OneEach(some)

LEMMA AppendedIs ==
  ASSUME NEW T, NEW some \in Seq(T), NEW x \in T
  PROVE  /\ Append(some, x) \in Seq(T)
         /\ AdaptersIn(Append(some, x)) = AdaptersIn(some) \cup {x}
         /\ OneEach(some) /\ x \notin AdaptersIn(some) => OneEach(Append(some, x))
<1> DEFINE more == Append(some, x)
<1>1. /\ more \in Seq(T) /\ Len(more) = Len(some) + 1 /\ Len(some) \in Nat
      /\ DOMAIN more = 1..Len(more) /\ DOMAIN some = 1..Len(some)
      /\ \A i \in 1..Len(some) : more[i] = some[i]
      /\ more[Len(some) + 1] = x
  OBVIOUS
<1> HIDE DEF more
<1>2. AdaptersIn(more) = AdaptersIn(some) \cup {x}
  <2>1. \A i \in DOMAIN more : i \in DOMAIN some \/ i = Len(some) + 1 BY <1>1
  <2>2. \A i \in DOMAIN some : i \in DOMAIN more BY <1>1
  <2>3. Len(some) + 1 \in DOMAIN more BY <1>1
  <2> QED BY <1>1, <2>1, <2>2, <2>3 DEF AdaptersIn
<1>3. ASSUME OneEach(some), x \notin AdaptersIn(some) PROVE OneEach(more)
  <2>1. \A i \in DOMAIN some : some[i] # x BY <1>3 DEF AdaptersIn
  <2> QED BY <1>1, <1>3, <2>1 DEF OneEach
<1> QED BY <1>1, <1>2, <1>3 DEF more

LEMMA SieveKeeps ==
  ASSUME NEW T, NEW list \in Seq(T), NEW set
  PROVE  Keeps(list, set, Sieve(list, set), T, Len(list))
<1> DEFINE n == Len(list)
           kept == CHOOSE f : f = [i \in 0..n |-> IF i = 0 THEN <<>>
                     ELSE IF list[i] \in set THEN Append(f[i - 1], list[i]) ELSE f[i - 1]]
<1>n. n \in Nat /\ DOMAIN list = 1..n /\ \A i \in 1..n : list[i] \in T OBVIOUS
<1>1. \E f : f = [i \in 0..n |-> IF i = 0 THEN <<>>
                     ELSE IF list[i] \in set THEN Append(f[i - 1], list[i]) ELSE f[i - 1]]
  <2> HIDE DEF n
  <2>1. PICK f : Sieving(list, set, f, n) BY <1>n, SievingEnds
  <2> QED BY <2>1 DEF Sieving
<1>2. kept = [i \in 0..n |-> IF i = 0 THEN <<>>
                ELSE IF list[i] \in set THEN Append(kept[i - 1], list[i]) ELSE kept[i - 1]]
  BY <1>1
<1>3. Sieve(list, set) = kept[n] BY DEF Sieve
<1> HIDE DEF kept
<1> DEFINE wrong == {k \in Nat : k \in 0..n /\ ~Keeps(list, set, kept[k], T, k)}
<1> SUFFICES ASSUME n \in wrong PROVE FALSE BY <1>3, <1>n
<1>4. PICK k \in wrong : \A x \in wrong : k <= x
  <2>1. wrong \in SUBSET Nat /\ wrong # {} OBVIOUS
  <2> HIDE DEF wrong
  <2> QED BY <2>1, LeastNumber
<1>5. k # 0
  <2>1. kept[0] = <<>> BY <1>2, <1>n
  <2>2. Keeps(list, set, <<>>, T, 0)
    <3>1. AdaptersIn(<<>>) = {} BY DEF AdaptersIn
    <3>2. 1..0 = {} OBVIOUS
    <3>3. {list[i] : i \in 1..0} = {} BY <3>2
    <3> QED BY <3>1, <3>3 DEF Keeps, OneEach
  <2> QED BY <2>1, <2>2
<1>6. k \in 1..n /\ k - 1 \in Nat /\ k - 1 \in 0..n /\ k - 1 \notin wrong BY <1>4, <1>5, <1>n
<1>7. Keeps(list, set, kept[k - 1], T, k - 1) BY <1>6
<1>8. kept[k] = IF list[k] \in set THEN Append(kept[k - 1], list[k]) ELSE kept[k - 1]
  BY <1>2, <1>6, <1>5
<1>9. {list[i] : i \in 1..k} = {list[i] : i \in 1..(k - 1)} \cup {list[k]}
  <2>1. 1..k = (1..(k - 1)) \cup {k} BY <1>6
  <2> QED BY <2>1
<1> DEFINE some == kept[k - 1]
<1>10. some \in Seq(T) /\ AdaptersIn(some) = {list[i] : i \in 1..(k - 1)} \cap set
       /\ (OneEach(list) => OneEach(some)) BY <1>7 DEF Keeps
<1>11. CASE list[k] \in set
  <2>1. list[k] \in T BY <1>6, <1>n
  <2>2. kept[k] = Append(some, list[k]) BY <1>8, <1>11
  <2> HIDE DEF some
  <2>3. ASSUME OneEach(list) PROVE list[k] \notin AdaptersIn(some)
    <3>1. \A i \in 1..(k - 1) : i \in DOMAIN list /\ i # k BY <1>6, <1>n
    <3>2. \A i \in 1..(k - 1) : list[i] # list[k] BY <3>1, <2>3, <1>6, <1>n DEF OneEach
    <3> QED BY <3>2, <1>10
  <2> DEFINE more == Append(some, list[k])
  <2>a. /\ more \in Seq(T) /\ AdaptersIn(more) = AdaptersIn(some) \cup {list[k]}
        /\ OneEach(some) /\ list[k] \notin AdaptersIn(some) => OneEach(more)
    BY <2>1, <1>10, AppendedIs
  <2> HIDE DEF more
  <2>b. AdaptersIn(more) = {list[i] : i \in 1..k} \cap set BY <2>a, <1>9, <1>10, <1>11
  <2>c. OneEach(list) => OneEach(more) BY <2>a, <2>3, <1>10
  <2>4. Keeps(list, set, kept[k], T, k) BY <2>2, <2>a, <2>b, <2>c DEF Keeps, more
  <2> QED BY <2>4
<1>12. CASE list[k] \notin set
  <2>1. Keeps(list, set, kept[k], T, k) BY <1>8, <1>9, <1>10, <1>12 DEF Keeps
  <2> QED BY <2>1
<1> QED BY <1>11, <1>12

LEMMA SieveIs ==
  ASSUME NEW T, NEW list \in Seq(T), NEW set
  PROVE  /\ Sieve(list, set) \in Seq(T)
         /\ AdaptersIn(Sieve(list, set)) = AdaptersIn(list) \cap set
         /\ OneEach(list) => OneEach(Sieve(list, set))
<1>1. DOMAIN list = 1..Len(list) OBVIOUS
<1>2. Keeps(list, set, Sieve(list, set), T, Len(list)) BY SieveKeeps
<1>3. AdaptersIn(list) = {list[i] : i \in 1..Len(list)} BY <1>1 DEF AdaptersIn
<1> QED BY <1>2, <1>3 DEF Keeps

LEMMA DistinctMeans ==
  ASSUME NEW list
  PROVE  Distinct(list) <=> OneEach(list) /\ \A x, y \in AdaptersIn(list) : x.id = y.id => x = y
BY DEF Distinct, OneEach, AdaptersIn

LEMMA JoinedIs ==
  ASSUME NEW T, NEW a \in Seq(T), NEW b \in Seq(T)
  PROVE  /\ a \o b \in Seq(T)
         /\ AdaptersIn(a \o b) = AdaptersIn(a) \cup AdaptersIn(b)
         /\ Distinct(a) /\ Distinct(b) /\ Ids(a) \cap Ids(b) = {} => Distinct(a \o b)
<1> DEFINE c == a \o b
<1>1. /\ c \in Seq(T) /\ Len(c) = Len(a) + Len(b) /\ Len(a) \in Nat /\ Len(b) \in Nat
      /\ DOMAIN c = 1..Len(c) /\ DOMAIN a = 1..Len(a) /\ DOMAIN b = 1..Len(b)
      /\ \A i \in 1..Len(a) : c[i] = a[i]
      /\ \A i \in (Len(a) + 1)..(Len(a) + Len(b)) : c[i] = b[i - Len(a)]
  OBVIOUS
<1> HIDE DEF c
<1>2. \A i \in DOMAIN c : \/ i \in DOMAIN a /\ c[i] = a[i]
                          \/ i - Len(a) \in DOMAIN b /\ c[i] = b[i - Len(a)]
  BY <1>1
<1>3. \A i \in DOMAIN a : i \in DOMAIN c /\ c[i] = a[i] BY <1>1
<1>4. \A i \in DOMAIN b : i + Len(a) \in DOMAIN c /\ c[i + Len(a)] = b[i] BY <1>1
<1>5. AdaptersIn(c) \subseteq AdaptersIn(a) \cup AdaptersIn(b) BY <1>2 DEF AdaptersIn
<1>6. AdaptersIn(a) \subseteq AdaptersIn(c) BY <1>3 DEF AdaptersIn
<1>7. AdaptersIn(b) \subseteq AdaptersIn(c)
  <2>1. ASSUME NEW i \in DOMAIN b PROVE b[i] \in AdaptersIn(c) BY <1>4 DEF AdaptersIn
  <2> QED BY <2>1 DEF AdaptersIn
<1>8. ASSUME Distinct(a), Distinct(b), Ids(a) \cap Ids(b) = {} PROVE Distinct(c)
  <2>1. \A i \in DOMAIN a, k \in DOMAIN b : a[i].id # b[k].id BY <1>8 DEF Ids
  <2> SUFFICES ASSUME NEW i \in DOMAIN c, NEW k \in DOMAIN c, c[i].id = c[k].id PROVE i = k
    BY DEF Distinct
  <2>2. CASE i \in DOMAIN a /\ c[i] = a[i] /\ k \in DOMAIN a /\ c[k] = a[k]
    BY <2>2, <1>8 DEF Distinct
  <2>3. CASE i - Len(a) \in DOMAIN b /\ c[i] = b[i - Len(a)] /\ k - Len(a) \in DOMAIN b /\ c[k] = b[k - Len(a)]
    <3>1. i - Len(a) = k - Len(a) BY <2>3, <1>8 DEF Distinct
    <3> QED BY <3>1, <1>1
  <2>4. CASE i \in DOMAIN a /\ c[i] = a[i] /\ k - Len(a) \in DOMAIN b /\ c[k] = b[k - Len(a)]
    BY <2>4, <2>1
  <2>5. CASE i - Len(a) \in DOMAIN b /\ c[i] = b[i - Len(a)] /\ k \in DOMAIN a /\ c[k] = a[k]
    BY <2>5, <2>1
  <2> QED BY <1>2, <2>2, <2>3, <2>4, <2>5
<1> QED BY <1>1, <1>5, <1>6, <1>7, <1>8 DEF c

-----------------------------------------------------------------------------
(* The scan.                                                               *)

Catalogs == [scanned : BOOLEAN, classes : Seq(Plugin)]
Usable(p, whitelist) == IsAllowedToLoad(p, whitelist) /\ p.loads = "ok"

InstalledOK == installed \in Seq(Plugin) /\ OneEach(installed)

LEMMA FoundIs ==
  ASSUME InstalledOK, NEW whitelist, NEW catalog
  PROVE  LET found == Found(whitelist, catalog)
         IN /\ found \subseteq AdaptersIn(installed)
            /\ \A p \in found : Usable(p, whitelist) /\ p.id \notin Ids(catalog.classes)
            /\ \A p, q \in found : p.id = q.id => p = q
            /\ Duplicate(whitelist, catalog) = {} =>
                 found = {p \in AdaptersIn(installed) : Usable(p, whitelist)}
<1> DEFINE found == Found(whitelist, catalog)
           double == Duplicate(whitelist, catalog)
<1>0. DOMAIN installed = 1..Len(installed) /\ Len(installed) \in Nat BY DEF InstalledOK
<1>1. \A p \in found : \E i \in DOMAIN installed : p = installed[i] /\ i \notin double /\ Vetted(i, whitelist)
  BY DEF Found, Reached
<1>2. \A i \in DOMAIN installed \ double : Vetted(i, whitelist) =>
        /\ installed[i].id \notin Ids(catalog.classes)
        /\ \A k \in 1..(i - 1) : Vetted(k, whitelist) => installed[i].id # installed[k].id
  BY DEF Duplicate
<1>3. \A i \in DOMAIN installed : Vetted(i, whitelist) <=> Usable(installed[i], whitelist)
  BY DEF Vetted, Admitted, Usable
<1>4. found \subseteq AdaptersIn(installed) BY <1>1 DEF AdaptersIn
<1>5. \A p \in found : Usable(p, whitelist) /\ p.id \notin Ids(catalog.classes) BY <1>1, <1>2, <1>3
<1>6. ASSUME NEW p \in found, NEW q \in found, p.id = q.id PROVE p = q
  <2>1. PICK i \in DOMAIN installed : p = installed[i] /\ i \notin double /\ Vetted(i, whitelist) BY <1>1
  <2>2. PICK k \in DOMAIN installed : q = installed[k] /\ k \notin double /\ Vetted(k, whitelist) BY <1>1
  <2> HIDE DEF double, found
  <2>3. CASE i < k
    <3>1. i \in 1..(k - 1) BY <2>3, <1>0
    <3> QED BY <3>1, <2>1, <2>2, <1>2, <1>6
  <2>4. CASE k < i
    <3>1. k \in 1..(i - 1) BY <2>4, <1>0
    <3> QED BY <3>1, <2>1, <2>2, <1>2, <1>6
  <2> QED BY <2>1, <2>2, <2>3, <2>4, <1>0
<1>7. ASSUME double = {} PROVE found = {p \in AdaptersIn(installed) : Usable(p, whitelist)}
  <2>1. Reached(whitelist, catalog) = DOMAIN installed BY <1>7 DEF Reached
  <2>2. found = {installed[i] : i \in {i \in DOMAIN installed : Vetted(i, whitelist)}}
    BY <1>7, <2>1 DEF Found
  <2> HIDE DEF found
  <2> QED BY <2>2, <1>3 DEF AdaptersIn
<1> QED BY <1>4, <1>5, <1>6, <1>7

LEMMA ScanIs ==
  ASSUME InstalledOK, NEW whitelist, NEW catalog \in Catalogs, Distinct(catalog.classes)
  PROVE  LET scan == Scan(whitelist, catalog)
         IN /\ scan \in Catalogs /\ Distinct(scan.classes)
            /\ catalog = Unscanned /\ scan.scanned =>
                 AdaptersIn(scan.classes) = {p \in AdaptersIn(installed) : Usable(p, whitelist)}
<1> DEFINE found == Found(whitelist, catalog)
           sieved == Sieve(installed, found)
           scan  == Scan(whitelist, catalog)
<1>1. CASE catalog.scanned
  <2>1. scan = catalog BY <1>1 DEF Scan
  <2>2. catalog # Unscanned BY <1>1 DEF Unscanned
  <2> QED BY <2>1, <2>2
<1>2. CASE ~catalog.scanned
  <2>1. /\ sieved \in Seq(Plugin) /\ AdaptersIn(sieved) = AdaptersIn(installed) \cap found /\ OneEach(sieved)
    BY SieveIs DEF InstalledOK
  <2>2. /\ found \subseteq AdaptersIn(installed)
        /\ \A p \in found : p.id \notin Ids(catalog.classes)
        /\ \A p, q \in found : p.id = q.id => p = q
        /\ Duplicate(whitelist, catalog) = {} =>
             found = {p \in AdaptersIn(installed) : Usable(p, whitelist)}
    BY FoundIs
  <2>3. scan = [scanned |-> Duplicate(whitelist, catalog) = {}, classes |-> catalog.classes \o sieved]
    BY <1>2 DEF Scan
  <2> HIDE DEF found, sieved, scan
  <2>4. AdaptersIn(sieved) = found BY <2>1, <2>2
  <2>5. Distinct(sieved) BY <2>1, <2>2, <2>4, DistinctMeans
  <2>6. Ids(catalog.classes) \cap Ids(sieved) = {} BY <2>2, <2>4 DEF Ids, AdaptersIn
  <2>7. catalog.classes \in Seq(Plugin) BY DEF Catalogs
  <2>8. /\ catalog.classes \o sieved \in Seq(Plugin)
        /\ AdaptersIn(catalog.classes \o sieved) = AdaptersIn(catalog.classes) \cup AdaptersIn(sieved)
        /\ Distinct(catalog.classes \o sieved)
    BY <2>1, <2>5, <2>6, <2>7, JoinedIs
  <2>9. scan \in Catalogs /\ Distinct(scan.classes) BY <2>3, <2>8 DEF Catalogs
  <2>10. ASSUME catalog = Unscanned, scan.scanned
         PROVE  AdaptersIn(scan.classes) = {p \in AdaptersIn(installed) : Usable(p, whitelist)}
    <3>1. catalog.classes = <<>> BY <2>10 DEF Unscanned
    <3>2. AdaptersIn(<<>>) = {} BY DEF AdaptersIn
    <3>3. Duplicate(whitelist, catalog) = {} BY <2>3, <2>10
    <3>4. AdaptersIn(scan.classes) = found BY <3>1, <3>2, <2>3, <2>4, <2>8
    <3> QED BY <3>3, <3>4, <2>2
  <2> QED BY <2>9, <2>10 DEF scan
<1> QED BY <1>1, <1>2

-----------------------------------------------------------------------------
(* What is listed.                                                         *)

RegistryOK == process.registry \in {<<>>, <<Fake>>}

LEMMA MergedIs ==
  ASSUME RegistryOK, NEW catalog \in Catalogs, Distinct(catalog.classes)
  PROVE  LET listing == Merged(catalog)
         IN /\ listing \in Seq(Plugin \cup {Fake}) /\ Distinct(listing)
            /\ AdaptersIn(listing) = AdaptersIn(catalog.classes) \cup
                 {p \in AdaptersIn(process.registry) : p.id \notin Ids(catalog.classes)}
<1> DEFINE all    == Plugin \cup {Fake}
           free   == {p \in AdaptersIn(process.registry) : p.id \notin Ids(catalog.classes)}
           sieved == Sieve(process.registry, free)
<1>1. process.registry \in Seq(all) /\ OneEach(process.registry)
  <2>1. CASE process.registry = <<>> BY <2>1 DEF OneEach
  <2>2. CASE process.registry = <<Fake>>
    <3>1. <<Fake>> \in Seq(all) /\ OneEach(<<Fake>>) BY DEF OneEach
    <3> QED BY <2>2, <3>1
  <2> QED BY <2>1, <2>2 DEF RegistryOK
<1>2. \A p, q \in AdaptersIn(process.registry) : p = q BY DEF RegistryOK, AdaptersIn
<1>3. sieved \in Seq(all) /\ AdaptersIn(sieved) = AdaptersIn(process.registry) \cap free /\ OneEach(sieved)
  BY <1>1, SieveIs
<1>4. catalog.classes \in Seq(all)
  <2>1. catalog.classes \in Seq(Plugin) BY DEF Catalogs
  <2> QED BY <2>1
<1>5. Merged(catalog) = catalog.classes \o sieved BY DEF Merged
<1> HIDE DEF sieved
<1>6. Distinct(sieved) BY <1>2, <1>3, DistinctMeans
<1>7. Ids(catalog.classes) \cap Ids(sieved) = {} BY <1>3 DEF Ids, AdaptersIn
<1>8. AdaptersIn(sieved) = free BY <1>3
<1> HIDE DEF free, all
<1>9. /\ Merged(catalog) \in Seq(all) /\ Distinct(Merged(catalog))
      /\ AdaptersIn(Merged(catalog)) = AdaptersIn(catalog.classes) \cup free
  BY <1>3, <1>4, <1>5, <1>6, <1>7, <1>8, JoinedIs
<1> QED BY <1>9 DEF free, all

LEMMA FoundByName ==
  ASSUME NEW T, NEW listing \in Seq(T), NEW client
  PROVE  LET named == FindByClientName(listing, client)
         IN /\ named \in Seq(T)
            /\ AdaptersIn(named) = {p \in AdaptersIn(listing) : p.client = client}
            /\ named = <<>> \/ (Len(named) \in DOMAIN named /\ named[Len(named)] \in AdaptersIn(named))
<1> DEFINE named == FindByClientName(listing, client)
           of    == {p \in AdaptersIn(listing) : p.client = client}
<1>1. named = Sieve(listing, of) BY DEF FindByClientName
<1>2. named \in Seq(T) /\ AdaptersIn(named) = AdaptersIn(listing) \cap of BY <1>1, SieveIs
<1> HIDE DEF named
<1>3. named = <<>> \/ Len(named) \in DOMAIN named BY <1>2
<1>4. named = <<>> \/ named[Len(named)] \in AdaptersIn(named) BY <1>3 DEF AdaptersIn
<1> QED BY <1>2, <1>3, <1>4 DEF named

\* The process as far as a scan needs it: the catalog it keeps and its registry.
ConsultOK == InstalledOK /\ RegistryOK /\ process.default \in Catalogs /\ Distinct(process.default.classes)

LEMMA UnscannedIs == Unscanned \in Catalogs /\ Distinct(Unscanned.classes)
BY DEF Unscanned, Catalogs, Distinct

LEMMA CatalogIs ==
  ASSUME ConsultOK
  PROVE  /\ Catalog \in Catalogs /\ Distinct(Catalog.classes)
         /\ Scanned \in Catalogs /\ Distinct(Scanned.classes)
         /\ Kept \in Catalogs /\ Distinct(Kept.classes)
         /\ ListAdapters \in Seq(Plugin \cup {Fake}) /\ Distinct(ListAdapters)
         /\ AdaptersIn(ListAdapters) = AdaptersIn(Scanned.classes) \cup
              {p \in AdaptersIn(process.registry) : p.id \notin Ids(Scanned.classes)}
<1>1. Catalog \in Catalogs /\ Distinct(Catalog.classes) BY UnscannedIs DEF Catalog, ConsultOK
<1>2. Scanned \in Catalogs /\ Distinct(Scanned.classes) BY <1>1, ScanIs DEF Scanned, ConsultOK
<1>3. Kept \in Catalogs /\ Distinct(Kept.classes) BY <1>2 DEF Kept, ConsultOK
<1>4. /\ ListAdapters \in Seq(Plugin \cup {Fake}) /\ Distinct(ListAdapters)
      /\ AdaptersIn(ListAdapters) = AdaptersIn(Scanned.classes) \cup
           {p \in AdaptersIn(process.registry) : p.id \notin Ids(Scanned.classes)}
  BY <1>2, MergedIs DEF ListAdapters, ConsultOK
<1> QED BY <1>1, <1>2, <1>3, <1>4

\* What is constructed for an id that was listed is what was listed under it.
LEMMA ResolvedIs ==
  ASSUME ConsultOK, NEW p \in AdaptersIn(ListAdapters)
  PROVE  Resolve(p.id) = p
<1> DEFINE list == IF p.id \in Ids(Scanned.classes) THEN Scanned.classes ELSE process.registry
<1>1. \A q \in AdaptersIn(ListAdapters) : q.id = p.id => q = p BY CatalogIs, DistinctMeans
<1>2. \E q \in AdaptersIn(list) : q.id = p.id
  <2>1. CASE p.id \in Ids(Scanned.classes) BY <2>1 DEF Ids, AdaptersIn
  <2>2. CASE p.id \notin Ids(Scanned.classes)
    <3>1. p \notin AdaptersIn(Scanned.classes) BY <2>2 DEF Ids, AdaptersIn
    <3>2. p \in AdaptersIn(process.registry) BY <3>1, CatalogIs
    <3> QED BY <2>2, <3>2
  <2> QED BY <2>1, <2>2
<1>3. ASSUME NEW q \in AdaptersIn(list), q.id = p.id PROVE q \in AdaptersIn(ListAdapters)
  <2>1. CASE p.id \in Ids(Scanned.classes) BY <1>3, <2>1, CatalogIs
  <2>2. CASE p.id \notin Ids(Scanned.classes) BY <1>3, <2>2, CatalogIs
  <2> QED BY <2>1, <2>2
<1>4. Resolve(p.id) = CHOOSE q \in AdaptersIn(list) : q.id = p.id BY DEF Resolve
<1> HIDE DEF list
<1> QED BY <1>1, <1>2, <1>3, <1>4

-----------------------------------------------------------------------------
(* The inductive invariant: where a process stands, what it knows.         *)

Outcomes == {"none", "conflict", "unknown", "unsupported", "runs", "probed",
             "absent", "no listing", "failed", "listed"}
Processes ==
  [driver : {"none", "cli", "daemon"}, whitelist : SUBSET STRING, registry : {<<>>, <<Fake>>},
   default : Catalogs, at : {"ask", "ask provider", "wire", "wire all", "up", "ran", "over"},
   client : {"none"} \cup Client, kind : {"none", "api", "local_managed"},
   listed : Seq(Plugin \cup {Fake}), wired : Seq(Plugin \cup {Fake}), outcome : Outcomes]

RunnerOf(p) == IF p.driver = "cli" THEN p.wired[1]
               ELSE LET runners == FindByClientName(p.wired, p.client) IN runners[Len(runners)]

Serves(p) ==
  p.outcome = "runs" =>
    /\ RunnerOf(p).client = p.client /\ p.kind \in SupportedModes(RunnerOf(p))
    /\ \/ RunnerOf(p) \in Select(p.listed, p.client, p.kind)
       \/ p.driver = "daemon" /\ Len(FindByClientName(p.listed, p.client)) > 1

Diagnosed(p) ==
  p.outcome = "unknown" /\ p.client = "none" /\ p.listed # <<>> =>
    \E q \in AdaptersIn(p.listed) \cap ThirdParty : q.name \in p.whitelist

\* Nothing is listed before the answer; the daemon's runners are all it has listed.
Staged(p) ==
  /\ p.at \in {"ask", "ask provider", "wire", "wire all"} => p.listed = <<>> /\ p.outcome = "none"
  /\ p.at = "ask" => p.default = Unscanned /\ p.client = "none"
  /\ p.at \in {"ask", "ask provider", "wire"} => p.driver = "cli"
  /\ p.at = "wire all" => p.driver = "daemon"
  /\ p.at \in {"up", "ran"} => p.driver = "daemon" /\ p.wired = p.listed

ListingHolds(p) == Distinct(p.listed) /\ AdaptersIn(p.wired) \subseteq AdaptersIn(p.listed)

Sound(p) == Distinct(p.default.classes) /\ ListingHolds(p) /\ Staged(p) /\ Serves(p) /\ Diagnosed(p)

DiscoveryInv ==
  /\ InstalledOK /\ pips \in 0..MaxPips
  /\ process \in Processes /\ Sound(process)
  /\ imported \subseteq Plugin /\ OnlyVettedCodeRuns

LEMMA SoundIsRight == DiscoveryInv => NamesLeadToVettedAdapters
<1> SUFFICES ASSUME DiscoveryInv PROVE NamesLeadToVettedAdapters OBVIOUS
<1>1. OnlyVettedCodeRuns BY DEF DiscoveryInv
<1>2. ListedIsResolved BY DEF DiscoveryInv, Sound, ListingHolds, Distinct, ListedIsResolved
<1>3. Runner = RunnerOf(process) BY DEF Runner, RunnerOf
<1>4. RunnerServesTheCall BY <1>3 DEF DiscoveryInv, Sound, Serves, RunnerServesTheCall
<1>5. DoctorEnds BY DEF DiscoveryInv, Sound, Diagnosed, DoctorEnds
<1> QED BY <1>1, <1>2, <1>4, <1>5 DEF NamesLeadToVettedAdapters

LEMMA ListIsIn == ASSUME NEW T, NEW list \in Seq(T) PROVE AdaptersIn(list) \subseteq T
BY DEF AdaptersIn

LEMMA InvTypes == DiscoveryInv => DiscoveryTypeOK
<1> SUFFICES ASSUME DiscoveryInv PROVE DiscoveryTypeOK OBVIOUS
<1>1. AdaptersIn(installed) \subseteq Plugin BY ListIsIn DEF DiscoveryInv, InstalledOK
<1>2. process.listed \in Seq(Plugin \cup {Fake}) /\ process.wired \in Seq(Plugin \cup {Fake})
  BY DEF DiscoveryInv, Processes
<1>3. AdaptersIn(process.listed) \subseteq Plugin \cup {Fake} /\ AdaptersIn(process.wired) \subseteq Plugin \cup {Fake}
  BY <1>2, ListIsIn
<1>4. /\ process.driver \in {"none", "cli", "daemon"} /\ process.outcome \in Outcomes
      /\ process.at \in {"ask", "ask provider", "wire", "wire all", "up", "ran", "over"}
  BY DEF DiscoveryInv, Processes
<1>5. imported \subseteq Plugin /\ pips \in 0..MaxPips BY DEF DiscoveryInv
<1> QED BY <1>1, <1>3, <1>4, <1>5 DEF DiscoveryTypeOK, Outcomes

LEMMA ConsultsWell == ASSUME DiscoveryInv PROVE ConsultOK
<1>1. process.registry \in {<<>>, <<Fake>>} /\ process.default \in Catalogs BY DEF DiscoveryInv, Processes
<1> QED BY <1>1 DEF ConsultOK, DiscoveryInv, RegistryOK, Sound

-----------------------------------------------------------------------------
(* Init.                                                                   *)

LEMMA ShippedIs == Shipped \in Seq(Plugin) /\ OneEach(Shipped)
<1> DEFINE n == Cardinality(Bundled)
<1>0. IsFiniteSet(Bundled) BY DiscoveryAssumption
<1>1. n \in Nat BY <1>0, FS_CardinalityType
<1>2. \E list \in [1..n -> Bundled] : AdaptersIn(list) = Bundled
  <2>1. PICK list : list \in Bijection(1..n, Bundled) BY <1>0, FS_CardinalityType DEF ExistsBijection
  <2>2. list \in [1..n -> Bundled] /\ \A b \in Bundled : \E i \in 1..n : list[i] = b
    BY <2>1 DEF Bijection, Surjection
  <2>3. AdaptersIn(list) = Bundled BY <2>2 DEF AdaptersIn
  <2> QED BY <2>2, <2>3
<1>3. Shipped \in [1..n -> Bundled] /\ AdaptersIn(Shipped) = Bundled BY <1>2 DEF Shipped
<1> HIDE DEF n
<1>4. Shipped \in Seq(Plugin)
  <2>1. Shipped \in [1..n -> Plugin] BY <1>3 DEF Plugin
  <2> QED BY <2>1, <1>1
<1>5. OneEach(Shipped)
  <2>1. Shipped \in Surjection(1..n, Bundled)
    <3>1. \A b \in Bundled : \E i \in 1..n : Shipped[i] = b BY <1>3 DEF AdaptersIn
    <3> QED BY <3>1, <1>3 DEF Surjection
  <2>2. Cardinality(1..n) = n /\ IsFiniteSet(1..n) BY <1>1, FS_Interval
  <2>3. Shipped \in Injection(1..n, Bundled) BY <2>1, <2>2, <1>0, FS_SurjSameCardinalityImpliesInj DEF n
  <2> QED BY <2>3, <1>3 DEF Injection, OneEach, IsInjective
<1> QED BY <1>4, <1>5

LEMMA NoProcessIs == NoProcess \in Processes /\ Sound(NoProcess)
<1>1. <<>> \in Seq(Plugin \cup {Fake}) /\ Unscanned \in Catalogs BY UnscannedIs
<1>2. NoProcess \in Processes BY <1>1 DEF NoProcess, Processes, Outcomes
<1>3. Distinct(NoProcess.default.classes) BY UnscannedIs DEF NoProcess
<1>4. ListingHolds(NoProcess) BY DEF NoProcess, ListingHolds, Distinct, AdaptersIn
<1>5. Staged(NoProcess) /\ Serves(NoProcess) /\ Diagnosed(NoProcess)
  BY DEF NoProcess, Staged, Serves, Diagnosed
<1> QED BY <1>2, <1>3, <1>4, <1>5 DEF Sound

LEMMA InitDiscovers == DiscoveryInit => DiscoveryInv
<1> SUFFICES ASSUME DiscoveryInit PROVE DiscoveryInv OBVIOUS
<1>1. InstalledOK BY ShippedIs DEF DiscoveryInit, InstalledOK
<1>2. pips \in 0..MaxPips BY DiscoveryAssumption DEF DiscoveryInit
<1>3. process \in Processes /\ Sound(process) BY NoProcessIs DEF DiscoveryInit
<1>4. imported \subseteq Plugin /\ OnlyVettedCodeRuns BY DEF DiscoveryInit, OnlyVettedCodeRuns
<1> QED BY <1>1, <1>2, <1>3, <1>4 DEF DiscoveryInv

-----------------------------------------------------------------------------
(* A process asks.                                                         *)

LEMMA LoadsAreVetted ==
  ASSUME InstalledOK, NEW whitelist, NEW catalog
  PROVE  \A p \in Loads(whitelist, catalog) : p \in Plugin /\ IsAllowedToLoad(p, whitelist)
<1>1. \A i \in DOMAIN installed : installed[i] \in Plugin BY DEF InstalledOK
<1> QED BY <1>1 DEF Loads, Reached, Admitted

LEMMA WithDefault ==
  ASSUME NEW p \in Processes, NEW catalog \in Catalogs
  PROVE  LET q == [p EXCEPT !.default = catalog]
         IN /\ q \in Processes /\ q.default = catalog
            /\ q.driver = p.driver /\ q.whitelist = p.whitelist /\ q.registry = p.registry
            /\ q.at = p.at /\ q.client = p.client /\ q.kind = p.kind
            /\ q.listed = p.listed /\ q.wired = p.wired /\ q.outcome = p.outcome
BY DEF Processes

\* Whatever the answer leads to, asking keeps the catalog and runs vetted code only.
LEMMA Consulted ==
  ASSUME DiscoveryInv, NEW changes \in Processes, Sound(changes), changes.at # "ask",
         changes.whitelist = process.whitelist, Consult(changes)
  PROVE  DiscoveryInv'
<1>1. ConsultOK BY ConsultsWell
<1>2. Kept \in Catalogs /\ Distinct(Kept.classes) BY <1>1, CatalogIs
<1>3. process' = [changes EXCEPT !.default = Kept] /\ UNCHANGED <<installed, pips>>
      /\ imported' = imported \cup Loads(process.whitelist, Catalog)
  BY DEF Consult
<1> DEFINE q == [changes EXCEPT !.default = Kept]
<1>4. /\ q \in Processes /\ q.default = Kept
      /\ q.driver = changes.driver /\ q.whitelist = changes.whitelist
      /\ q.at = changes.at /\ q.client = changes.client /\ q.kind = changes.kind
      /\ q.listed = changes.listed /\ q.wired = changes.wired /\ q.outcome = changes.outcome
  BY <1>2, WithDefault
<1> HIDE DEF q
<1>5. Sound(q)
  <2>1. Distinct(q.default.classes) BY <1>2, <1>4
  <2>2. ListingHolds(q) BY <1>4 DEF Sound, ListingHolds
  <2>3. Staged(q) BY <1>4 DEF Sound, Staged
  <2>4. RunnerOf(q) = RunnerOf(changes) BY <1>4 DEF RunnerOf
  <2>5. Serves(q) BY <1>4, <2>4 DEF Sound, Serves
  <2>6. Diagnosed(q) BY <1>4 DEF Sound, Diagnosed
  <2> QED BY <2>1, <2>2, <2>3, <2>5, <2>6 DEF Sound
<1>6. process' = q /\ process'.whitelist = process.whitelist BY <1>3, <1>4 DEF q
<1>7. imported' \subseteq Plugin /\ OnlyVettedCodeRuns'
  <2>1. \A p \in Loads(process.whitelist, Catalog) : p \in Plugin /\ IsAllowedToLoad(p, process.whitelist)
    BY LoadsAreVetted DEF DiscoveryInv
  <2> QED BY <1>3, <1>6, <2>1 DEF DiscoveryInv, OnlyVettedCodeRuns, IsAllowedToLoad
<1>8. InstalledOK' /\ pips' \in 0..MaxPips BY <1>3 DEF DiscoveryInv, InstalledOK
<1> QED BY <1>4, <1>5, <1>6, <1>7, <1>8 DEF DiscoveryInv

\* A question that ends without a listing.
LEMMA RaisedIs ==
  ASSUME DiscoveryInv, process.at \in {"ask", "ask provider", "wire", "wire all"},
         NEW outcome \in Outcomes, outcome # "runs"
  PROVE  LET q == Raise(outcome)
         IN q \in Processes /\ Sound(q) /\ q.at = "over" /\ q.whitelist = process.whitelist
<1> DEFINE q == Raise(outcome)
<1>1. process \in Processes /\ Sound(process) BY DEF DiscoveryInv
<1>2. /\ q \in Processes /\ q.default = process.default /\ q.at = "over" /\ q.outcome = outcome
      /\ q.whitelist = process.whitelist /\ q.listed = process.listed /\ q.wired = process.wired
  BY <1>1 DEF Raise, Processes
<1> HIDE DEF q
<1>3. process.listed = <<>> BY <1>1 DEF Sound, Staged
<1>4. ListingHolds(q) BY <1>1, <1>2 DEF Sound, ListingHolds
<1>5. Staged(q) /\ Serves(q) /\ Diagnosed(q) BY <1>2, <1>3 DEF Staged, Serves, Diagnosed
<1> QED BY <1>1, <1>2, <1>4, <1>5 DEF Sound, q

LEMMA AnswersWithout ==
  ASSUME DiscoveryInv, process.at \in {"ask", "ask provider", "wire", "wire all"},
         NEW outcome \in Outcomes, outcome # "runs", Consult(Raise(outcome))
  PROVE  DiscoveryInv'
<1>1. /\ Raise(outcome) \in Processes /\ Sound(Raise(outcome)) /\ Raise(outcome).at # "ask"
      /\ Raise(outcome).whitelist = process.whitelist
  BY RaisedIs
<1> QED BY <1>1, Consulted

\* One that goes on to the next question.
LEMMA GoesOn ==
  ASSUME DiscoveryInv, process.at = "ask", NEW q \in Processes, Consult(q),
         q.at \in {"ask provider", "wire"}, q.driver = process.driver, q.whitelist = process.whitelist,
         q.default = process.default, q.listed = process.listed, q.wired = process.wired,
         q.outcome = process.outcome
  PROVE  DiscoveryInv'
<1>1. Sound(process) BY DEF DiscoveryInv
<1>2. ListingHolds(q) BY <1>1 DEF Sound, ListingHolds
<1>3. Staged(q) BY <1>1 DEF Sound, Staged
<1>4. Serves(q) /\ Diagnosed(q) BY <1>1 DEF Sound, Staged, Serves, Diagnosed
<1>5. Sound(q) BY <1>1, <1>2, <1>3, <1>4 DEF Sound
<1> QED BY <1>5, Consulted

LEMMA AskKindKeeps == DiscoveryInv /\ AskKind => DiscoveryInv'
<1> SUFFICES ASSUME DiscoveryInv, AskKind PROVE DiscoveryInv' OBVIOUS
<1>1. process.at = "ask" /\ process \in Processes BY DEF AskKind, DiscoveryInv
<1> DEFINE on(client) == [process EXCEPT !.at = "wire", !.client = client, !.kind = ExecutionKindFor(client)]
<1>2. PICK client \in Client :
        \/ Consult(Raise("conflict"))
        \/ Consult(Raise("unknown"))
        \/ ExecutionKindFor(client) # "none" /\ Consult(on(client))
  BY DEF AskKind
<1>3. CASE Consult(Raise("conflict")) BY <1>1, <1>3, AnswersWithout DEF Outcomes
<1>4. CASE Consult(Raise("unknown")) BY <1>1, <1>4, AnswersWithout DEF Outcomes
<1>5. CASE Consult(on(client))
  <2>1. ExecutionKindFor(client) \in {"none", "api", "local_managed"}
    BY DEF ExecutionKindFor, PrimaryMode
  <2> DEFINE q == on(client)
  <2>2. /\ q \in Processes /\ q.at = "wire" /\ q.driver = process.driver /\ q.whitelist = process.whitelist
        /\ q.default = process.default /\ q.listed = process.listed /\ q.wired = process.wired
        /\ q.outcome = process.outcome
    BY <1>1, <2>1 DEF Processes
  <2>3. Consult(q) BY <1>5
  <2> HIDE DEF q
  <2> QED BY <1>1, <2>2, <2>3, GoesOn
<1> QED BY <1>2, <1>3, <1>4, <1>5

LEMMA ListLocalModelsKeeps == DiscoveryInv /\ ListLocalModels => DiscoveryInv'
<1> SUFFICES ASSUME DiscoveryInv, ListLocalModels PROVE DiscoveryInv' OBVIOUS
<1>1. process.at = "ask" /\ process \in Processes BY DEF ListLocalModels, DiscoveryInv
<1> DEFINE on(client) == [process EXCEPT !.at = "ask provider", !.client = client]
<1>2. PICK client \in Client, said \in {"absent", "no listing", "failed", "listed"} :
        Consult(Raise("conflict")) \/ Consult(Raise(said)) \/ Consult(on(client))
  BY DEF ListLocalModels
<1>3. CASE Consult(Raise("conflict")) BY <1>1, <1>3, AnswersWithout DEF Outcomes
<1>4. CASE Consult(Raise(said))
  <2>1. said \in Outcomes /\ said # "runs" BY DEF Outcomes
  <2> QED BY <1>1, <1>4, <2>1, AnswersWithout
<1>5. CASE Consult(on(client))
  <2> DEFINE q == on(client)
  <2>2. /\ q \in Processes /\ q.at = "ask provider" /\ q.driver = process.driver /\ q.whitelist = process.whitelist
        /\ q.default = process.default /\ q.listed = process.listed /\ q.wired = process.wired
        /\ q.outcome = process.outcome
    BY <1>1 DEF Processes
  <2>3. Consult(q) BY <1>5
  <2> HIDE DEF q
  <2> QED BY <1>1, <2>2, <2>3, GoesOn
<1> QED BY <1>2, <1>3, <1>4, <1>5

LEMMA ListApiModelsKeeps == DiscoveryInv /\ ListApiModels => DiscoveryInv'
<1> SUFFICES ASSUME DiscoveryInv, ListApiModels PROVE DiscoveryInv' OBVIOUS
<1>1. process.at = "ask provider" BY DEF ListApiModels
<1>2. PICK said \in {"conflict", "absent", "no listing", "failed", "listed"} : Consult(Raise(said))
  BY DEF ListApiModels
<1>3. said \in Outcomes /\ said # "runs" BY DEF Outcomes
<1> QED BY <1>1, <1>2, <1>3, AnswersWithout

-----------------------------------------------------------------------------
(* Wiring.                                                                 *)

LEMMA WireOneKeeps == DiscoveryInv /\ WireOne => DiscoveryInv'
<1> SUFFICES ASSUME DiscoveryInv, WireOne PROVE DiscoveryInv' OBVIOUS
<1> DEFINE best == Select(ListAdapters, process.client, process.kind)
           b    == CHOOSE p \in best : TRUE
           q    == [process EXCEPT !.at = "over", !.outcome = "runs", !.listed = ListAdapters,
                                   !.wired = <<Resolve(b.id)>>]
<1>1. process.at = "wire" /\ process \in Processes /\ Sound(process) BY DEF WireOne, DiscoveryInv
<1>2. \/ \E said \in {"conflict", "unknown", "unsupported"} : Consult(Raise(said))
      \/ best # {} /\ Consult(q)
  BY DEF WireOne
<1>3. ASSUME NEW said \in {"conflict", "unknown", "unsupported"}, Consult(Raise(said)) PROVE DiscoveryInv'
  <2>1. said \in Outcomes /\ said # "runs" BY DEF Outcomes
  <2> QED BY <1>1, <1>3, <2>1, AnswersWithout
<1>4. ASSUME best # {}, Consult(q) PROVE DiscoveryInv'
  <2>1. ConsultOK BY ConsultsWell
  <2>2. ListAdapters \in Seq(Plugin \cup {Fake}) /\ Distinct(ListAdapters) BY <2>1, CatalogIs
  <2>3. b \in best BY <1>4
  <2> HIDE DEF b
  <2>4. /\ b \in AdaptersIn(ListAdapters) /\ b.client = process.client
        /\ process.kind \in SupportedModes(b)
    <3>1. b \in AdaptersIn(FindByClientName(ListAdapters, process.client))
          /\ process.kind \in SupportedModes(b)
      BY <2>3 DEF Select
    <3> QED BY <2>2, <3>1, FoundByName
  <2>5. Resolve(b.id) = b BY <2>1, <2>4, ResolvedIs
  <2>6. b \in Plugin \cup {Fake} BY <2>2, <2>4, ListIsIn
  <2>7. <<b>> \in Seq(Plugin \cup {Fake}) /\ AdaptersIn(<<b>>) = {b} BY <2>6 DEF AdaptersIn
  <2>8. q = [process EXCEPT !.at = "over", !.outcome = "runs", !.listed = ListAdapters, !.wired = <<b>>]
    BY <2>5
  <2> HIDE DEF q, best
  <2>9. /\ q \in Processes /\ q.at = "over" /\ q.outcome = "runs" /\ q.listed = ListAdapters
        /\ q.wired = <<b>> /\ q.driver = process.driver /\ q.whitelist = process.whitelist
        /\ q.default = process.default /\ q.client = process.client /\ q.kind = process.kind
    BY <1>1, <2>2, <2>7, <2>8 DEF Processes, Outcomes
  <2>10. ListingHolds(q) BY <2>2, <2>4, <2>7, <2>9 DEF ListingHolds
  <2>11. Staged(q) /\ Diagnosed(q) BY <2>9 DEF Staged, Diagnosed
  <2>12. Serves(q)
    <3>1. q.driver = "cli" BY <1>1, <2>9 DEF Sound, Staged
    <3>2. RunnerOf(q) = b BY <2>9, <3>1 DEF RunnerOf
    <3> QED BY <2>3, <2>4, <2>9, <3>2 DEF Serves, best
  <2>13. Sound(q) BY <1>1, <2>9, <2>10, <2>11, <2>12 DEF Sound
  <2> QED BY <1>4, <2>9, <2>13, Consulted
<1> QED BY <1>2, <1>3, <1>4

LEMMA WireAllKeeps == DiscoveryInv /\ WireAll => DiscoveryInv'
<1> SUFFICES ASSUME DiscoveryInv, WireAll PROVE DiscoveryInv' OBVIOUS
<1> DEFINE wired == [i \in DOMAIN ListAdapters |-> Resolve(ListAdapters[i].id)]
           q == [process EXCEPT !.at = "up", !.listed = ListAdapters, !.wired = wired]
<1>1. process.at = "wire all" /\ process \in Processes /\ Sound(process) BY DEF WireAll, DiscoveryInv
<1>2. Consult(Raise("conflict")) \/ Consult(q) BY DEF WireAll
<1>3. CASE Consult(Raise("conflict")) BY <1>1, <1>3, AnswersWithout DEF Outcomes
<1>4. CASE Consult(q)
  <2>1. ConsultOK BY ConsultsWell
  <2>2. ListAdapters \in Seq(Plugin \cup {Fake}) /\ Distinct(ListAdapters) BY <2>1, CatalogIs
  <2>3. \A i \in DOMAIN ListAdapters : Resolve(ListAdapters[i].id) = ListAdapters[i]
    <3>1. \A i \in DOMAIN ListAdapters : ListAdapters[i] \in AdaptersIn(ListAdapters) BY DEF AdaptersIn
    <3> QED BY <2>1, <3>1, ResolvedIs
  <2>4. wired = ListAdapters
    <3>1. ListAdapters = [i \in DOMAIN ListAdapters |-> ListAdapters[i]] BY <2>2
    <3> QED BY <2>3, <3>1
  <2>5. q = [process EXCEPT !.at = "up", !.listed = ListAdapters, !.wired = ListAdapters] BY <2>4
  <2> HIDE DEF q, wired
  <2>6. /\ q \in Processes /\ q.at = "up" /\ q.outcome = process.outcome /\ q.listed = ListAdapters
        /\ q.wired = ListAdapters /\ q.driver = process.driver /\ q.whitelist = process.whitelist
        /\ q.default = process.default
    BY <1>1, <2>2, <2>5 DEF Processes
  <2>7. process.outcome = "none" /\ process.driver = "daemon" BY <1>1 DEF Sound, Staged
  <2>8. ListingHolds(q) BY <2>2, <2>6 DEF ListingHolds
  <2>9. Staged(q) /\ Serves(q) /\ Diagnosed(q) BY <2>6, <2>7 DEF Staged, Serves, Diagnosed
  <2>10. Sound(q) BY <1>1, <2>6, <2>8, <2>9 DEF Sound
  <2> QED BY <1>4, <2>6, <2>10, Consulted
<1> QED BY <1>2, <1>3, <1>4

-----------------------------------------------------------------------------
(* The daemon's requests.                                                  *)

LEMMA ClientsHaveNames == ASSUME NEW client \in Client PROVE client # "none"
BY DiscoveryAssumption DEF Client

LEMMA RanksCompare == ASSUME NEW p \in Plugin \cup {Fake} PROVE p.rank <= p.rank
<1>1. p \in Adapters BY DiscoveryAssumption
<1>2. p.rank \in Nat BY <1>1 DEF Adapters
<1> QED BY <1>2

LEMMA RunRequestKeeps == DiscoveryInv /\ RunRequest => DiscoveryInv'
<1> SUFFICES ASSUME DiscoveryInv, RunRequest PROVE DiscoveryInv' OBVIOUS
<1>1. /\ process \in Processes /\ Sound(process)
      /\ process.driver = "daemon" /\ process.at \in {"up", "ran"} /\ process.wired = process.listed
  BY DEF RunRequest, DiscoveryInv, Sound, Staged
<1> DEFINE runners(client) == FindByClientName(process.wired, client)
           outcome(client) == IF Conflict THEN "conflict"
                              ELSE IF ExecutionKindFor(client) = "none" \/ runners(client) = <<>> THEN "unknown"
                              ELSE IF ExecutionKindFor(client) \in SupportedModes(runners(client)[Len(runners(client))])
                                   THEN "runs" ELSE "unsupported"
           kind(client)    == IF Conflict THEN "none" ELSE ExecutionKindFor(client)
<1>2. PICK client \in Client :
        Consult([process EXCEPT !.at = "ran", !.client = client, !.outcome = outcome(client), !.kind = kind(client)])
  BY DEF RunRequest
<1> DEFINE said == outcome(client)
           mode == kind(client)
           r    == runners(client)[Len(runners(client))]
           q    == [process EXCEPT !.at = "ran", !.client = client, !.outcome = said, !.kind = mode]
<1>3. said \in Outcomes BY DEF Outcomes
<1>4. mode \in {"none", "api", "local_managed"} BY DEF ExecutionKindFor, PrimaryMode
<1>5. said = "runs" => runners(client) # <<>> /\ mode \in SupportedModes(r) OBVIOUS
<1>6. Consult(q) BY <1>2
<1>7. runners(client) = FindByClientName(process.listed, client) BY <1>1
<1> HIDE DEF said, mode, outcome, kind
<1>8. /\ q \in Processes /\ q.at = "ran" /\ q.outcome = said /\ q.listed = process.listed
      /\ q.wired = process.wired /\ q.driver = process.driver /\ q.whitelist = process.whitelist
      /\ q.default = process.default /\ q.client = client /\ q.kind = mode
  BY <1>1, <1>3, <1>4 DEF Processes
<1> HIDE DEF q
<1>9. ListingHolds(q) BY <1>1, <1>8 DEF Sound, ListingHolds
<1>10. Staged(q) BY <1>1, <1>8 DEF Staged
<1>11. Diagnosed(q) BY <1>8, ClientsHaveNames DEF Diagnosed
<1>12. Serves(q)
  <2> SUFFICES ASSUME said = "runs" PROVE Serves(q) BY <1>8 DEF Serves
  <2>1. process.listed \in Seq(Plugin \cup {Fake}) BY <1>1 DEF Processes
  <2> DEFINE named == FindByClientName(process.listed, client)
  <2>2. /\ named \in Seq(Plugin \cup {Fake})
        /\ AdaptersIn(named) = {p \in AdaptersIn(process.listed) : p.client = client}
        /\ named = <<>> \/ (Len(named) \in DOMAIN named /\ named[Len(named)] \in AdaptersIn(named))
    BY <2>1, FoundByName
  <2>3. RunnerOf(q) = r BY <1>1, <1>8 DEF RunnerOf
  <2>4. r = named[Len(named)] /\ named # <<>> /\ mode \in SupportedModes(r) BY <1>5, <1>7
  <2> HIDE DEF named, r
  <2>5. r \in AdaptersIn(named) /\ r.client = client BY <2>2, <2>4
  <2>6. ASSUME ~(Len(named) > 1) PROVE r \in Select(process.listed, client, mode)
    <3>0. Len(named) \in Nat /\ DOMAIN named = 1..Len(named) BY <2>2
    <3>1. Len(named) = 1 /\ DOMAIN named = {1} BY <3>0, <2>2, <2>4, <2>6
    <3>2. AdaptersIn(named) = {r} BY <3>1, <2>4 DEF AdaptersIn
    <3>3. r \in Plugin \cup {Fake} BY <2>2, <2>5, ListIsIn
    <3>4. r.rank <= r.rank BY <3>3, RanksCompare
    <3> QED BY <2>4, <3>2, <3>4 DEF Select, named
  <2> QED BY <1>1, <1>8, <2>3, <2>4, <2>5, <2>6 DEF Serves, named
<1>13. Sound(q) BY <1>1, <1>8, <1>9, <1>10, <1>11, <1>12 DEF Sound
<1> QED BY <1>6, <1>8, <1>13, Consulted

LEMMA RequestEndsKeeps == DiscoveryInv /\ RequestEnds => DiscoveryInv'
<1> SUFFICES ASSUME DiscoveryInv, RequestEnds PROVE DiscoveryInv' OBVIOUS
<1> DEFINE q == [process EXCEPT !.at = "up", !.client = "none", !.kind = "none", !.outcome = "none"]
<1>1. /\ process \in Processes /\ Sound(process) /\ process.at = "ran"
      /\ process' = q /\ UNCHANGED <<installed, pips, imported>>
  BY DEF RequestEnds, DiscoveryInv
<1>2. /\ q \in Processes /\ q.at = "up" /\ q.outcome = "none" /\ q.listed = process.listed
      /\ q.wired = process.wired /\ q.driver = process.driver /\ q.whitelist = process.whitelist
      /\ q.default = process.default
  BY <1>1 DEF Processes, Outcomes
<1> HIDE DEF q
<1>3. ListingHolds(q) BY <1>1, <1>2 DEF Sound, ListingHolds
<1>4. Staged(q) /\ Serves(q) /\ Diagnosed(q) BY <1>1, <1>2 DEF Sound, Staged, Serves, Diagnosed
<1>5. Sound(q) BY <1>1, <1>2, <1>3, <1>4 DEF Sound
<1>6. imported' \subseteq Plugin /\ OnlyVettedCodeRuns' BY <1>1, <1>2 DEF DiscoveryInv, OnlyVettedCodeRuns
<1>7. InstalledOK' /\ pips' \in 0..MaxPips BY <1>1 DEF DiscoveryInv, InstalledOK
<1> QED BY <1>1, <1>2, <1>5, <1>6, <1>7 DEF DiscoveryInv

-----------------------------------------------------------------------------
(* doctor, and the life of a process.                                      *)

LEMMA ProbeAllKeeps == DiscoveryInv /\ ProbeAll => DiscoveryInv'
<1> SUFFICES ASSUME DiscoveryInv, ProbeAll PROVE DiscoveryInv' OBVIOUS
<1>1. process \in Processes /\ Sound(process) /\ process.at = "ask" BY DEF ProbeAll, DiscoveryInv
<1>2. process.default = Unscanned /\ process.driver = "cli" /\ process.client = "none"
  BY <1>1 DEF Sound, Staged
<1> DEFINE default == Scan({}, process.default)
           known == {p.client : p \in {p \in AdaptersIn(Merged(default)) : "local_managed" \in SupportedModes(p)}}
           said  == IF Conflict \/ ~default.scanned THEN "conflict"
                    ELSE IF LocalNames \subseteq known THEN "probed" ELSE "unknown"
           q == [process EXCEPT !.at = "over", !.default = default, !.listed = ListAdapters, !.outcome = said]
<1>3. /\ imported' = imported \cup Loads(process.whitelist, Catalog) \cup Loads({}, process.default)
      /\ process' = q /\ UNCHANGED <<installed, pips>>
  BY DEF ProbeAll
<1>c. ConsultOK BY ConsultsWell
<1>4. /\ default \in Catalogs /\ Distinct(default.classes)
      /\ default.scanned => AdaptersIn(default.classes) = {p \in AdaptersIn(installed) : Usable(p, {})}
  BY <1>2, <1>c, ScanIs DEF ConsultOK
<1>5. /\ ListAdapters \in Seq(Plugin \cup {Fake}) /\ Distinct(ListAdapters)
      /\ AdaptersIn(ListAdapters) = AdaptersIn(Scanned.classes) \cup
           {p \in AdaptersIn(process.registry) : p.id \notin Ids(Scanned.classes)}
  BY <1>c, CatalogIs
<1>6. Catalog = Unscanned BY <1>2 DEF Catalog
<1>7. Scanned.scanned =>
        AdaptersIn(Scanned.classes) = {p \in AdaptersIn(installed) : Usable(p, process.whitelist)}
  BY <1>6, <1>c, UnscannedIs, ScanIs DEF Scanned, ConsultOK
<1>8. AdaptersIn(Merged(default)) = AdaptersIn(default.classes) \cup
        {p \in AdaptersIn(process.registry) : p.id \notin Ids(default.classes)}
  BY <1>4, <1>c, MergedIs DEF ConsultOK
<1>9. said \in Outcomes /\ said \notin {"runs", "none"} BY DEF Outcomes
<1>10. said = "unknown" => Scanned.scanned /\ default.scanned /\ ~(LocalNames \subseteq known)
  BY DEF Conflict
\* Whatever is listed beyond what is known without the whitelist, the whitelist let in.
<1>11. ASSUME said = "unknown"
       PROVE  \E p \in AdaptersIn(ListAdapters) \cap ThirdParty : p.name \in process.whitelist
  <2> HIDE DEF said, default
  <2>1. PICK p \in AdaptersIn(ListAdapters) : "local_managed" \in SupportedModes(p) /\ p.client \notin known
    BY <1>10, <1>11 DEF LocalNames
  <2>2. p \notin AdaptersIn(Merged(default)) BY <2>1
  <2> HIDE DEF known
  <2>3. \A x \in AdaptersIn(installed) : Usable(x, {}) => Usable(x, process.whitelist)
    BY DEF Usable, IsAllowedToLoad
  <2>4. AdaptersIn(default.classes) \subseteq AdaptersIn(Scanned.classes)
    BY <1>4, <1>7, <1>10, <1>11, <2>3
  <2>5. Ids(default.classes) \subseteq Ids(Scanned.classes)
    <3>1. \A list : Ids(list) = {x.id : x \in AdaptersIn(list)} BY DEF Ids, AdaptersIn
    <3> QED BY <2>4, <3>1
  <2>6. p \in AdaptersIn(Scanned.classes) BY <1>5, <1>8, <2>1, <2>2, <2>5
  <2>7. p \in AdaptersIn(installed) /\ Usable(p, process.whitelist) BY <1>7, <1>10, <1>11, <2>6
  <2>8. p \notin AdaptersIn(default.classes) BY <1>8, <2>2
  <2>9. ~Usable(p, {}) BY <1>4, <1>10, <1>11, <2>7, <2>8
  <2>10. p \notin Bundled /\ p.name \in process.whitelist BY <2>7, <2>9 DEF Usable, IsAllowedToLoad
  <2>11. p \in Plugin BY <2>7, <1>c, ListIsIn DEF ConsultOK, InstalledOK
  <2> QED BY <2>1, <2>10, <2>11 DEF Plugin
<1> HIDE DEF said, default, known
<1>12. /\ q \in Processes /\ q.at = "over" /\ q.outcome = said /\ q.listed = ListAdapters
       /\ q.wired = process.wired /\ q.whitelist = process.whitelist /\ q.default = default
  BY <1>1, <1>4, <1>5, <1>9 DEF Processes
<1> HIDE DEF q
<1>13. ListingHolds(q)
  <2>1. process.listed = <<>> BY <1>1 DEF Sound, Staged
  <2>a. AdaptersIn(<<>>) = {} BY DEF AdaptersIn
  <2>2. AdaptersIn(process.wired) = {} BY <1>1, <2>1, <2>a DEF Sound, ListingHolds
  <2> QED BY <1>5, <1>12, <2>2 DEF ListingHolds
<1>14. Staged(q) /\ Serves(q) BY <1>9, <1>12 DEF Staged, Serves
<1>15. Diagnosed(q) BY <1>11, <1>12 DEF Diagnosed
<1>16. Sound(q) BY <1>4, <1>12, <1>13, <1>14, <1>15 DEF Sound
<1>17. imported' \subseteq Plugin /\ OnlyVettedCodeRuns'
  <2>1. /\ \A p \in Loads(process.whitelist, Catalog) : p \in Plugin /\ IsAllowedToLoad(p, process.whitelist)
        /\ \A p \in Loads({}, process.default) : p \in Plugin /\ IsAllowedToLoad(p, {})
    BY LoadsAreVetted DEF DiscoveryInv
  <2> QED BY <1>3, <1>12, <2>1 DEF DiscoveryInv, OnlyVettedCodeRuns, IsAllowedToLoad
<1>18. InstalledOK' /\ pips' \in 0..MaxPips BY <1>3 DEF DiscoveryInv, InstalledOK
<1> QED BY <1>3, <1>12, <1>16, <1>17, <1>18 DEF DiscoveryInv

LEMMA StartKeeps == DiscoveryInv /\ Start => DiscoveryInv'
<1> SUFFICES ASSUME DiscoveryInv, Start PROVE DiscoveryInv' OBVIOUS
<1>1. PICK driver \in {"cli", "daemon"}, whitelist \in SomeWhitelists, registry \in {<<>>, <<Fake>>} :
        process' = [NoProcess EXCEPT !.driver = driver, !.whitelist = whitelist, !.registry = registry,
                                     !.at = IF driver = "cli" THEN "ask" ELSE "wire all"]
  BY DEF Start
<1>2. imported' = {} /\ UNCHANGED <<installed, pips>> BY DEF Start
<1> DEFINE at == IF driver = "cli" THEN "ask" ELSE "wire all"
           q == [NoProcess EXCEPT !.driver = driver, !.whitelist = whitelist, !.registry = registry, !.at = at]
<1>3. whitelist \in SUBSET STRING
  <2>1. \A p \in ThirdParty : p.name \in STRING BY DiscoveryAssumption DEF Plugin, Adapters
  <2> QED BY <2>1 DEF SomeWhitelists
<1>4. process' = q BY <1>1
<1>5. /\ q \in Processes /\ q.at = at /\ q.driver = driver /\ q.outcome = NoProcess.outcome
      /\ q.listed = NoProcess.listed /\ q.wired = NoProcess.wired /\ q.default = NoProcess.default
      /\ q.client = NoProcess.client
  BY <1>3, NoProcessIs DEF Processes
<1> HIDE DEF q
<1>6. /\ NoProcess.outcome = "none" /\ NoProcess.listed = <<>> /\ NoProcess.wired = <<>>
      /\ NoProcess.default = Unscanned /\ NoProcess.client = "none"
  BY DEF NoProcess
<1>7. Distinct(q.default.classes) /\ ListingHolds(q) BY <1>5, NoProcessIs DEF Sound, ListingHolds
<1>8. Staged(q) /\ Serves(q) /\ Diagnosed(q) BY <1>5, <1>6 DEF Staged, Serves, Diagnosed
<1>9. Sound(q) BY <1>7, <1>8 DEF Sound
<1>10. imported' \subseteq Plugin /\ OnlyVettedCodeRuns' BY <1>2 DEF OnlyVettedCodeRuns
<1>11. InstalledOK' /\ pips' \in 0..MaxPips BY <1>2 DEF DiscoveryInv, InstalledOK
<1> QED BY <1>4, <1>5, <1>9, <1>10, <1>11 DEF DiscoveryInv

LEMMA StopKeeps == DiscoveryInv /\ Stop => DiscoveryInv'
<1> SUFFICES ASSUME DiscoveryInv, Stop PROVE DiscoveryInv' OBVIOUS
<1>1. process' = NoProcess /\ imported' = {} /\ UNCHANGED <<installed, pips>> BY DEF Stop
<1>2. imported' \subseteq Plugin /\ OnlyVettedCodeRuns' BY <1>1 DEF OnlyVettedCodeRuns
<1>3. InstalledOK' /\ pips' \in 0..MaxPips BY <1>1 DEF DiscoveryInv, InstalledOK
<1> QED BY <1>1, <1>2, <1>3, NoProcessIs DEF DiscoveryInv

LEMMA PipKeeps == DiscoveryInv /\ Pip => DiscoveryInv'
<1> SUFFICES ASSUME DiscoveryInv, Pip PROVE DiscoveryInv' OBVIOUS
<1>1. installed \in Seq(Plugin) /\ OneEach(installed) BY DEF DiscoveryInv, InstalledOK
<1>2. PICK p \in Plugin :
        installed' = IF p \in AdaptersIn(installed) THEN Sieve(installed, Plugin \ {p}) ELSE Append(installed, p)
  BY DEF Pip
<1>3. InstalledOK'
  <2>1. CASE p \in AdaptersIn(installed)
    <3>1. Sieve(installed, Plugin \ {p}) \in Seq(Plugin) /\ OneEach(Sieve(installed, Plugin \ {p}))
      BY <1>1, SieveIs
    <3> QED BY <1>2, <2>1, <3>1 DEF InstalledOK
  <2>2. CASE p \notin AdaptersIn(installed)
    <3>1. Append(installed, p) \in Seq(Plugin) /\ OneEach(Append(installed, p)) BY <1>1, <2>2, AppendedIs
    <3> QED BY <1>2, <2>2, <3>1 DEF InstalledOK
  <2> QED BY <2>1, <2>2
<1>4. pips' \in 0..MaxPips BY DiscoveryAssumption DEF DiscoveryInv, Pip
<1>5. process' = process /\ imported' = imported BY DEF Pip
<1> QED BY <1>3, <1>4, <1>5 DEF DiscoveryInv, OnlyVettedCodeRuns

-----------------------------------------------------------------------------

LEMMA DiscoveryStays == DiscoveryInv /\ [DiscoveryNext]_discoveryVars => DiscoveryInv'
<1> SUFFICES ASSUME DiscoveryInv, [DiscoveryNext]_discoveryVars PROVE DiscoveryInv' OBVIOUS
<1>1. CASE UNCHANGED discoveryVars
  BY <1>1 DEF discoveryVars, DiscoveryInv, InstalledOK, OnlyVettedCodeRuns
<1>2. CASE DiscoveryNext
  BY <1>2, StartKeeps, StopKeeps, AskKindKeeps, WireOneKeeps, WireAllKeeps, RunRequestKeeps,
     RequestEndsKeeps, ProbeAllKeeps, ListLocalModelsKeeps, ListApiModelsKeeps, PipKeeps DEF DiscoveryNext
<1> QED BY <1>1, <1>2

LEMMA DiscoveryHolds == DiscoverySpec => []DiscoveryInv
BY InitDiscovers, DiscoveryStays, PTL DEF DiscoverySpec

\* The types of the installed plugins, of the process that asks for them and of what it
\* has loaded.
THEOREM DiscoveryTypes == DiscoverySpec => []DiscoveryTypeOK
<1>1. DiscoveryInv => DiscoveryTypeOK BY InvTypes
<1> QED BY <1>1, DiscoveryHolds, PTL

\* Whatever plugins there are and however they come and go under a running process: no
\* code of a third party runs that the whitelist does not name, an id leads to the adapter
\* that was listed under it, a call's runner serves it, and doctor comes to an end unless
\* a whitelisted adapter stands in its way.
THEOREM NamesLeadRight == DiscoverySpec => []NamesLeadToVettedAdapters
<1>1. DiscoveryInv => NamesLeadToVettedAdapters BY SoundIsRight
<1> QED BY <1>1, DiscoveryHolds, PTL
=============================================================================
