---------------------------- MODULE ClientProcess ----------------------------
(***************************************************************************)
(* One call of a local client: RunMlExecutionService gives a managed run   *)
(* its private workspace, CliRuntime launches the client in a process group*)
(* of its own and CliProcessRunner collects the output, while the client   *)
(* prints, exits or hangs, the timeout runs and a stop signal may arrive.  *)
(***************************************************************************)
EXTENDS Naturals

CONSTANTS
  MaxLines,       \* bound: lines the client prints
  MainThread      \* the command line runs the call in its main thread, the daemon
                  \* does not and never sees the signal there

ASSUME ClientAssumption == MaxLines \in Nat /\ MainThread \in BOOLEAN

VARIABLES
  callKind,       \* a managed run, one with a live stream, or a passthrough
  callAt,         \* what the caller does next
  workspace,
  client,         \* the client's process
  asked,          \* its group has been sent SIGTERM
  stubborn,       \* it does not end on SIGTERM
  lingering,      \* a child of it keeps the output pipe open after its exit
  printed,        \* lines written to the pipe
  collected,      \* lines read from it
  coding,         \* whether the prompt can be encoded and the output decoded
  pump,           \* the thread that reads a stream: it died, or it was given up on
  stopped,        \* a stop signal: none, one that met the handler, one that did not
  outcome

clientVars == <<callKind, callAt, workspace, client, asked, stubborn, lingering, printed,
                collected, coding, pump, stopped, outcome>>
temper == <<stubborn, lingering, coding>>
pipe   == <<printed, collected, pump>>

Steps == {"start", "stage", "launch", "arm", "wait", "join", "grace", "restore", "conclude",
          "capture", "dispose", "over"}

ClientTypeOK ==
  /\ callKind \in {"managed", "streaming", "passthrough"} /\ callAt \in Steps
  /\ workspace \in {"none", "present", "disposed"}
  /\ client \in {"none", "running", "exited"}
  /\ asked \in BOOLEAN /\ stubborn \in BOOLEAN /\ lingering \in BOOLEAN
  /\ coding \in {"sound", "unencodable", "undecodable"}
  /\ pump \in {"reading", "died", "abandoned"}
  /\ printed \in 0..MaxLines /\ collected \in 0..MaxLines
  /\ stopped \in {"no", "handled", "unhandled"}
  /\ outcome \in {"none", "refused", "failed", "answer", "timeout", "interrupted", "keyboard"}

ClientInit ==
  /\ callKind = "managed" /\ callAt = "start" /\ workspace = "none" /\ client = "none"
  /\ asked = FALSE /\ stubborn = FALSE /\ lingering = FALSE
  /\ printed = 0 /\ collected = 0 /\ coding = "sound" /\ pump = "reading"
  /\ stopped = "no" /\ outcome = "none"

\* However the call ends, a workspace is disposed of on the way out.
Ends(how) == /\ outcome' = how
             /\ callAt' = IF workspace = "present" THEN "dispose" ELSE "over"

-----------------------------------------------------------------------------
(* RunMlExecutionService and CliRuntime.                                   *)

\* No runner for the client, or one without the mode that is asked for.
Refuse ==
  /\ callAt = "start" /\ Ends("refused")
  /\ UNCHANGED <<callKind, workspace, client, asked, temper, pipe, stopped>>

Dispatch ==
  /\ callAt = "start"
  /\ callKind' \in {"managed", "streaming", "passthrough"}
  /\ IF callKind' = "passthrough"
       THEN callAt' = "launch" /\ UNCHANGED workspace
       ELSE callAt' = "stage" /\ workspace' = "present"
  /\ UNCHANGED <<client, asked, temper, pipe, stopped, outcome>>

\* Grant file, credentials, inputs and the first snapshot; any of them may raise.
StageInputs ==
  /\ callAt = "stage"
  /\ \/ callAt' = "launch" /\ UNCHANGED outcome
     \/ Ends("failed")
  /\ UNCHANGED <<callKind, workspace, client, asked, temper, pipe, stopped>>

\* No executable, or a command line over the system's limit.
LaunchFails ==
  /\ callAt = "launch" /\ Ends("failed")
  /\ UNCHANGED <<callKind, workspace, client, asked, temper, pipe, stopped>>

\* A passthrough takes bytes, and replaces those it cannot decode.
Launch ==
  /\ callAt = "launch" /\ client' = "running"
  /\ callAt' = IF callKind = "passthrough" THEN "wait" ELSE "arm"
  /\ stubborn' \in BOOLEAN /\ lingering' \in BOOLEAN
  /\ coding' \in {"sound", "unencodable", "undecodable"}
  /\ callKind = "passthrough" => coding' = "sound"
  /\ UNCHANGED <<callKind, workspace, asked, pipe, stopped, outcome>>

-----------------------------------------------------------------------------
(* CliProcessRunner.                                                       *)

\* The handlers for SIGINT and SIGTERM, from here to their restoration.
ArmHandlers ==
  /\ callAt = "arm" /\ callAt' = "wait"
  /\ UNCHANGED <<callKind, workspace, client, asked, temper, pipe, stopped, outcome>>

PipeClosed == client = "exited" /\ ~lingering

\* Some line that was printed cannot be decoded.
BadOutput == coding = "undecodable" /\ printed > 0

\* communicate: until the client has exited and the pipe is closed, having read it all.
Communicated ==
  /\ callAt = "wait" /\ callKind # "streaming" /\ PipeClosed
  /\ ~BadOutput /\ coding # "unencodable"
  /\ collected' = printed
  /\ callAt' = IF callKind = "passthrough" THEN "conclude" ELSE "restore"
  /\ UNCHANGED <<callKind, workspace, client, asked, temper, printed, pump, stopped, outcome>>

\* communicate raises on a prompt that cannot be encoded before it has sent anything,
\* with the client running, and on output that cannot be decoded once it has it all.
CommunicateRaises ==
  /\ callAt = "wait" /\ callKind = "managed"
  /\ coding = "unencodable" \/ (PipeClosed /\ BadOutput)
  /\ outcome' = "failed" /\ callAt' = "restore"
  /\ UNCHANGED <<callKind, workspace, client, asked, temper, pipe, stopped>>

\* A live stream: threads read line by line, and are joined once the client has exited.
Reading == callKind = "streaming" /\ callAt \in {"wait", "join", "grace"}
ReadLine ==
  /\ Reading /\ pump = "reading" /\ collected < printed
  /\ collected' = collected + 1
  /\ UNCHANGED <<callKind, callAt, workspace, client, asked, temper, printed, pump,
                 stopped, outcome>>

\* The thread ends silently on bytes it cannot decode; the lines before stay collected.
ReaderDies ==
  /\ Reading /\ pump = "reading" /\ collected < printed /\ BadOutput
  /\ pump' = "died"
  /\ UNCHANGED <<callKind, callAt, workspace, client, asked, temper, printed, collected,
                 stopped, outcome>>

ClientDone ==
  /\ callAt = "wait" /\ callKind = "streaming" /\ client = "exited" /\ callAt' = "join"
  /\ UNCHANGED <<callKind, workspace, client, asked, temper, pipe, stopped, outcome>>

\* A join lasts five seconds, whether or not the thread has read everything; a thread
\* that died is joined at once.
Drained == PipeClosed /\ collected = printed
JoinReaders ==
  /\ callAt = "join" /\ callAt' = "restore"
  /\ pump' = IF pump = "reading" /\ ~Drained THEN "abandoned" ELSE pump
  /\ UNCHANGED <<callKind, workspace, client, asked, temper, printed, collected, stopped, outcome>>

\* (mutant) the group is never sent SIGTERM
NeverTerminates == FALSE
Terminates      == client = "running"

\* A passthrough is killed outright; the group of a managed run is asked to end.
TimeOut ==
  /\ callAt = "wait" /\ (callKind = "managed" => coding # "unencodable")
  /\ IF callKind = "passthrough"
       THEN client' = "exited" /\ Ends("timeout") /\ UNCHANGED asked
       ELSE asked' = Terminates /\ callAt' = "grace" /\ UNCHANGED <<client, outcome>>
  /\ UNCHANGED <<callKind, workspace, temper, pipe, stopped>>

\* (mutant) no run waits for its client once the timeout has passed
NoGrace    == TRUE
GraceOver  == callKind = "streaming" \/ PipeClosed

\* A captured run communicates again, without a limit, and may raise on what it has
\* read; a streaming one waits a little.
GraceEnds ==
  /\ callAt = "grace"
  /\ GraceOver
  /\ outcome' = IF callKind = "managed" /\ BadOutput THEN "failed" ELSE "timeout"
  /\ callAt' = "restore"
  /\ UNCHANGED <<callKind, workspace, client, asked, temper, pipe, stopped>>

\* Closing a pipe waits for a thread that is blocked reading from it: until the pipe is
\* closed, or something more arrives.
PipesRelease == callKind # "streaming" \/ PipeClosed \/ collected < printed
RestoreHandlers ==
  /\ callAt = "restore" /\ PipesRelease
  /\ IF outcome # "none" THEN Ends(outcome) ELSE callAt' = "conclude" /\ UNCHANGED outcome
  /\ UNCHANGED <<callKind, workspace, client, asked, temper, pipe, stopped>>

\* (mutant) a stop that the client answered by exiting normally is not looked at
StopForgotten == FALSE
WasStopped    == stopped = "handled"
Conclude ==
  /\ callAt = "conclude"
  /\ IF WasStopped THEN Ends("interrupted")
     ELSE outcome' = "answer" /\ callAt' = IF workspace = "present" THEN "capture" ELSE "over"
  /\ UNCHANGED <<callKind, workspace, client, asked, temper, pipe, stopped>>

\* The files the run has changed, then the workspace goes.
CaptureFiles ==
  /\ callAt = "capture" /\ callAt' = "dispose"
  /\ UNCHANGED <<callKind, workspace, client, asked, temper, pipe, stopped, outcome>>

Dispose ==
  /\ callAt = "dispose" /\ callAt' = "over" /\ workspace' = "disposed"
  /\ UNCHANGED <<callKind, client, asked, temper, pipe, stopped, outcome>>

CallStep == \/ Refuse \/ Dispatch \/ StageInputs \/ LaunchFails \/ Launch \/ ArmHandlers
            \/ Communicated \/ CommunicateRaises \/ ReadLine \/ ReaderDies \/ ClientDone
            \/ JoinReaders \/ TimeOut \/ GraceEnds \/ RestoreHandlers \/ Conclude \/ CaptureFiles \/ Dispose

-----------------------------------------------------------------------------
(* The client and the signals.                                             *)

PrintLine ==
  /\ client = "running" /\ printed < MaxLines /\ printed' = printed + 1
  /\ UNCHANGED <<callKind, callAt, workspace, client, asked, temper, collected, pump,
                 stopped, outcome>>

ExitClient ==
  /\ client = "running" /\ client' = "exited"
  /\ UNCHANGED <<callKind, callAt, workspace, asked, temper, pipe, stopped, outcome>>

\* SIGTERM reaches the group, the child that holds the pipe as well.
ObeyTerm ==
  /\ asked /\ ~stubborn /\ client = "running"
  /\ client' = "exited" /\ lingering' = FALSE
  /\ UNCHANGED <<callKind, callAt, workspace, asked, stubborn, coding, pipe, stopped, outcome>>

Armed == callAt \in {"wait", "join", "grace", "restore"} /\ callKind # "passthrough"

\* With the handler, the group is asked to end if the client still runs.  Without it
\* the interpreter raises: subprocess.run kills a passthrough on the way, and nothing
\* does so for a managed client that has just been launched.
StopSignal ==
  /\ MainThread /\ stopped = "no" /\ client # "none"
  /\ \/ /\ Armed /\ stopped' = "handled" /\ asked' = (asked \/ Terminates)
        /\ UNCHANGED <<callAt, client, outcome>>
     \/ /\ ~Armed /\ callAt \in {"arm", "wait", "conclude", "capture"}
        /\ stopped' = "unhandled" /\ Ends("keyboard")
        /\ client' = IF callKind = "passthrough" THEN "exited" ELSE client
        /\ UNCHANGED asked
  /\ UNCHANGED <<callKind, workspace, temper, pipe>>

ClientNext == CallStep \/ PrintLine \/ ExitClient \/ ObeyTerm \/ StopSignal

\* The caller keeps going, its timeout included, and a client that obeys SIGTERM ends.
ClientFairness == WF_clientVars(CallStep) /\ WF_clientVars(ObeyTerm)
ClientSpec == ClientInit /\ [][ClientNext]_clientVars /\ ClientFairness

-----------------------------------------------------------------------------
(* Properties.                                                             *)

\* What is handed on as the client's answer, to be recorded, comes from a client that
\* has exited and was not stopped, and is all that it printed.  A captured call never
\* answers a prompt it could not send nor with output it could not decode; a stream cuts
\* its answer short in two cases: the join of its reader ran out, or the reader died on
\* bytes it could not decode (cli_process_runner.py: _on_stop, _communicate_streaming).
AnswerIsSound ==
  outcome = "answer" =>
    /\ client = "exited" /\ stopped # "handled"
    /\ \/ collected = printed
       \/ callKind = "streaming" /\ pump = "abandoned"
       \/ callKind = "streaming" /\ pump = "died" /\ BadOutput
    /\ coding = "unencodable" => callKind = "streaming"

\* The workspace is taken away from a running client only if it is a stream's client
\* that was asked to end and prints on, if its prompt could not be encoded, which nobody
\* tells it, or if it was launched an instant before a signal.
WorkspaceOutlivesClient ==
  workspace = "disposed" /\ client = "running" =>
    \/ asked /\ callKind = "streaming" /\ collected < printed
    \/ callKind = "managed" /\ coding = "unencodable" /\ outcome = "failed"
    \/ stopped = "unhandled"

\* Every launched call comes back, whatever the client does, except that of a client
\* that ignores SIGTERM or leaves a child on its pipe: the second communicate of a
\* captured run and the closing of a stream's pipes have no limit.
Waiting == \/ callAt = "grace" /\ callKind = "managed"
           \/ callAt = "restore" /\ callKind = "streaming"
CallEnds == callAt = "arm" ~> callAt = "over" \/ (Waiting /\ (stubborn \/ lingering))
=============================================================================
