----------------------------- MODULE Client_proofs -----------------------------
(***************************************************************************)
(* Proofs about one call of a client: local (ClientProcess) or behind HTTP *)
(* (HttpRetry), for every retry policy and any number of printed lines;    *)
(* the language of each client (ClientDialects); and the key a call is     *)
(* stored under (CallIdentity), for any calls and editions of their files. *)
(***************************************************************************)
EXTENDS ClientProcess, HttpRetry, ClientDialects, CallIdentity,
        FiniteSetTheorems, SequenceTheorems, WellFoundedInduction, TLAPS

-----------------------------------------------------------------------------
(* HttpRetry.  A call that is still to send a request has been paid only   *)
(* for lost answers, and has slept at most once for each attempt.          *)

Pauses(n) == MaxDelay * n

HttpInv ==
  /\ api \in Adapter /\ apiAt \in {"start", "request", "over"}
  /\ apiOutcome \in {"none", "config_error", "unsupported", "answer", "status",
                     "api_error", "protocol_error", "raw_error"}
  /\ attempt \in Nat /\ waited \in Nat /\ worked \in Nat /\ unanswered \in Nat
  /\ apiAt = "start" => attempt = 0 /\ waited = 0 /\ worked = 0 /\ unanswered = 0 /\ apiOutcome = "none"
  /\ apiAt = "request" => /\ worked = unanswered /\ apiOutcome = "none" /\ api # "stub-api"
                          /\ attempt < MaxAttempts /\ (api = Relay => attempt = 0)
                          /\ waited <= Pauses(attempt)
  /\ apiAt = "over" => RetriesAreSafe

LEMMA PausesAddUp ==
  /\ \A n \in Nat : Pauses(n) \in Nat /\ Pauses(n + 1) = Pauses(n) + MaxDelay
  /\ \A n \in Nat, k \in Nat : n <= k => Pauses(n) <= Pauses(k)
  /\ Pauses(0) = 0
BY HttpAssumption DEF Pauses

\* A pause is at most the longest one.
LEMMA DelayBounded ==
  ASSUME NEW n \in Nat, NEW after \in Int, NEW pause \in Delay(n, after)
  PROVE  pause \in Int /\ pause <= MaxDelay
BY HttpAssumption DEF Delay, Least

\* What a reply that is final says of the work behind it.
LEMMA FinalReply ==
  ASSUME NEW reply \in Reply, NEW lost \in BOOLEAN, lost => MayHaveWorked(reply)
  PROVE  /\ reply.after \in Int /\ reply.status \in Int
         /\ lost => ~Success(reply)
         /\ Received(reply) \in {"answer", "protocol_error"} => Success(reply)
         /\ Relayed(reply) \in {"answer", "protocol_error"} => Success(reply)
         /\ Received(reply) \in {"raw_error", "api_error", "protocol_error", "answer"}
         /\ Relayed(reply) \in {"raw_error", "api_error", "status", "protocol_error", "answer"}
         /\ Retryable(reply) => ~Success(reply)
<1>1. /\ reply.status \in {0, 200, 201, 400, 429, 503} /\ reply.after \in {0, -2, 4, 7200}
      /\ reply.status \in {200, 201} => reply.body \in Body
      /\ reply.status = 0 => reply.body \in {"unreachable", "timeout", "cut_off"}
      /\ reply.status \in {400, 429, 503} => reply.body = "text"
  BY DEF Reply
<1>2. Success(reply) <=> reply.status \in {200, 201} BY <1>1 DEF Success
<1>3. lost => ~Success(reply) BY <1>1, <1>2 DEF MayHaveWorked, Body
<1>4. Retryable(reply) => ~Success(reply) BY <1>1, <1>2 DEF Retryable
<1>5. /\ Received(reply) \in {"answer", "protocol_error"} => Success(reply)
      /\ Received(reply) \in {"raw_error", "api_error", "protocol_error", "answer"}
  BY <1>1, <1>2 DEF Received
<1>6. /\ Relayed(reply) \in {"answer", "protocol_error"} => Success(reply)
      /\ Relayed(reply) \in {"raw_error", "api_error", "status", "protocol_error", "answer"}
  BY <1>1, <1>2 DEF Relayed
<1> QED BY <1>1, <1>3, <1>4, <1>5, <1>6

\* A call that ends keeps the invariant if it was paid and paused as it should be.
LEMMA EndedWell ==
  ASSUME api \in Adapter, api' = api, api # "stub-api", apiAt' = "over",
         attempt' \in Nat, attempt' <= MaxAttempts, api = Relay => attempt' = 1,
         waited' \in Nat, waited' <= Pauses(MaxAttempts - 1),
         worked' \in Nat, unanswered' \in Nat, worked' <= unanswered' + 1,
         apiOutcome' \in {"raw_error", "api_error", "status", "protocol_error", "answer"},
         apiOutcome' \in {"answer", "protocol_error"} => worked' = unanswered' + 1
  PROVE  HttpInv'
<1>1. PaidAgainOnlyIfLost' BY DEF PaidAgainOnlyIfLost
<1>2. attempt' <= IF api' = Relay THEN 1 ELSE MaxAttempts BY HttpAssumption
<1>3. waited' <= MaxDelay * (MaxAttempts - 1) BY DEF Pauses
<1>4. BackoffIsBounded' BY <1>2, <1>3 DEF BackoffIsBounded
<1> QED BY <1>1, <1>4 DEF HttpInv, RetriesAreSafe

LEMMA HttpInvInit == HttpInit => HttpInv
BY HttpAssumption DEF HttpInit, HttpInv, Adapter, RetriesAreSafe

LEMMA HttpInvStep == HttpInv /\ [HttpNext]_httpVars => HttpInv'
<1> SUFFICES ASSUME HttpInv, [HttpNext]_httpVars PROVE HttpInv'
  OBVIOUS
<1> USE HttpAssumption
<1>1. CASE UNCHANGED httpVars
  BY <1>1 DEF HttpInv, httpVars, RetriesAreSafe, PaidAgainOnlyIfLost, BackoffIsBounded
<1>2. 0 <= MaxDelay * (MaxAttempts - 1)
  BY PausesAddUp, MaxAttempts - 1 \in Nat DEF Pauses
<1>3. CASE RefuseCall \/ AnswerFromStub
  BY <1>2, <1>3 DEF RefuseCall, AnswerFromStub, Return, HttpInv, RetriesAreSafe, PaidAgainOnlyIfLost,
                    BackoffIsBounded, Direct, Relay
<1>4. CASE PrepareRequest
  BY <1>4, PausesAddUp DEF PrepareRequest, HttpInv
<1>5. CASE SendRequest
  <2> SUFFICES ASSUME NEW reply \in Reply, NEW lost \in BOOLEAN, lost => MayHaveWorked(reply),
                 apiAt = "request", attempt' = attempt + 1, UNCHANGED api,
                 worked' = worked + (IF lost \/ Success(reply) THEN 1 ELSE 0),
                 unanswered' = unanswered + (IF lost THEN 1 ELSE 0),
                 \/ api = Relay /\ Return(Relayed(reply)) /\ UNCHANGED waited
                 \/ api # Relay /\ Retryable(reply) /\ attempt' < MaxAttempts /\ Repeat(reply)
                 \/ api # Relay /\ Return(Received(reply)) /\ UNCHANGED waited
               PROVE HttpInv'
    BY <1>5 DEF SendRequest
  <2>1. /\ worked = unanswered /\ api # "stub-api" /\ attempt \in Nat /\ waited \in Nat
        /\ worked \in Nat /\ unanswered \in Nat /\ waited <= Pauses(attempt)
        /\ api = Relay => attempt = 0
        /\ attempt < MaxAttempts /\ apiOutcome = "none" /\ api \in Adapter
    BY DEF HttpInv
  <2>2. /\ worked' \in Nat /\ unanswered' \in Nat /\ worked' <= unanswered' + 1
        /\ Success(reply) => worked' = unanswered' + 1
        /\ ~Success(reply) => worked' = unanswered'
    BY <2>1, FinalReply
  <2>3. /\ waited <= Pauses(MaxAttempts - 1)
        /\ attempt' \in Nat /\ attempt' <= MaxAttempts /\ (api = Relay => attempt' = 1)
    <3>1. attempt <= MaxAttempts - 1 /\ MaxAttempts - 1 \in Nat BY <2>1
    <3>2. Pauses(attempt) <= Pauses(MaxAttempts - 1) BY <2>1, <3>1, PausesAddUp
    <3>3. Pauses(attempt) \in Nat /\ Pauses(MaxAttempts - 1) \in Nat BY <2>1, <3>1, PausesAddUp
    <3> QED BY <2>1, <3>1, <3>2, <3>3
  <2>4. CASE api = Relay /\ Return(Relayed(reply)) /\ UNCHANGED waited
    BY <2>1, <2>2, <2>3, <2>4, FinalReply, EndedWell DEF Return
  <2>5. CASE api # Relay /\ Return(Received(reply)) /\ UNCHANGED waited
    BY <2>1, <2>2, <2>3, <2>5, FinalReply, EndedWell DEF Return
  <2>6. CASE api # Relay /\ Retryable(reply) /\ attempt' < MaxAttempts /\ Repeat(reply)
    <3> PICK pause \in Delay(attempt', reply.after) :
          IF pause < 0 THEN Return("raw_error") /\ UNCHANGED waited
          ELSE waited' = waited + pause /\ UNCHANGED <<apiAt, apiOutcome>>
      BY <2>6 DEF Repeat
    <3>1. pause \in Int /\ pause <= MaxDelay BY <2>1, FinalReply, DelayBounded
    <3>2. ~Success(reply) BY <2>6, FinalReply
    <3>3. CASE pause < 0
      BY <2>1, <2>2, <2>3, <2>6, <3>2, <3>3, EndedWell DEF Return
    <3>4. CASE ~(pause < 0)
      <4>1. waited' \in Nat /\ waited' <= Pauses(attempt + 1)
        BY <2>1, <3>1, <3>4, PausesAddUp
      <4> QED BY <2>1, <2>2, <2>6, <3>2, <3>4, <4>1 DEF HttpInv
    <3> QED BY <3>3, <3>4
  <2> QED BY <2>4, <2>5, <2>6
<1> QED BY <1>1, <1>3, <1>4, <1>5 DEF HttpNext

LEMMA HttpInvSafe == HttpInv => RetriesAreSafe
<1>1. ASSUME HttpInv, apiAt # "over" PROVE RetriesAreSafe
  <2>1. /\ attempt \in Nat /\ attempt <= MaxAttempts - 1 /\ MaxAttempts - 1 \in Nat
        /\ waited \in Nat /\ worked = unanswered /\ worked \in Nat /\ apiOutcome = "none"
        /\ api = Relay => attempt = 0
    BY <1>1, HttpAssumption DEF HttpInv
  <2>2. waited <= Pauses(attempt)
    <3>1. CASE apiAt = "start"
      <4>1. attempt = 0 /\ waited = 0 BY <1>1, <3>1 DEF HttpInv
      <4> QED BY <4>1, PausesAddUp, Pauses(attempt) = Pauses(0)
    <3>2. CASE apiAt = "request" BY <1>1, <3>2 DEF HttpInv
    <3> QED BY <1>1, <3>1, <3>2 DEF HttpInv
  <2>3. Pauses(attempt) <= Pauses(MaxAttempts - 1) BY <2>1, PausesAddUp
  <2>4. Pauses(attempt) \in Nat /\ Pauses(MaxAttempts - 1) \in Nat BY <2>1, PausesAddUp
  <2>5. waited <= Pauses(MaxAttempts - 1) BY <2>1, <2>2, <2>3, <2>4
  <2>6. waited <= MaxDelay * (MaxAttempts - 1) BY <2>5 DEF Pauses
  <2>7. attempt <= IF api = Relay THEN 1 ELSE MaxAttempts BY <2>1, HttpAssumption
  <2> QED BY <2>1, <2>6, <2>7 DEF RetriesAreSafe, PaidAgainOnlyIfLost, BackoffIsBounded
<1> QED BY <1>1 DEF HttpInv

\* Whatever the provider replies and however long it asks to wait, request_json pays twice
\* only for lost answers and gives up in time, for every retry policy.
THEOREM RetriesSafe == HttpSpec => []RetriesAreSafe
BY HttpInvSafe, HttpInvInit, HttpInvStep, PTL DEF HttpSpec

\* A call and its counters keep their shape, and no call makes more attempts than the
\* retry policy allows.
THEOREM HttpTypes == HttpSpec => []HttpTypeOK
<1>1. HttpInv => HttpTypeOK
  <2> SUFFICES ASSUME HttpInv PROVE HttpTypeOK
    OBVIOUS
  <2>1. attempt \in Nat /\ attempt <= MaxAttempts
    BY HttpInvSafe, HttpAssumption DEF HttpInv, RetriesAreSafe, BackoffIsBounded
  <2> QED BY <2>1, HttpAssumption DEF HttpInv, HttpTypeOK
<1> QED BY <1>1, HttpInvInit, HttpInvStep, PTL DEF HttpSpec

-----------------------------------------------------------------------------
(* ClientProcess.  What the caller may rely on at each of its steps.       *)

\* The client has ended, and all of its output is there, was given up on, or could not be
\* decoded.
HasFinished ==
  /\ client = "exited"
  /\ \/ collected = printed
     \/ callKind = "streaming" /\ pump = "abandoned"
     \/ callKind = "streaming" /\ pump = "died" /\ BadOutput
  /\ coding = "unencodable" => callKind = "streaming"

WorkspaceStands ==
  /\ callAt = "start" => workspace = "none"
  /\ callAt = "stage" => workspace = "present" /\ callKind # "passthrough"
  /\ callAt \in {"capture", "dispose"} => workspace = "present"
  /\ callAt \in {"launch", "arm", "wait", "join", "grace", "restore", "conclude", "capture"} =>
       workspace = IF callKind = "passthrough" THEN "none" ELSE "present"

ClientStands ==
  /\ callAt \in {"start", "stage", "launch"} => client = "none" /\ stopped = "no" /\ pump = "reading"
  /\ callAt = "join" => client = "exited" /\ callKind = "streaming"
  /\ callAt = "grace" => callKind # "passthrough" /\ (client = "running" => asked)
  /\ callAt = "restore" /\ outcome = "timeout" /\ client = "running" => asked /\ callKind = "streaming"
  /\ callAt = "restore" /\ outcome = "failed" /\ client = "running" => callKind = "managed" /\ coding = "unencodable"
  /\ callAt = "restore" => callKind # "passthrough"
  /\ pump = "died" => BadOutput

OutcomeStands ==
  /\ callAt \in {"start", "stage", "launch", "arm", "wait", "join", "grace", "conclude"} => outcome = "none"
  /\ callAt = "restore" => outcome \in {"none", "timeout", "failed"}
  /\ callAt = "capture" => outcome = "answer"
  /\ callAt = "conclude" \/ (callAt = "restore" /\ outcome = "none") => HasFinished
  /\ outcome = "answer" => HasFinished /\ stopped # "handled" /\ callAt \in {"capture", "dispose", "over"}

LeftBehind ==
  callAt \in {"dispose", "over"} /\ workspace # "none" /\ client = "running" =>
    \/ asked /\ callKind = "streaming" /\ collected < printed
    \/ callKind = "managed" /\ coding = "unencodable" /\ outcome = "failed"
    \/ stopped = "unhandled"

ClientInv ==
  /\ ClientTypeOK /\ (workspace = "disposed" => callAt = "over")
  /\ WorkspaceStands /\ ClientStands /\ OutcomeStands /\ LeftBehind

LEMMA ClientInvInit == ClientInit => ClientInv
<1> SUFFICES ASSUME ClientInit PROVE ClientInv
  OBVIOUS
<1>1. ClientTypeOK BY ClientAssumption, 0 \in 0..MaxLines DEF ClientInit, ClientTypeOK, Steps
<1>2. WorkspaceStands /\ ClientStands /\ OutcomeStands /\ LeftBehind
  BY DEF ClientInit, WorkspaceStands, ClientStands, OutcomeStands, LeftBehind
<1> QED BY <1>1, <1>2 DEF ClientInit, ClientInv

LEMMA ClientInvStep == ClientInv /\ [ClientNext]_clientVars => ClientInv'
<1> SUFFICES ASSUME ClientInv, [ClientNext]_clientVars PROVE ClientInv'
  OBVIOUS
<1> USE ClientAssumption DEF ClientInv, ClientTypeOK, Steps, WorkspaceStands, ClientStands,
        OutcomeStands, LeftBehind, HasFinished, BadOutput, temper, pipe
<1>1. CASE UNCHANGED clientVars BY <1>1 DEF clientVars
<1>2. CASE Refuse BY <1>2 DEF Refuse, Ends
<1>3. CASE Dispatch BY <1>3 DEF Dispatch
<1>4. CASE StageInputs BY <1>4 DEF StageInputs, Ends
<1>5. CASE LaunchFails BY <1>5 DEF LaunchFails, Ends
<1>6. CASE Launch BY <1>6 DEF Launch
<1>7. CASE ArmHandlers BY <1>7 DEF ArmHandlers
<1>8. CASE Communicated BY <1>8 DEF Communicated, PipeClosed
<1>9. CASE ReadLine BY <1>9 DEF ReadLine, Reading
<1>10. CASE ClientDone BY <1>10 DEF ClientDone
<1>11. CASE JoinReaders BY <1>11 DEF JoinReaders, Drained, PipeClosed
<1>12. CASE TimeOut
  <2>1. CASE callKind = "passthrough" BY <1>12, <2>1 DEF TimeOut, Ends
  <2>2. CASE callKind # "passthrough"
    <3>1. asked' \in BOOLEAN /\ (client = "running" => asked') BY <1>12, <2>2, Zenon DEF TimeOut, Terminates
    <3>2. /\ callAt = "wait" /\ callAt' = "grace"
          /\ UNCHANGED <<callKind, workspace, client, outcome, stopped, stubborn, lingering, coding, printed,
                         collected, pump>>
      BY <1>12, <2>2 DEF TimeOut
    <3> QED BY <2>2, <3>1, <3>2
  <2> QED BY <2>1, <2>2
<1>13. CASE GraceEnds BY <1>13 DEF GraceEnds, GraceOver, PipeClosed
<1>14. CASE RestoreHandlers BY <1>14 DEF RestoreHandlers, PipesRelease, PipeClosed, Ends
<1>15. CASE Conclude BY <1>15 DEF Conclude, WasStopped, Ends
<1>16. CASE CaptureFiles BY <1>16 DEF CaptureFiles
<1>17. CASE Dispose BY <1>17 DEF Dispose
<1>18. CASE PrintLine BY <1>18 DEF PrintLine
<1>19. CASE ExitClient BY <1>19 DEF ExitClient
<1>20. CASE ObeyTerm
  <2>1. /\ client = "running" /\ client' = "exited" /\ lingering' \in BOOLEAN
        /\ UNCHANGED <<callKind, callAt, workspace, asked, stubborn, coding, printed, collected, pump,
                       stopped, outcome>>
    BY <1>20 DEF ObeyTerm
  <2> QED BY <2>1
<1>21. CASE StopSignal
  <2>1. CASE Armed
    <3>1. asked' \in BOOLEAN /\ (asked => asked') BY <1>21, <2>1, Zenon DEF StopSignal, Terminates
    <3>2. /\ callAt \in {"wait", "join", "grace", "restore"} /\ stopped' = "handled"
          /\ UNCHANGED <<callKind, callAt, workspace, client, stubborn, lingering, coding, printed,
                         collected, pump, outcome>>
      BY <1>21, <2>1 DEF StopSignal, Armed
    <3> QED BY <3>1, <3>2
  <2>2. CASE ~Armed
    <3>1. /\ callAt \in {"arm", "wait", "conclude", "capture"} /\ stopped' = "unhandled"
          /\ client' = IF callKind = "passthrough" THEN "exited" ELSE client
          /\ UNCHANGED <<callKind, workspace, asked, stubborn, lingering, coding, printed, collected, pump>>
          /\ client # "none" /\ outcome' = "keyboard"
          /\ callAt' = IF workspace = "present" THEN "dispose" ELSE "over"
      BY <1>21, <2>2 DEF StopSignal, Ends
    <3> QED BY <3>1
  <2> QED BY <2>1, <2>2
<1>22. CASE CommunicateRaises BY <1>22 DEF CommunicateRaises, PipeClosed
<1>23. CASE ReaderDies BY <1>23 DEF ReaderDies, Reading
<1> QED
  BY <1>1, <1>2, <1>3, <1>4, <1>5, <1>6, <1>7, <1>8, <1>9, <1>10, <1>11, <1>12, <1>13, <1>14, <1>15,
     <1>16, <1>17, <1>18, <1>19, <1>20, <1>21, <1>22, <1>23
  DEF ClientNext, CallStep

\* However exit, signals, timeout and reading interleave, what the runner hands on as an
\* answer is all that an unstopped client printed, for any number of lines, but for a
\* stream whose reader was given up on or died on bytes it could not decode.
THEOREM AnswersSound == ClientSpec => []AnswerIsSound
<1>1. ClientInv => AnswerIsSound BY DEF ClientInv, OutcomeStands, HasFinished, AnswerIsSound
<1> QED BY <1>1, ClientInvInit, ClientInvStep, PTL DEF ClientSpec

\* The service takes the workspace away from no running client, but for the three that
\* WorkspaceOutlivesClient names.
THEOREM WorkspaceKept == ClientSpec => []WorkspaceOutlivesClient
<1>1. ClientInv => WorkspaceOutlivesClient
  BY DEF ClientInv, LeftBehind, WorkspaceOutlivesClient
<1> QED BY <1>1, ClientInvInit, ClientInvStep, PTL DEF ClientSpec

\* Call, client and pipe keep their shape, and no more is read than was printed at most.
THEOREM ClientTypes == ClientSpec => []ClientTypeOK
<1>1. ClientInv => ClientTypeOK BY DEF ClientInv
<1> QED BY <1>1, ClientInvInit, ClientInvStep, PTL DEF ClientSpec

-----------------------------------------------------------------------------
(* ClientDialects. What a client has printed and written is of its         *)
(* dialect, and the answer that is lifted is the last of it.               *)

\* What a client prints, and where it stands.
Prints(d) == OnItsWay(d) \cup AtTheEnd(d)
Printed == [kind : {"noise", "init", "tool", "message", "turn", "result"}, text : BOOLEAN, usage : BOOLEAN, torn : BOOLEAN]
Lifted == [answer : Nat, usage : Nat, how : {"none", "not_found", "timeout", "success", "failed"}]

StdoutSound ==
  /\ stdout \in Seq(Printed)
  /\ \A i \in 1..Len(stdout) : stdout[i] \in Prints(dialect)
  /\ dialect # "vibe" => \A i \in 1..Len(stdout) : i < Len(stdout) => stdout[i] \notin AtTheEnd(dialect)

HomeSound ==
  /\ dialectAt = "seed" /\ dialect # "vibe" => configHome = [f \in {GrantsFile[dialect]} |-> "ours"]
  /\ dialectAt = "seed" /\ dialect = "vibe" => configHome = <<>>
  /\ dialectAt \in {"command", "run"} /\ dialect # "vibe" =>
       /\ GrantsFile[dialect] \in DOMAIN configHome /\ configHome[GrantsFile[dialect]] = "ours"
       /\ "settings.local.json" \notin DOMAIN configHome

ArgvSound ==
  dialectAt = "run" => \E paths \in ReadAccessArgv(dialect) :
                         argv = BuildArgv(dialect) \o paths \o GrantArgv(dialect, grants)

BeforeTheRun ==
  /\ dialectAt \in {"configure", "seed", "command"} => stdout = <<>>
  /\ dialectAt # "over" => lifted = NothingLifted

DialectInv ==
  /\ DialectTypeOK /\ lifted \in Lifted /\ StdoutSound /\ HomeSound /\ ArgvSound /\ BeforeTheRun /\ AnswerIsTheLast

\* The last of a set of line numbers is one of them.
LEMMA LastOfIsLast ==
  ASSUME NEW n \in Nat, NEW lines \in SUBSET (1..n)
  PROVE  /\ LastOf(lines) \in 0..n
         /\ lines = {} => LastOf(lines) = 0
         /\ lines # {} => LastOf(lines) \in lines /\ \A k \in lines : k <= LastOf(lines)
<1>1. lines = {} => LastOf(lines) = 0 BY DEF LastOf
<1>2. ASSUME lines # {} PROVE LastOf(lines) \in lines /\ \A k \in lines : k <= LastOf(lines)
  <2> DEFINE above == {m \in Nat : \A k \in lines : k <= m}
  <2>1. n \in above OBVIOUS
  <2>2. PICK m \in above : \A x \in above : ~(<<x, m>> \in OpToRel(<, Nat))
    <3>1. IsWellFoundedOn(OpToRel(<, Nat), Nat) BY NatLessThanWellFounded
    <3> HIDE DEF above
    <3>2. above \subseteq Nat /\ above # {} BY <2>1 DEF above
    <3> QED BY <3>1, <3>2, WFMin
  <2>3. \A x \in above : ~(x < m) BY <2>2 DEF OpToRel
  <2>4. m \in Nat /\ \A k \in lines : k <= m OBVIOUS
  <2>5. m \in lines
    <3> SUFFICES ASSUME m \notin lines PROVE FALSE OBVIOUS
    <3>1. \A k \in lines : k \in Nat /\ 1 <= k /\ k <= m /\ k # m BY <2>4
    <3>2. PICK k \in lines : TRUE BY <1>2
    <3>3. m - 1 \in Nat BY <2>4, <3>1, <3>2
    <3>4. \A j \in lines : j <= m - 1 BY <2>4, <3>1
    <3>5. m - 1 \in above BY <3>3, <3>4
    <3>6. m - 1 < m BY <2>4
    <3> QED BY <2>3, <3>5, <3>6
  <2>6. \A j \in lines : j \in Nat OBVIOUS
  <2>7. \A i \in lines : (\A k \in lines : k <= i) => i = m BY <2>4, <2>5, <2>6
  <2> HIDE DEF above
  <2> QED BY <1>2, <2>4, <2>5 DEF LastOf
<1>3. CASE lines = {} BY <1>1, <1>3
<1>4. CASE lines # {}
  <2>1. LastOf(lines) \in 1..n BY <1>2, <1>4
  <2> QED BY <1>2, <1>4, <2>1
<1> QED BY <1>3, <1>4

LEMMA LineIs ==
  ASSUME NEW kind \in {"noise", "init", "tool", "message", "turn", "result"},
         NEW text \in BOOLEAN, NEW usage \in BOOLEAN, NEW torn \in BOOLEAN
  PROVE  LET line == Line(kind, text, usage, torn)
         IN  line \in Printed /\ line.kind = kind /\ line.text = text /\ line.usage = usage /\ line.torn = torn
BY DEF Line, Printed

LEMMA NoiseIs == Noise \in Printed /\ Noise.kind = "noise" /\ Noise.text = FALSE /\ Noise.torn = FALSE
BY LineIs DEF Noise

\* What each client prints on its way and at the end, kind by kind.
LEMMA OnTheWayKinds ==
  ASSUME NEW d \in Dialect, NEW line \in OnItsWay(d)
  PROVE  \/ line = Noise
         \/ d \in {"claude", "codex", "cursor"} /\ \E kind \in {"init", "tool", "message"} :
              line = Line(kind, FALSE, FALSE, FALSE) /\ (d = "codex" => kind = "tool")
         \/ d = "codex" /\ \E torn \in BOOLEAN : line = Line("message", TRUE, FALSE, torn)
         \/ d = "vibe" /\ \E text \in BOOLEAN : line = Line("message", text, FALSE, FALSE)
<1> SUFFICES ASSUME line # Noise PROVE 
         \/ d \in {"claude", "codex", "cursor"} /\ \E kind \in {"init", "tool", "message"} :
              line = Line(kind, FALSE, FALSE, FALSE) /\ (d = "codex" => kind = "tool")
         \/ d = "codex" /\ \E torn \in BOOLEAN : line = Line("message", TRUE, FALSE, torn)
         \/ d = "vibe" /\ \E text \in BOOLEAN : line = Line("message", text, FALSE, FALSE)
  OBVIOUS
<1>1. CASE d = "claude"
  <2>1. line \in {Line(kind, FALSE, FALSE, FALSE) : kind \in {"init", "tool"}} BY <1>1 DEF OnItsWay
  <2> QED BY <1>1, <2>1
<1>2. CASE d = "codex"
  <2>1. line \in {Line("message", TRUE, FALSE, torn) : torn \in BOOLEAN} \cup {Line("tool", FALSE, FALSE, FALSE)}
    BY <1>2 DEF OnItsWay
  <2> QED BY <1>2, <2>1
<1>3. CASE d = "cursor"
  <2>1. line \in {Line(kind, FALSE, FALSE, FALSE) : kind \in {"init", "message"}} BY <1>3 DEF OnItsWay
  <2> QED BY <1>3, <2>1
<1>4. CASE d = "vibe"
  <2>1. line \in {Line("message", text, FALSE, FALSE) : text \in BOOLEAN} BY <1>4 DEF OnItsWay
  <2> QED BY <1>4, <2>1
<1> QED BY <1>1, <1>2, <1>3, <1>4 DEF Dialect

LEMMA AtTheEndKinds ==
  ASSUME NEW d \in Dialect, NEW line
  PROVE  line \in AtTheEnd(d) <=>
         \/ d = "codex" /\ \E usage \in BOOLEAN : line = Line("turn", FALSE, usage, FALSE)
         \/ d = "vibe" /\ \E torn \in BOOLEAN : line = Line("message", TRUE, FALSE, torn)
         \/ d \in {"claude", "cursor"} /\ \E text, usage, torn \in BOOLEAN : line = Line("result", text, usage, torn)
<1>1. CASE d = "codex"
  <2>1. AtTheEnd(d) = {Line("turn", FALSE, usage, FALSE) : usage \in BOOLEAN} BY <1>1 DEF AtTheEnd
  <2> QED BY <1>1, <2>1
<1>2. CASE d = "vibe"
  <2>1. AtTheEnd(d) = {Line("message", TRUE, FALSE, torn) : torn \in BOOLEAN} BY <1>2 DEF AtTheEnd
  <2> QED BY <1>2, <2>1
<1>3. CASE d \in {"claude", "cursor"}
  <2> DEFINE results == {Line("result", text, usage, torn) :
                           text \in BOOLEAN, usage \in BOOLEAN, torn \in BOOLEAN}
  <2>1. AtTheEnd("claude") = results /\ AtTheEnd("cursor") = results BY DEF AtTheEnd
  <2>2. line \in results <=> \E text, usage, torn \in BOOLEAN : line = Line("result", text, usage, torn) BY SMT
  <2>3. AtTheEnd(d) = results BY <1>3, <2>1
  <2> HIDE DEF results
  <2> QED BY <1>3, <2>2, <2>3
<1> QED BY <1>1, <1>2, <1>3 DEF Dialect

\* A line with text is a message or a result, and no noise.
LEMMA TextLines ==
  ASSUME NEW d \in Dialect, NEW line \in Prints(d)
  PROVE  /\ line \in Printed
         /\ line.text => line.kind \in {"message", "result"}
         /\ d \in {"claude", "cursor"} => (line \in AtTheEnd(d) <=> line.kind = "result")
         /\ d \in {"claude", "cursor"} => (line.text => line.kind = "result")
         /\ d = "codex" => (line.text <=> line.kind = "message")
         /\ d = "codex" /\ line \in AtTheEnd(d) => ~line.text
         /\ d = "vibe" => line.kind \in {"message", "noise"}
         /\ line = Noise <=> line.kind = "noise"
<1>1. CASE line = Noise
  <2>1. \A text, usage, torn : /\ Line("turn", text, usage, torn).kind = "turn"
                              /\ Line("message", text, usage, torn).kind = "message"
                              /\ Line("result", text, usage, torn).kind = "result"
    BY DEF Line
  <2>2. ASSUME line \in AtTheEnd(d) PROVE FALSE
    <3>1. PICK text, usage, torn \in BOOLEAN :
            line \in {Line("turn", text, usage, torn), Line("message", text, usage, torn),
                     Line("result", text, usage, torn)}
      BY <2>2, AtTheEndKinds
    <3> QED BY <1>1, <2>1, <3>1, NoiseIs
  <2> QED BY <1>1, <2>2, NoiseIs
<1>2. CASE line \in AtTheEnd(d)
  <2>1. PICK text, usage, torn \in BOOLEAN :
          \/ d = "codex" /\ line = Line("turn", text, usage, torn) /\ text = FALSE
          \/ d = "vibe" /\ line = Line("message", text, usage, torn)
          \/ d \in {"claude", "cursor"} /\ line = Line("result", text, usage, torn)
    BY <1>2, AtTheEndKinds
  <2>2. CASE d = "codex"
    <3>1. line \in Printed /\ line.kind = "turn" /\ ~line.text BY <2>1, <2>2, LineIs
    <3> QED BY <2>2, <3>1, NoiseIs
  <2>3. CASE d = "vibe"
    <3>1. line \in Printed /\ line.kind = "message" BY <2>1, <2>3, LineIs
    <3> QED BY <2>3, <3>1, NoiseIs
  <2>4. CASE d \in {"claude", "cursor"}
    <3>1. line \in Printed /\ line.kind = "result" BY <2>1, <2>4, LineIs
    <3> QED BY <1>2, <2>4, <3>1, NoiseIs
  <2> QED BY <2>2, <2>3, <2>4 DEF Dialect
<1>3. CASE line # Noise /\ line \in OnItsWay(d) /\ line \notin AtTheEnd(d)
  <2>1. ASSUME d \in {"claude", "codex", "cursor"}, NEW kind \in {"init", "tool", "message"},
               line = Line(kind, FALSE, FALSE, FALSE), d = "codex" => kind = "tool"
        PROVE  line \in Printed /\ line.kind = kind /\ ~line.text
    BY <2>1 DEF Line, Printed
  <2>2. ASSUME NEW text \in BOOLEAN, NEW torn \in BOOLEAN, line = Line("message", text, FALSE, torn)
        PROVE  line \in Printed /\ line.kind = "message" /\ line.text = text
    BY <2>2 DEF Line, Printed
  <2>3. CASE d \in {"claude", "codex", "cursor"} /\ \E kind \in {"init", "tool", "message"} :
              line = Line(kind, FALSE, FALSE, FALSE) /\ (d = "codex" => kind = "tool")
    <3>1. PICK kind \in {"init", "tool", "message"} :
              line = Line(kind, FALSE, FALSE, FALSE) /\ (d = "codex" => kind = "tool")
      BY <2>3
    <3>2. line \in Printed /\ line.kind = kind /\ ~line.text BY <2>1, <2>3, <3>1
    <3> QED BY <1>3, <2>3, <3>1, <3>2, NoiseIs
  <2>4. CASE d = "codex" /\ \E torn \in BOOLEAN : line = Line("message", TRUE, FALSE, torn)
    <3>1. line \in Printed /\ line.kind = "message" /\ line.text BY <2>2, <2>4
    <3> QED BY <1>3, <2>4, <3>1, NoiseIs
  <2>5. CASE d = "vibe" /\ \E text \in BOOLEAN : line = Line("message", text, FALSE, FALSE)
    <3>1. line \in Printed /\ line.kind = "message" BY <2>2, <2>5
    <3> QED BY <1>3, <2>5, <3>1, NoiseIs
  <2> QED BY <1>3, <2>3, <2>4, <2>5, OnTheWayKinds
<1> QED BY <1>1, <1>2, <1>3 DEF Prints

\* What is read out of the output points into it.
LEMMA ParsedIsThere ==
  ASSUME StdoutSound, dialect \in Dialect, NEW whole \in BOOLEAN
  PROVE  ParseOutput(whole).answer \in 0..Len(stdout) /\ ParseOutput(whole).usage \in 0..Len(stdout)
<1>1. Len(stdout) \in Nat /\ DOMAIN stdout = 1..Len(stdout) BY DEF StdoutSound
<1>2. \A S \in SUBSET (1..Len(stdout)) : LastOf(S) \in 0..Len(stdout) BY <1>1, LastOfIsLast
<1>3. FinalResultObject \in 0..Len(stdout) BY <1>1, <1>2 DEF FinalResultObject
<1>4. LastMessage \in 0..Len(stdout) BY <1>1, <1>2 DEF LastMessage, Messages
<1>5. LastOf({i \in DOMAIN stdout : stdout[i].kind = "turn" /\ stdout[i].usage}) \in 0..Len(stdout) BY <1>1, <1>2
<1>6. LastOf({i \in DOMAIN stdout : stdout[i].text}) \in 0..Len(stdout) BY <1>1, <1>2
<1>7. ParseResult.answer \in 0..Len(stdout) /\ ParseResult.usage \in 0..Len(stdout)
  BY <1>1, <1>3 DEF ParseResult, Raw
<1>8. CodexOutput.answer \in 0..Len(stdout) /\ CodexOutput.usage \in 0..Len(stdout)
  BY <1>1, <1>4, <1>5 DEF CodexOutput, Raw
<1>9. VibeOutput(whole).answer \in 0..Len(stdout) /\ VibeOutput(whole).usage \in 0..Len(stdout)
  BY <1>1, <1>6 DEF VibeOutput, Raw
<1> QED BY <1>7, <1>8, <1>9 DEF ParseOutput, Dialect

-----------------------------------------------------------------------------
(* The answer.                                                             *)

\* The answers of a finished output, and what is read of them.
LEMMA ParsedIsTheLast ==
  ASSUME StdoutSound, dialect \in Dialect, Finished, NEW whole, whole = TRUE
  PROVE  LET answers == {i \in DOMAIN stdout : stdout[i].text}
             parsed  == ParseOutput(whole)
         IN  /\ parsed.answer \in {0, LastOf(answers)} \/ stdout[LastOf(answers)].torn
             /\ parsed.answer = 0 => parsed.usage = 0 /\
                  (answers # {} => \E i \in DOMAIN stdout : stdout[i].torn \/ stdout[i] = Noise)
<1> DEFINE answers == {i \in DOMAIN stdout : stdout[i].text}
           n == Len(stdout)
<1>1. n \in Nat \ {0} /\ DOMAIN stdout = 1..n /\ stdout[n] \in AtTheEnd(dialect) /\ n \in 1..n
  BY DEF StdoutSound, Finished
<1>2. /\ \A S \in SUBSET (1..n) : LastOf(S) \in 0..n /\ (S = {} => LastOf(S) = 0)
                             /\ (S # {} => LastOf(S) \in S /\ \A k \in S : k <= LastOf(S))
      /\ answers \in SUBSET (1..n)
  BY <1>1, LastOfIsLast
<1>3. \A i \in 1..n : stdout[i] \in Prints(dialect) BY DEF StdoutSound
<1> HIDE DEF n
<1>4. CASE dialect \in {"claude", "cursor"}
  <2> DEFINE legible == {i \in DOMAIN stdout : Legible(stdout[i]) /\ stdout[i].kind = "result"}
  <2>1. \A i \in 1..n : i # n => stdout[i].kind # "result"
    <3>1. \A i \in 1..n : i # n => stdout[i] \notin AtTheEnd(dialect)
      <4>1. \A i \in 1..n : i < n => stdout[i] \notin AtTheEnd(dialect) BY <1>4 DEF StdoutSound, n
      <4>2. \A i \in 1..n : i # n => i < n BY <1>1
      <4> QED BY <4>1, <4>2
    <3> QED BY <1>3, <1>4, <3>1, TextLines
  <2>2. stdout[n].kind = "result" /\ stdout[n] # Noise BY <1>1, <1>3, <1>4, TextLines
  <2>3. answers \subseteq {n} /\ legible \subseteq {n}
    BY <1>1, <1>3, <1>4, <2>1, TextLines
  <2>4. legible = {} => stdout[n].torn BY <1>1, <2>2 DEF Legible
  <2>5. legible \in SUBSET (1..n) BY <1>1
  <2> HIDE DEF legible
  <2>6. FinalResultObject \in {0, n} /\ (FinalResultObject = 0 => stdout[n].torn)
    <3>1. CASE n = 1 /\ stdout[1] # Noise BY <3>1 DEF FinalResultObject, n
    <3>2. CASE ~(n = 1 /\ stdout[1] # Noise)
      <4>1. FinalResultObject = LastOf(legible) BY <3>2 DEF FinalResultObject, legible, n
      <4> QED BY <1>2, <2>3, <2>4, <2>5, <4>1
    <3> QED BY <3>1, <3>2
  <2>7. stdout[n].text => n \in answers BY <1>1
  <2>8. answers # {} => LastOf(answers) = n /\ stdout[n].text BY <1>2, <2>3
  <2>9. ParseOutput(whole) = ParseResult BY <1>4 DEF ParseOutput
  <2>10. ParseResult.answer \in {0, n} /\ (ParseResult.answer = 0 => ParseResult.usage = 0)
         /\ (ParseResult.answer = n => stdout[n].text)
         /\ (ParseResult.answer = 0 => stdout[n].torn \/ ~stdout[n].text)
    BY <1>1, <2>6 DEF ParseResult, Raw
  <2> HIDE DEF answers
  <2> QED BY <1>1, <2>7, <2>8, <2>9, <2>10 DEF answers
<1>5. CASE dialect = "codex"
  <2>1. Messages \in SUBSET (1..n) /\ Messages \subseteq answers /\ \A i \in answers : ~stdout[i].torn => i \in Messages
    BY <1>1, <1>3, <1>5, TextLines DEF Messages, Legible
  <2>2. LastMessage = LastOf(Messages) BY DEF LastMessage
  <2>3. ParseOutput(whole) = CodexOutput BY <1>5 DEF ParseOutput
  <2>4. CodexOutput.answer = LastMessage /\ (LastMessage = 0 => CodexOutput.usage = 0)
    BY DEF CodexOutput, Raw
  <2> HIDE DEF answers
  <2>5. LastMessage \in {0, LastOf(answers)} \/ stdout[LastOf(answers)].torn
    <3> SUFFICES ASSUME Messages # {}, ~stdout[LastOf(answers)].torn PROVE LastMessage = LastOf(answers)
      BY <1>2, <2>1, <2>2
    <3>1. LastOf(answers) \in answers /\ \A k \in answers : k <= LastOf(answers) BY <1>2, <2>1
    <3>2. LastOf(answers) \in Messages BY <2>1, <3>1
    <3>3. LastMessage \in Messages /\ \A k \in Messages : k <= LastMessage BY <1>2, <2>1, <2>2
    <3>4. LastMessage \in Nat /\ LastOf(answers) \in Nat BY <1>1, <1>2, <2>1, <3>1, <3>3
    <3> QED BY <2>1, <3>1, <3>2, <3>3, <3>4
  <2>6. LastMessage = 0 /\ answers # {} => \E i \in DOMAIN stdout : stdout[i].torn
    <3> SUFFICES ASSUME LastMessage = 0, answers # {} PROVE \E i \in DOMAIN stdout : stdout[i].torn OBVIOUS
    <3>1. Messages = {} BY <1>1, <1>2, <2>1, <2>2
    <3> QED BY <1>1, <1>2, <2>1, <3>1
  <2> QED BY <2>3, <2>4, <2>5, <2>6 DEF answers
<1>6. CASE dialect = "vibe"
  <2>1. ParseOutput(whole) = VibeOutput(whole) BY <1>6 DEF ParseOutput
  <2>2. CASE \E i \in DOMAIN stdout : stdout[i] = Noise
    <3>1. VibeOutput(whole) = Raw BY <2>2, Zenon DEF VibeOutput
    <3>2. ParseOutput(whole).answer = 0 /\ ParseOutput(whole).usage = 0 BY <2>1, <3>1 DEF Raw
    <3> HIDE DEF answers
    <3> QED BY <2>2, <3>2
  <2>3. CASE ~ \E i \in DOMAIN stdout : stdout[i] = Noise
    <3>1. ParseOutput(whole).answer = LastOf(answers) /\ ParseOutput(whole).usage = 0
      <4>1. VibeOutput(whole) = [answer |-> LastOf(answers), usage |-> 0] BY <2>3, Zenon DEF VibeOutput
      <4> QED BY <2>1, <4>1
    <3> HIDE DEF answers
    <3>2. LastOf(answers) = 0 => answers = {} BY <1>1, <1>2
    <3> QED BY <3>1, <3>2 DEF answers
  <2> QED BY <2>2, <2>3
<1> QED BY <1>4, <1>5, <1>6 DEF Dialect

-----------------------------------------------------------------------------
(* The call.                                                               *)

Word == {"-p", "model", "effort", "system_prompt", "stream-json", "client_args", "exec", "json", "-", "--trust",
         "prompt", "--yolo", "--force", "--add-dir"}

\* Flags appended to a client's own command line take no word of it away.
LEMMA HeardAtLeast ==
  ASSUME NEW line \in Seq(Word), NEW paths \in Seq(Word), NEW flags \in Seq(Word), NEW d,
         d = "cursor" => \A i \in 1..Len(line) : line[i] = "prompt" => i = Len(line)
  PROVE  {line[i] : i \in 1..Len(line)} \subseteq Heard(d, line \o paths \o flags)
<1> DEFINE whole == line \o paths \o flags
<1>1. /\ whole \in Seq(Word) /\ Len(line) \in Nat /\ Len(whole) \in Nat /\ Len(line) <= Len(whole)
      /\ \A i \in 1..Len(line) : whole[i] = line[i]
      /\ DOMAIN whole = 1..Len(whole)
  <2>1. line \o paths \in Seq(Word) /\ Len(line \o paths) = Len(line) + Len(paths)
        /\ \A i \in 1..Len(line) : (line \o paths)[i] = line[i]
    OBVIOUS
  <2>2. whole \in Seq(Word) /\ Len(whole) = Len(line \o paths) + Len(flags)
        /\ \A i \in 1..Len(line \o paths) : whole[i] = (line \o paths)[i]
    BY <2>1
  <2>3. Len(line) \in Nat /\ Len(paths) \in Nat /\ Len(flags) \in Nat OBVIOUS
  <2>4. DOMAIN whole = 1..Len(whole) BY <2>2
  <2> HIDE DEF whole
  <2> QED BY <2>1, <2>2, <2>3, <2>4
<1> HIDE DEF whole
<1>2. SUFFICES ASSUME NEW i \in 1..Len(line)
               PROVE  /\ i \in DOMAIN whole /\ whole[i] = line[i]
                      /\ d = "cursor" => \A k \in DOMAIN whole : whole[k] = "prompt" => i <= k
  BY <1>1 DEF Heard, whole
<1>3. i \in DOMAIN whole /\ whole[i] = line[i] BY <1>1
<1>4. ASSUME d = "cursor", NEW k \in DOMAIN whole, whole[k] = "prompt" PROVE i <= k
  <2>1. k \in Nat /\ i \in Nat /\ 1 <= k /\ i <= Len(line) BY <1>1
  <2>2. CASE k <= Len(line)
    <3>1. k \in 1..Len(line) BY <1>1, <2>1, <2>2
    <3>2. line[k] = "prompt" BY <1>1, <1>4, <3>1
    <3>3. k = Len(line) BY <1>4, <3>1, <3>2
    <3> QED BY <2>1, <3>3
  <2>3. CASE ~ (k <= Len(line))
    <3>1. Len(line) \in Nat BY <1>1
    <3> QED BY <2>1, <2>3, <3>1
  <2> QED BY <2>2, <2>3
<1> QED BY <1>3, <1>4

\* A rule opens what it is about.
LEMMA OpeningHas ==
  ASSUME NEW rules, NEW g, NEW door \in g, NEW token, <<door, token>> \in rules
  PROVE  token \in Opening(rules, g)
<1> DEFINE rule == <<door, token>>
<1>1. rule[1] = door /\ rule[2] = token OBVIOUS
<1>2. rule \in {r \in rules : r[1] \in g} BY <1>1
<1> HIDE DEF rule
<1> QED BY <1>1, <1>2 DEF Opening

LEMMA OpenedHas ==
  ASSUME NEW d, NEW told, NEW door, NEW tokens \in SUBSET told, <<door, tokens>> \in Needs(d)
  PROVE  door \in Opened(d, told)
<1> DEFINE rule == <<door, tokens>>
<1>1. rule[1] = door /\ rule[2] = tokens OBVIOUS
<1>2. rule \in {r \in Needs(d) : r[2] \subseteq told} BY <1>1
<1> HIDE DEF rule
<1> QED BY <1>1, <1>2 DEF Opened

\* What each client is told, whatever the grants.
LEMMA HeardFrom ==
  ASSUME dialect \in Dialect, NEW paths \in ReadAccessArgv(dialect),
         argv = BuildArgv(dialect) \o paths \o GrantArgv(dialect, grants)
  PROVE  /\ dialect \in {"claude", "codex"} => {"model", "effort", "client_args"} \subseteq Heard(dialect, argv)
         /\ dialect = "cursor" => {"--trust", "model", "effort", "client_args", "prompt"} \subseteq Heard(dialect, argv)
         /\ dialect = "vibe" => {"prompt", "--yolo", "client_args"} \subseteq Heard(dialect, argv)
<1> DEFINE line == BuildArgv(dialect)
           flags == GrantArgv(dialect, grants)
<1>1. paths \in Seq(Word) /\ flags \in Seq(Word)
  <2>1. <<>> \in Seq(Word) /\ <<"--add-dir">> \in Seq(Word) /\ <<"--force">> \in Seq(Word) BY DEF Word
  <2>2. paths = <<>> \/ paths = <<"--add-dir">> BY DEF ReadAccessArgv
  <2> QED BY <2>1, <2>2 DEF GrantArgv
<1>2. line \in Seq(Word)
  <2>1. ClaudeArgv \in Seq(Word) BY DEF ClaudeArgv, Word
  <2>2. CodexArgv \in Seq(Word) BY DEF CodexArgv, Word
  <2>3. CursorArgv \in Seq(Word) BY DEF CursorArgv, Word
  <2>4. VibeArgv \in Seq(Word) BY DEF VibeArgv, Word
  <2> QED BY <2>1, <2>2, <2>3, <2>4 DEF BuildArgv, Dialect
<1>3. dialect = "claude" => Len(line) = 6 /\ line[2] = "model" /\ line[3] = "effort" /\ line[6] = "client_args"
  BY DEF BuildArgv, ClaudeArgv
<1>4. dialect = "codex" => Len(line) = 7 /\ line[3] = "model" /\ line[4] = "effort" /\ line[6] = "client_args"
  BY DEF BuildArgv, CodexArgv
<1>5. dialect = "cursor" => /\ Len(line) = 6 /\ line[1] = "--trust" /\ line[2] = "model" /\ line[3] = "effort"
                            /\ line[4] = "stream-json" /\ line[5] = "client_args" /\ line[6] = "prompt"
  BY DEF BuildArgv, CursorArgv
<1>6. dialect = "vibe" => Len(line) = 5 /\ line[1] = "prompt" /\ line[3] = "--yolo" /\ line[5] = "client_args"
  BY DEF BuildArgv, VibeArgv
<1> HIDE DEF line, flags
<1>7. dialect = "cursor" => \A i \in 1..Len(line) : line[i] = "prompt" => i = Len(line)
  <2> SUFFICES ASSUME dialect = "cursor", NEW i \in 1..6, i # 6 PROVE line[i] # "prompt" BY <1>5
  <2>1. i \in {1, 2, 3, 4, 5} OBVIOUS
  <2> QED BY <1>5, <2>1
<1>8. \A i \in 1..Len(line) : line[i] \in Heard(dialect, argv)
  <2>1. {line[i] : i \in 1..Len(line)} \subseteq Heard(dialect, argv)
    BY <1>1, <1>2, <1>7, HeardAtLeast DEF line, flags
  <2> QED BY <2>1
<1> DEFINE heard == Heard(dialect, argv)
<1> HIDE DEF heard
<1>9. \A i \in 1..Len(line) : line[i] \in heard BY <1>8 DEF heard
<1>10. ASSUME dialect = "claude" PROVE {"model", "effort", "client_args"} \subseteq heard
  <2>1. Len(line) = 6 /\ line[2] = "model" /\ line[3] = "effort" /\ line[6] = "client_args" BY <1>3, <1>10
  <2> QED BY <1>9, <2>1
<1>11. ASSUME dialect = "codex" PROVE {"model", "effort", "client_args"} \subseteq heard
  <2>1. Len(line) = 7 /\ line[3] = "model" /\ line[4] = "effort" /\ line[6] = "client_args" BY <1>4, <1>11
  <2> QED BY <1>9, <2>1
<1>12. ASSUME dialect = "cursor" PROVE {"--trust", "model", "effort", "client_args", "prompt"} \subseteq heard
  <2>1. /\ Len(line) = 6 /\ line[1] = "--trust" /\ line[2] = "model" /\ line[3] = "effort"
        /\ line[5] = "client_args" /\ line[6] = "prompt"
    BY <1>5, <1>12
  <2> QED BY <1>9, <2>1
<1>13. ASSUME dialect = "vibe" PROVE {"prompt", "--yolo", "client_args"} \subseteq heard
  <2>1. Len(line) = 5 /\ line[1] = "prompt" /\ line[3] = "--yolo" /\ line[5] = "client_args" BY <1>6, <1>13
  <2> QED BY <1>9, <2>1
<1> QED BY <1>10, <1>11, <1>12, <1>13 DEF heard

LEMMA TheCallReaches ==
  ASSUME dialect \in Dialect, grants \subseteq GRANTS, ArgvSound
  PROVE  CallReachesClient
<1> SUFFICES ASSUME dialectAt = "run"
    PROVE /\ grants \ (IF dialect = "cursor" THEN {"net"} ELSE {}) \subseteq Opened(dialect, Told)
          /\ {"model", "prompt", "client_args"} \subseteq Told
          /\ dialect # "vibe" => "effort" \in Told
  BY DEF CallReachesClient
<1>1. /\ dialect \in {"claude", "codex"} => {"model", "effort", "client_args"} \subseteq Heard(dialect, argv)
      /\ dialect = "cursor" => {"--trust", "model", "effort", "client_args", "prompt"} \subseteq Heard(dialect, argv)
      /\ dialect = "vibe" => {"prompt", "--yolo", "client_args"} \subseteq Heard(dialect, argv)
  BY HeardFrom DEF ArgvSound
<1>2. Heard(dialect, argv) \cup StdinPayload(dialect) \cup ExtraRunEnv(dialect)
        \cup BuildGrants(dialect, grants) = Told
  BY DEF Told
<1>3. {"model", "prompt", "client_args"} \subseteq Told /\ (dialect # "vibe" => "effort" \in Told)
  BY <1>1, <1>2 DEF StdinPayload, ExtraRunEnv, Dialect
<1>4. BuildGrants(dialect, grants) \subseteq Told BY <1>2
<1>5. \A door, tokens : <<door, tokens>> \in Needs(dialect) /\ tokens \subseteq Told => door \in Opened(dialect, Told)
  BY OpenedHas
<1>6. \A rules : Opening(rules, grants) \subseteq Told =>
        \A door \in grants : \A token : <<door, token>> \in rules => token \in Told
  BY OpeningHas
<1> DEFINE open == Opened(dialect, Told)
<1> HIDE DEF Told, open
<1>7. CASE dialect = "claude"
  <2> DEFINE rules == {<<"read", "Read">>, <<"shell", "Bash">>, <<"net", "WebFetch">>, <<"web-search", "WebSearch">>}
  <2>1. {"Write", "Edit"} \subseteq Told /\ Opening(rules, grants) \subseteq Told
    BY <1>4, <1>7 DEF BuildGrants, ClaudeGrants
  <2>2. \A door \in grants : \A token : <<door, token>> \in rules => token \in Told BY <1>6, <2>1
  <2>3. /\ "read" \in grants => "Read" \in Told
        /\ "shell" \in grants => "Bash" \in Told
        /\ "net" \in grants => "WebFetch" \in Told
        /\ "web-search" \in grants => "WebSearch" \in Told
    BY <2>2
  <2> HIDE DEF rules
  <2>4. /\ <<"write", {"Write", "Edit"}>> \in Needs(dialect) /\ <<"read", {"Read"}>> \in Needs(dialect)
        /\ <<"shell", {"Bash"}>> \in Needs(dialect) /\ <<"net", {"WebFetch"}>> \in Needs(dialect)
        /\ <<"web-search", {"WebSearch"}>> \in Needs(dialect)
    BY <1>7 DEF Needs
  <2>5. "write" \in open BY <1>5, <2>1, <2>4 DEF open
  <2>6. "read" \in grants => "read" \in open BY <1>5, <2>3, <2>4 DEF open
  <2>7. "shell" \in grants => "shell" \in open BY <1>5, <2>3, <2>4 DEF open
  <2>8. "net" \in grants => "net" \in open BY <1>5, <2>3, <2>4 DEF open
  <2>9. "web-search" \in grants => "web-search" \in open BY <1>5, <2>3, <2>4 DEF open
  <2>10. grants \subseteq open BY <2>5, <2>6, <2>7, <2>8, <2>9 DEF GRANTS
  <2> QED BY <1>3, <1>7, <2>10 DEF open
<1>8. CASE dialect = "codex"
  <2> DEFINE rules == {<<"web-search", "web_search">>, <<"net", "network_access">>}
  <2>1. "workspace-write" \in Told /\ Opening(rules, grants) \subseteq Told
    BY <1>4, <1>8 DEF BuildGrants, CodexGrants
  <2>2. \A door \in grants : \A token : <<door, token>> \in rules => token \in Told BY <1>6, <2>1
  <2>3. /\ "web-search" \in grants => "web_search" \in Told
        /\ "net" \in grants => "network_access" \in Told
    BY <2>2
  <2> HIDE DEF rules
  <2>4. /\ <<"write", {"workspace-write"}>> \in Needs(dialect) /\ <<"read", {"workspace-write"}>> \in Needs(dialect)
        /\ <<"shell", {"workspace-write"}>> \in Needs(dialect) /\ <<"web-search", {"web_search"}>> \in Needs(dialect)
        /\ <<"net", {"workspace-write", "network_access"}>> \in Needs(dialect)
    BY <1>8 DEF Needs
  <2>5. {"write", "read", "shell"} \subseteq open BY <1>5, <2>1, <2>4 DEF open
  <2>8. "net" \in grants => "net" \in open BY <1>5, <2>1, <2>3, <2>4 DEF open
  <2>9. "web-search" \in grants => "web-search" \in open BY <1>5, <2>3, <2>4 DEF open
  <2>10. grants \subseteq open BY <2>5, <2>8, <2>9 DEF GRANTS
  <2> QED BY <1>3, <1>8, <2>10 DEF open
<1>9. CASE dialect = "cursor"
  <2> DEFINE rules == {<<"read", "Read">>, <<"shell", "Shell">>, <<"net", "Shell">>, <<"net", "WebFetch">>,
                       <<"web-search", "WebFetch">>}
  <2>1. {"Write", "--trust"} \subseteq Told /\ Opening(rules, grants) \subseteq Told
    BY <1>1, <1>2, <1>4, <1>9 DEF BuildGrants, CursorGrants
  <2>2. \A door \in grants : \A token : <<door, token>> \in rules => token \in Told BY <1>6, <2>1
  <2>3. /\ "read" \in grants => "Read" \in Told
        /\ "shell" \in grants => "Shell" \in Told
        /\ "web-search" \in grants => "WebFetch" \in Told
    BY <2>2
  <2> HIDE DEF rules
  <2>4. /\ <<"write", {"Write", "--trust"}>> \in Needs(dialect) /\ <<"read", {"Read"}>> \in Needs(dialect)
        /\ <<"shell", {"Shell"}>> \in Needs(dialect) /\ <<"web-search", {"WebFetch"}>> \in Needs(dialect)
    BY <1>9 DEF Needs
  <2>5. "write" \in open BY <1>5, <2>1, <2>4 DEF open
  <2>6. "read" \in grants => "read" \in open BY <1>5, <2>3, <2>4 DEF open
  <2>7. "shell" \in grants => "shell" \in open BY <1>5, <2>3, <2>4 DEF open
  <2>9. "web-search" \in grants => "web-search" \in open BY <1>5, <2>3, <2>4 DEF open
  <2>10. grants \ {"net"} \subseteq open BY <2>5, <2>6, <2>7, <2>9 DEF GRANTS
  <2> QED BY <1>3, <1>9, <2>10 DEF open
<1>10. CASE dialect = "vibe"
  <2>1. "--yolo" \in Told BY <1>1, <1>2, <1>10
  <2>2. Needs(dialect) = {<<door, {"--yolo"}>> : door \in GRANTS} BY <1>10 DEF Needs
  <2>3. \A g \in grants : <<g, {"--yolo"}>> \in Needs(dialect) BY <2>2
  <2>4. \A g \in grants : g \in open BY <1>5, <2>1, <2>3 DEF open
  <2> QED BY <1>3, <1>10, <2>4 DEF open
<1> QED BY <1>7, <1>8, <1>9, <1>10 DEF Dialect

-----------------------------------------------------------------------------
(* The steps of a call.                                                    *)

LEMMA DialectBegins == DialectInit => DialectInv
<1> SUFFICES ASSUME DialectInit PROVE DialectInv OBVIOUS
<1>1. /\ dialect = "claude" /\ grants = {} /\ configHome = <<>> /\ argv = <<>>
      /\ dialectAt = "configure" /\ stdout = <<>> /\ feed = {} /\ lifted = NothingLifted
  BY DEF DialectInit
<1>2. stdout \in Seq(Printed) /\ Len(stdout) = 0 BY <1>1
<1>3. lifted \in Lifted /\ lifted.answer = 0 /\ lifted.usage = 0 /\ lifted.how = "none"
  BY <1>1 DEF NothingLifted, Lifted
<1>4. MaxEvents \in Nat BY DialectAssumption
<1>5. DialectTypeOK
  <2>1. DOMAIN configHome = {} BY <1>1
  <2> QED BY <1>1, <1>2, <1>3, <1>4, <2>1 DEF DialectTypeOK, Dialect
<1>6. StdoutSound /\ HomeSound /\ ArgvSound /\ BeforeTheRun /\ AnswerIsTheLast
  BY <1>1, <1>2, <1>3 DEF StdoutSound, HomeSound, ArgvSound, BeforeTheRun, AnswerIsTheLast
<1> QED BY <1>3, <1>5, <1>6 DEF DialectInv

ConfigFile == {"settings.json", "config.toml", "cli-config.json", "auth.json", "settings.local.json", "credentials",
               ".claude.json"}

LEMMA WriteConfigSound ==
  ASSUME DialectInv, WriteConfig
  PROVE  DialectInv'
<1>1. /\ dialectAt = "configure" /\ dialectAt' = "seed" /\ dialect' \in Dialect /\ grants' \in GrantSets
      /\ configHome' = IF dialect' = "vibe" THEN <<>> ELSE [f \in {GrantsFile[dialect']} |-> "ours"]
      /\ argv' = argv /\ stdout' = stdout /\ feed' = feed /\ lifted' = lifted
  BY DEF WriteConfig
<1>2. stdout = <<>> /\ lifted = NothingLifted /\ lifted.how = "none" /\ grants' \subseteq GRANTS
  BY <1>1, DialectAssumption DEF DialectInv, BeforeTheRun, NothingLifted
<1>3. Len(stdout) = 0 BY <1>2
<1>4. DOMAIN configHome' \subseteq ConfigFile
  BY <1>1 DEF Dialect, GrantsFile, ConfigFile
<1>5. DialectTypeOK' BY <1>1, <1>2, <1>4 DEF DialectInv, DialectTypeOK, ConfigFile
<1>6. StdoutSound' BY <1>1, <1>3 DEF DialectInv, StdoutSound
<1>7. HomeSound' BY <1>1 DEF HomeSound
<1>8. ArgvSound' /\ BeforeTheRun' /\ AnswerIsTheLast' /\ lifted' \in Lifted
  BY <1>1, <1>2 DEF DialectInv, ArgvSound, BeforeTheRun, AnswerIsTheLast
<1> QED BY <1>5, <1>6, <1>7, <1>8 DEF DialectInv

LEMMA SeedSound ==
  ASSUME DialectInv, SeedCredentials
  PROVE  DialectInv'
<1>1. PICK copied \in {{}, TokenFiles(dialect)} :
        configHome' = [f \in DOMAIN configHome \cup copied |-> IF f \in copied THEN "users" ELSE configHome[f]]
  BY DEF SeedCredentials
<1>2. /\ dialectAt = "seed" /\ dialectAt' = "command"
      /\ UNCHANGED <<dialect, grants, argv, stdout, feed, lifted>>
  BY DEF SeedCredentials
<1>3. stdout = <<>> /\ lifted = NothingLifted /\ lifted.how = "none" /\ dialect \in Dialect
  BY <1>2 DEF DialectInv, BeforeTheRun, NothingLifted, DialectTypeOK
<1>4. copied \subseteq {"auth.json", "credentials", ".claude.json"}
  BY <1>1 DEF TokenFiles, ClaudeTokenFiles, CodexTokenFiles
<1>5. DialectTypeOK'
  <2>1. DOMAIN configHome' = DOMAIN configHome \cup copied BY <1>1
  <2> QED BY <1>2, <1>4, <2>1 DEF DialectInv, DialectTypeOK
<1>6. HomeSound'
  <2> SUFFICES ASSUME dialect # "vibe"
      PROVE /\ GrantsFile[dialect] \in DOMAIN configHome' /\ configHome'[GrantsFile[dialect]] = "ours"
            /\ "settings.local.json" \notin DOMAIN configHome'
    BY <1>2 DEF HomeSound
  <2>1. GrantsFile[dialect] \in {"settings.json", "config.toml", "cli-config.json"}
    BY <1>3 DEF Dialect, GrantsFile
  <2>2. configHome = [f \in {GrantsFile[dialect]} |-> "ours"] BY <1>2 DEF DialectInv, HomeSound
  <2> QED BY <1>1, <1>4, <2>1, <2>2
<1>7. StdoutSound' BY <1>2 DEF DialectInv, StdoutSound
<1>8. ArgvSound' /\ BeforeTheRun' /\ AnswerIsTheLast' /\ lifted' \in Lifted
  BY <1>2, <1>3 DEF DialectInv, ArgvSound, BeforeTheRun, AnswerIsTheLast
<1> QED BY <1>5, <1>6, <1>7, <1>8 DEF DialectInv

LEMMA LaunchSound ==
  ASSUME DialectInv, LaunchClient
  PROVE  DialectInv'
<1>1. /\ dialectAt = "command" /\ dialectAt' = "run" /\ feed' \in {{}, {"run.start"}}
      /\ \E paths \in ReadAccessArgv(dialect) : argv' = BuildArgv(dialect) \o paths \o GrantArgv(dialect, grants)
      /\ UNCHANGED <<dialect, grants, configHome, stdout, lifted>>
  BY DEF LaunchClient
<1>2. stdout = <<>> /\ lifted = NothingLifted /\ lifted.how = "none"
  BY <1>1 DEF DialectInv, BeforeTheRun, NothingLifted
<1>3. DialectTypeOK' BY <1>1 DEF DialectInv, DialectTypeOK, Feed
<1>4. StdoutSound' /\ HomeSound' BY <1>1 DEF DialectInv, StdoutSound, HomeSound
<1>5. ArgvSound' BY <1>1 DEF ArgvSound
<1>6. BeforeTheRun' /\ AnswerIsTheLast' /\ lifted' \in Lifted
  BY <1>1, <1>2 DEF DialectInv, BeforeTheRun, AnswerIsTheLast
<1> QED BY <1>3, <1>4, <1>5, <1>6 DEF DialectInv

\* The call is over without an answer.
LEMMA NoAnswerSound ==
  ASSUME DialectInv, dialectAt # "over", dialectAt' = "over", NEW how \in {"not_found", "timeout"},
         lifted' = [lifted EXCEPT !.how = how],
         UNCHANGED <<dialect, grants, configHome, argv, stdout, feed>>
  PROVE  DialectInv'
<1>1. lifted = NothingLifted /\ lifted \in Lifted BY DEF DialectInv, BeforeTheRun
<1>2. lifted' \in Lifted /\ lifted'.how = how /\ lifted'.answer = lifted.answer /\ lifted'.usage = lifted.usage
  BY <1>1 DEF Lifted
<1>3. DialectTypeOK' BY <1>2 DEF DialectInv, DialectTypeOK
<1>4. StdoutSound' /\ HomeSound' /\ ArgvSound' BY DEF DialectInv, StdoutSound, HomeSound, ArgvSound
<1>5. BeforeTheRun' BY DEF BeforeTheRun
<1>6. AnswerIsTheLast' BY <1>2 DEF AnswerIsTheLast
<1> QED BY <1>2, <1>3, <1>4, <1>5, <1>6 DEF DialectInv

LEMMA PrintSound ==
  ASSUME DialectInv, PrintEvent
  PROVE  DialectInv'
<1>1. PICK line \in Prints(dialect) :
        /\ stdout' = Append(stdout, line)
        /\ feed' = IF feed = {} THEN feed ELSE feed \cup StreamEvent(dialect, line.kind)
  BY DEF PrintEvent, Prints
<1>2. /\ dialectAt = "run" /\ Len(stdout) < MaxEvents /\ (dialect = "vibe" \/ ~Finished)
      /\ UNCHANGED <<dialect, grants, configHome, argv, dialectAt, lifted>>
  BY DEF PrintEvent
<1> DEFINE n == Len(stdout)
<1>3. /\ stdout \in Seq(Printed) /\ n \in Nat /\ MaxEvents \in Nat /\ dialect \in Dialect
      /\ lifted = NothingLifted /\ lifted.answer = 0 /\ lifted.usage = 0 /\ lifted.how = "none"
  BY <1>2, DialectAssumption DEF DialectInv, StdoutSound, DialectTypeOK, BeforeTheRun, NothingLifted
<1>4. line \in Printed BY <1>3, TextLines
<1>5. /\ stdout' \in Seq(Printed) /\ Len(stdout') = n + 1 /\ stdout'[n + 1] = line
      /\ \A i \in 1..n : stdout'[i] = stdout[i]
  BY <1>1, <1>3, <1>4
<1>6. StreamEvent(dialect, line.kind) \subseteq Feed
  <2>1. \A kinds : /\ Opening(ClaudeEvents, kinds) \subseteq Feed /\ Opening(CodexEvents, kinds) \subseteq Feed
                   /\ Opening(CursorEvents, kinds) \subseteq Feed
    BY DEF Opening, ClaudeEvents, CodexEvents, CursorEvents, Feed
  <2> QED BY <1>3, <2>1 DEF StreamEvent, Dialect
<1> HIDE DEF n
<1>7. DialectTypeOK'
  <2>1. feed' \subseteq Feed BY <1>1, <1>6 DEF DialectInv, DialectTypeOK
  <2>2. Len(stdout') <= MaxEvents BY <1>2, <1>3, <1>5 DEF n
  <2>3. lifted'.answer \in 0..Len(stdout') /\ lifted'.usage \in 0..Len(stdout') BY <1>2, <1>3, <1>5
  <2> QED BY <1>2, <2>1, <2>2, <2>3 DEF DialectInv, DialectTypeOK
<1>8. StdoutSound'
  <2>1. \A i \in 1..n : stdout[i] \in Prints(dialect) BY DEF DialectInv, StdoutSound, n
  <2>2. dialect # "vibe" => \A i \in 1..n : stdout[i] \notin AtTheEnd(dialect)
    <3> SUFFICES ASSUME dialect # "vibe", NEW i \in 1..n PROVE stdout[i] \notin AtTheEnd(dialect) OBVIOUS
    <3>1. CASE i < n BY <3>1 DEF DialectInv, StdoutSound, n
    <3>2. CASE i = n
      <4>1. stdout # <<>> BY <1>3, <3>2 DEF n
      <4> QED BY <1>2, <3>2, <4>1 DEF Finished, n
    <3> QED BY <1>3, <3>1, <3>2
  <2>3. \A i \in 1..(n + 1) : i \in 1..n \/ i = n + 1 BY <1>3
  <2>4. \A i \in 1..(n + 1) : i < n + 1 => i \in 1..n BY <1>3
  <2>5. \A i \in 1..Len(stdout') : stdout'[i] \in Prints(dialect)' BY <1>2, <1>5, <2>1, <2>3 DEF Prints
  <2>6. dialect' # "vibe" => \A i \in 1..Len(stdout') : i < Len(stdout') => stdout'[i] \notin AtTheEnd(dialect)'
    BY <1>2, <1>5, <2>2, <2>4
  <2> QED BY <1>5, <2>5, <2>6 DEF StdoutSound
<1>9. HomeSound' /\ ArgvSound' BY <1>2 DEF DialectInv, HomeSound, ArgvSound
<1>10. BeforeTheRun' /\ AnswerIsTheLast' /\ lifted' \in Lifted
  BY <1>2, <1>3 DEF DialectInv, BeforeTheRun, AnswerIsTheLast
<1> QED BY <1>7, <1>8, <1>9, <1>10 DEF DialectInv

\* A client that ended well has finished its output.
LEMMA AnswerSound ==
  ASSUME DialectInv, dialectAt = "run", NEW how \in {"success", "failed"}, NEW whole \in BOOLEAN, Answered(how, whole),
         how = "success" => Finished /\ whole = TRUE
  PROVE  DialectInv'
<1> DEFINE parsed == ParseOutput(whole)
<1>1. /\ dialectAt' = "over" /\ lifted' = [answer |-> parsed.answer, usage |-> parsed.usage, how |-> how]
      /\ feed' = IF feed = {} THEN feed ELSE feed \cup {"run.end"}
      /\ UNCHANGED <<dialect, grants, configHome, argv, stdout>>
  BY DEF Answered
<1>2. dialect \in Dialect /\ StdoutSound /\ Len(stdout) \in Nat BY DEF DialectInv, DialectTypeOK, StdoutSound
<1>3. parsed.answer \in 0..Len(stdout) /\ parsed.usage \in 0..Len(stdout) BY <1>2, ParsedIsThere
<1>4. how = "success" =>
        LET answers == {i \in DOMAIN stdout : stdout[i].text}
        IN  /\ parsed.answer \in {0, LastOf(answers)} \/ stdout[LastOf(answers)].torn
            /\ parsed.answer = 0 => parsed.usage = 0 /\
                 (answers # {} => \E i \in DOMAIN stdout : stdout[i].torn \/ stdout[i] = Noise)
  BY <1>2, ParsedIsTheLast
<1> HIDE DEF parsed
<1>5. lifted' \in Lifted /\ lifted'.answer = parsed.answer /\ lifted'.usage = parsed.usage /\ lifted'.how = how
  BY <1>1, <1>2, <1>3 DEF Lifted
<1>6. DialectTypeOK'
  <2>1. feed' \subseteq Feed BY <1>1 DEF DialectInv, DialectTypeOK, Feed
  <2> QED BY <1>1, <1>3, <1>5, <2>1 DEF DialectInv, DialectTypeOK
<1>7. StdoutSound' /\ HomeSound' /\ ArgvSound' /\ BeforeTheRun'
  BY <1>1 DEF DialectInv, StdoutSound, HomeSound, ArgvSound, BeforeTheRun
<1>8. AnswerIsTheLast' BY <1>1, <1>4, <1>5 DEF AnswerIsTheLast
<1> QED BY <1>5, <1>6, <1>7, <1>8 DEF DialectInv

LEMMA DialectStep == DialectInv /\ [DialectNext]_dialectVars => DialectInv'
<1> SUFFICES ASSUME DialectInv, [DialectNext]_dialectVars PROVE DialectInv' OBVIOUS
<1>1. CASE WriteConfig BY <1>1, WriteConfigSound
<1>2. CASE SeedCredentials BY <1>2, SeedSound
<1>3. CASE LaunchClient BY <1>3, LaunchSound
<1>4. CASE ExecutableMissing BY <1>4, NoAnswerSound DEF ExecutableMissing
<1>5. CASE PrintEvent BY <1>5, PrintSound
<1>6. CASE ClientExits BY <1>6, AnswerSound DEF ClientExits
<1>7. CASE ClientBreaksOff BY <1>7, AnswerSound DEF ClientBreaksOff
<1>8. CASE ClientTimesOut BY <1>8, NoAnswerSound DEF ClientTimesOut
<1>9. CASE UNCHANGED dialectVars
  BY <1>9 DEF dialectVars, DialectInv, DialectTypeOK, StdoutSound, HomeSound, ArgvSound, BeforeTheRun, AnswerIsTheLast
<1> QED BY <1>1, <1>2, <1>3, <1>4, <1>5, <1>6, <1>7, <1>8, <1>9 DEF DialectNext

\* A call in a dialect and what was lifted of its output keep their shape.
THEOREM DialectTypes == DialectSpec => []DialectTypeOK
<1>1. DialectInv => DialectTypeOK BY DEF DialectInv
<1> QED BY <1>1, DialectBegins, DialectStep, PTL DEF DialectSpec

\* For every dialect, every order of the lines a client prints, torn ones included, and
\* however the client ends (the translators of claude, codex, cursor and vibe): the
\* client is asked what the caller asked, opens the doors that were granted, and the
\* answer and the usage are those of the last turn.
THEOREM TranslatorsAreRight == DialectSpec => []CallIsTranslated
<1>1. DialectInv => CallIsTranslated
  <2> SUFFICES ASSUME DialectInv PROVE CallIsTranslated OBVIOUS
  <2>1. CallReachesClient BY TheCallReaches DEF DialectInv, DialectTypeOK
  <2>2. OurGrantsGovern BY DEF DialectInv, HomeSound, OurGrantsGovern
  <2> QED BY <2>1, <2>2 DEF DialectInv, CallIsTranslated
<1> QED BY <1>1, DialectBegins, DialectStep, PTL DEF DialectSpec

-----------------------------------------------------------------------------
(* CallIdentity.  What is stored under a key came of a call and of editions*)
(* that have that key; and two calls have one key only if they mean the    *)
(* same, but for the four confusions that are named.                       *)

\* What was found of a call's files: those it declares, and only if it is one that keys them.
FoundFor(call, found) ==
  /\ found \in [DOMAIN found -> 0..MaxEdits]
  /\ DOMAIN found \subseteq Document
  /\ DOMAIN found \subseteq IF call.kind = "local_managed" THEN call.documents ELSE {}
AllFoundFor(call, found) ==
  /\ FoundFor(call, found)
  /\ call.kind = "local_managed" => DOMAIN found = call.documents

\* An entry: a cacheable call had this key, and read what it had fingerprinted unless that
\* was edited.
EntrySound(key, entry) ==
  /\ entry.call \in CallsMade /\ ~IsUncacheable(entry.call)
  /\ \E found \in [DOMAIN entry.read -> 0..MaxEdits] :
       /\ AllFoundFor(entry.call, found)
       /\ key = GenerateKey(BuildIdentity(entry.call, found))
       /\ entry.row = Serialize(BuildIdentity(entry.call, found))
       /\ entry.read = found \/ entry.edited

\* What a caller is served fits its call.
ServedFits(one) ==
  /\ Meaning(one.served.call) = Meaning(one.call) \/ Confusable(one.served.call, one.call)
  /\ one.served.read = one.found \/ one.served.edited
  /\ one.served.call.kind = "local_managed" /\ one.served.call.folders # {} => one.served.call.scan_trust

CallerSound(one) ==
  /\ one.at \in {"idle", "fingerprint", "keyed", "run", "over"}
  /\ one.outcome \in {"none", "refused", "hit", "recorded", "bypassed",
                      "probed_hit", "probed_miss", "probed_non_cacheable"}
  /\ one.at # "over" => one.outcome = "none"
  /\ one.at = "idle" => one.found = <<>>
  /\ one.at # "idle" => one.call \in CallsMade /\ FoundFor(one.call, one.found)
  /\ one.at \in {"keyed", "run"} => AllFoundFor(one.call, one.found)
  /\ one.outcome = "hit" => ServedFits(one)

IdentityInv ==
  /\ edition \in [Document -> 0..MaxEdits]
  /\ DOMAIN caller = Caller
  /\ \A c \in Caller : /\ DOMAIN caller[c] = {"at", "call", "found", "outcome", "served"}
                        /\ CallerSound(caller[c])
  /\ \A key \in DOMAIN entries : EntrySound(key, entries[key])

-----------------------------------------------------------------------------
(* Identities and keys.                                                    *)

LEMMA JsonableKeepsAll ==
  ASSUME NEW S, IsFiniteSet(S) PROVE Elements(Jsonable(S)) = S
<1>1. \E list \in [1..Cardinality(S) -> S] : Elements(list) = S
  <2>1. PICK f : f \in Bijection(1..Cardinality(S), S) BY FS_CardinalityType DEF ExistsBijection
  <2>2. f \in [1..Cardinality(S) -> S] /\ \A x \in S : \E i \in 1..Cardinality(S) : f[i] = x
    BY <2>1 DEF Bijection, Surjection
  <2>3. Elements(f) = S BY <2>2 DEF Elements
  <2> QED BY <2>2, <2>3
<1> QED BY <1>1 DEF Jsonable

LEMMA ElementsConcat ==
  ASSUME NEW S, NEW s \in Seq(S), NEW t \in Seq(S)
  PROVE  Elements(s \o t) = Elements(s) \cup Elements(t)
<1>1. /\ s \o t \in Seq(S) /\ Len(s \o t) = Len(s) + Len(t)
      /\ \A i \in 1..(Len(s) + Len(t)) : (s \o t)[i] = IF i <= Len(s) THEN s[i] ELSE t[i - Len(s)]
  BY ConcatProperties
<1>2. DOMAIN (s \o t) = 1..(Len(s) + Len(t)) /\ DOMAIN s = 1..Len(s) /\ DOMAIN t = 1..Len(t)
      /\ Len(s) \in Nat /\ Len(t) \in Nat
  BY <1>1
<1>3. ASSUME NEW x \in Elements(s \o t) PROVE x \in Elements(s) \cup Elements(t)
  <2>1. PICK i \in 1..(Len(s) + Len(t)) : x = (s \o t)[i] BY <1>2 DEF Elements
  <2>2. CASE i <= Len(s) BY <1>1, <1>2, <2>1, <2>2 DEF Elements
  <2>3. CASE i > Len(s)
    <3>1. i - Len(s) \in 1..Len(t) BY <1>2, <2>3
    <3>2. x = t[i - Len(s)] BY <1>1, <1>2, <2>1, <2>3
    <3> QED BY <1>2, <3>1, <3>2 DEF Elements
  <2> QED BY <1>2, <2>2, <2>3
<1>4. ASSUME NEW x \in Elements(s) PROVE x \in Elements(s \o t)
  <2>1. PICK i \in 1..Len(s) : x = s[i] BY <1>2 DEF Elements
  <2>2. i \in 1..(Len(s) + Len(t)) /\ (s \o t)[i] = x BY <1>1, <1>2, <2>1
  <2> QED BY <1>2, <2>2 DEF Elements
<1>5. ASSUME NEW x \in Elements(t) PROVE x \in Elements(s \o t)
  <2>1. PICK i \in 1..Len(t) : x = t[i] BY <1>2 DEF Elements
  <2>2. i + Len(s) \in 1..(Len(s) + Len(t)) /\ (s \o t)[i + Len(s)] = x BY <1>1, <1>2, <2>1
  <2> QED BY <1>2, <2>2 DEF Elements
<1> QED BY <1>3, <1>4, <1>5

\* The names of folders, joined, are the parts of these names.
LEMMA JoinKeepsTheParts ==
  ASSUME NEW F \in SUBSET Folder
  PROVE  Elements(JoinFolders(F)) = UNION {Elements(f) : f \in F}
<1> DEFINE P == {"docs", "src"}
           part(i) == IF Folders[i] \in F THEN Folders[i] ELSE <<>>
<1>1. Folders[1] = <<"docs">> /\ Folders[2] = <<"docs", "src">> /\ Folders[3] = <<"src">>
      /\ DOMAIN Folders = 1..3
  BY DEF Folders
<1>2. /\ <<"docs">> \in Seq(P) /\ <<"docs", "src">> \in Seq(P) /\ <<"src">> \in Seq(P) /\ <<>> \in Seq(P)
  OBVIOUS
<1>3. \A i \in 1..3 : Folders[i] \in Seq(P) BY <1>1, <1>2
<1>4. \A i \in 1..3 : part(i) \in Seq(P) BY <1>2, <1>3
<1>5. \A i \in 1..3 : Elements(part(i)) = IF Folders[i] \in F THEN Elements(Folders[i]) ELSE {}
  BY DEF Elements
<1>6. JoinFolders(F) = part(1) \o part(2) \o part(3) BY DEF JoinFolders
<1> HIDE DEF part, P
<1>7. part(1) \o part(2) \in Seq(P) BY <1>4, ConcatProperties
<1>8. Elements(JoinFolders(F)) = Elements(part(1)) \cup Elements(part(2)) \cup Elements(part(3))
  <2>1. part(1) \in Seq(P) /\ part(2) \in Seq(P) /\ part(3) \in Seq(P) BY <1>4
  <2>2. Elements(part(1) \o part(2)) = Elements(part(1)) \cup Elements(part(2))
    BY <2>1, ElementsConcat
  <2>3. Elements((part(1) \o part(2)) \o part(3)) = Elements(part(1) \o part(2)) \cup Elements(part(3))
    BY <1>7, <2>1, ElementsConcat
  <2> QED BY <1>6, <2>2, <2>3
<1>9. F \subseteq {Folders[1], Folders[2], Folders[3]} BY <1>1 DEF Folder
<1> DEFINE e1 == Elements(Folders[1])
           e2 == Elements(Folders[2])
           e3 == Elements(Folders[3])
<1> QED BY <1>5, <1>8, <1>9

LEMMA FilesTellEditions ==
  ASSUME NEW f, NEW g, f \in [DOMAIN f -> 0..MaxEdits], g \in [DOMAIN g -> 0..MaxEdits],
         FileFingerprints(f) = FileFingerprints(g)
  PROVE  f = g
<1>1. \A d \in DOMAIN f : <<"file", d, f[d]>> \in FileFingerprints(g) BY DEF FileFingerprints
<1>2. \A d \in DOMAIN g : <<"file", d, g[d]>> \in FileFingerprints(f) BY DEF FileFingerprints
<1>3. \A d \in DOMAIN f : d \in DOMAIN g /\ f[d] = g[d] BY <1>1 DEF FileFingerprints
<1>4. \A d \in DOMAIN g : d \in DOMAIN f BY <1>2 DEF FileFingerprints
<1>5. DOMAIN f = DOMAIN g BY <1>3, <1>4
<1> QED BY <1>3, <1>5

\* Equal keys come of equal editions, and of calls that mean the same or are confused.
LEMMA SameKeySameCall ==
  ASSUME NEW a \in CallsMade, NEW b \in CallsMade, NEW f, NEW g, AllFoundFor(a, f), AllFoundFor(b, g),
         GenerateKey(BuildIdentity(a, f)) = GenerateKey(BuildIdentity(b, g))
  PROVE  f = g /\ (Meaning(a) = Meaning(b) \/ Confusable(a, b))
<1>1. a \in Calls /\ b \in Calls BY IdentityAssumption
<1>2. a.kind \in Kind /\ b.kind \in Kind BY <1>1 DEF Calls
<1> DEFINE ia == BuildIdentity(a, f)
           ib == BuildIdentity(b, g)
           ka == GenerateKey(ia)
           kb == GenerateKey(ib)
<1>3. ASSUME NEW c \in CallsMade, NEW h, c.kind = "local_managed"
      PROVE  LET k == GenerateKey(BuildIdentity(c, h))
             IN  /\ k.kind = c.kind /\ k.model = c.model /\ k.files = FileFingerprints(h)
                 /\ k.args = c.args /\ k.system = Optional("system", c.system) /\ k.grants = c.grants
                 /\ k.folders = JoinFolders(c.folders)
  BY <1>3 DEF BuildIdentity, Managed, GenerateKey, FingerprintArguments
<1>4. ASSUME NEW c \in CallsMade, NEW h, c.kind = "api"
      PROVE  GenerateKey(BuildIdentity(c, h)) =
               [kind |-> c.kind, model |-> c.model, system |-> Optional("system", c.system)]
  BY <1>4 DEF BuildIdentity, GenerateKey
<1>5. ASSUME NEW c \in CallsMade, NEW h, c.kind = "local_passthrough"
      PROVE  GenerateKey(BuildIdentity(c, h)) = [kind |-> c.kind, native |-> FingerprintArguments(c.native)]
  BY <1>5 DEF BuildIdentity, GenerateKey
<1>6. ASSUME NEW c \in CallsMade, NEW h, c.kind = "api_passthrough"
      PROVE  GenerateKey(BuildIdentity(c, h)) = [kind |-> c.kind, native |-> c.native]
  BY <1>6 DEF BuildIdentity, GenerateKey
<1>7. ka.kind = a.kind /\ kb.kind = b.kind BY <1>2, <1>3, <1>4, <1>5, <1>6 DEF Kind
<1>8. ka = kb /\ a.kind = b.kind BY <1>7
<1>9. CASE a.kind = "local_managed"
  <2>1. FileFingerprints(f) = FileFingerprints(g) /\ JoinFolders(a.folders) = JoinFolders(b.folders)
        /\ a.model = b.model /\ a.args = b.args /\ a.grants = b.grants
        /\ Optional("system", a.system) = Optional("system", b.system)
    <3>1. /\ ka.files = FileFingerprints(f) /\ ka.folders = JoinFolders(a.folders)
          /\ ka.model = a.model /\ ka.args = a.args /\ ka.grants = a.grants
          /\ ka.system = Optional("system", a.system)
      BY <1>3, <1>9
    <3>2. /\ kb.files = FileFingerprints(g) /\ kb.folders = JoinFolders(b.folders)
          /\ kb.model = b.model /\ kb.args = b.args /\ kb.grants = b.grants
          /\ kb.system = Optional("system", b.system)
      BY <1>3, <1>8, <1>9
    <3> HIDE DEF ka, kb
    <3> QED BY <1>8, <3>1, <3>2
  <2>2. f = g BY <2>1, FilesTellEditions DEF AllFoundFor, FoundFor
  <2>3. a.documents = b.documents BY <1>8, <1>9, <2>2 DEF AllFoundFor
  <2>4. CASE a.folders = b.folders
    <3>1. Meaning(a) = Meaning(b) BY <1>8, <1>9, <2>1, <2>3, <2>4 DEF Meaning
    <3> QED BY <2>2, <3>1
  <2>5. CASE a.folders # b.folders
    <3>1. a.folders \subseteq Folder /\ b.folders \subseteq Folder BY <1>1 DEF Calls
    <3>2. UNION {Elements(n) : n \in a.folders} = UNION {Elements(n) : n \in b.folders}
      BY <2>1, <3>1, JoinKeepsTheParts
    <3> DEFINE c == [a EXCEPT !.folders = {}]
               d == [b EXCEPT !.folders = {}]
    <3>3. /\ c.kind = a.kind /\ c.model = a.model /\ c.system = a.system /\ c.documents = a.documents
          /\ c.folders = {} /\ c.args = a.args /\ c.grants = a.grants
      BY <1>1 DEF Calls
    <3>4. /\ d.kind = b.kind /\ d.model = b.model /\ d.system = b.system /\ d.documents = b.documents
          /\ d.folders = {} /\ d.args = b.args /\ d.grants = b.grants
      BY <1>1 DEF Calls
    <3> HIDE DEF c, d
    <3>5. Meaning(c) = Meaning(d) BY <1>8, <1>9, <2>1, <2>3, <3>3, <3>4 DEF Meaning
    <3> QED BY <1>9, <2>2, <2>5, <3>2, <3>5 DEF Confusable, c, d
  <2> QED BY <2>4, <2>5
<1>10. ASSUME a.kind # "local_managed" PROVE f = g
  <2>1. DOMAIN f = {} /\ DOMAIN g = {} BY <1>8, <1>10 DEF AllFoundFor, FoundFor
  <2> QED BY <2>1 DEF AllFoundFor, FoundFor
<1>11. CASE a.kind = "api"
  <2>1. a.model = b.model /\ Optional("system", a.system) = Optional("system", b.system)
    <3>1. ka.model = a.model /\ ka.system = Optional("system", a.system) BY <1>4, <1>11
    <3>0. b.kind = a.kind BY <1>8
    <3>2. kb.model = b.model /\ kb.system = Optional("system", b.system) BY <1>4, <1>11, <3>0
    <3> HIDE DEF ka, kb
    <3> QED BY <1>8, <3>1, <3>2
  <2>2. Meaning(a) = Meaning(b) BY <1>8, <1>11, <2>1 DEF Meaning
  <2> QED BY <1>10, <1>11, <2>2
<1>12. CASE a.kind = "api_passthrough"
  <2>1. a.native = b.native
    <3>1. ka.native = a.native BY <1>6, <1>12
    <3>0. b.kind = a.kind BY <1>8
    <3>2. kb.native = b.native BY <1>6, <1>12, <3>0
    <3> HIDE DEF ka, kb
    <3> QED BY <1>8, <3>1, <3>2
  <2>2. CASE a.headers = b.headers
    <3>1. Meaning(a) = Meaning(b) BY <1>8, <1>12, <2>1, <2>2 DEF Meaning
    <3> QED BY <1>10, <1>12, <3>1
  <2>3. CASE a.headers # b.headers BY <1>8, <1>10, <1>12, <2>1, <2>3 DEF Confusable
  <2> QED BY <2>2, <2>3
<1>13. CASE a.kind = "local_passthrough"
  <2>1. FingerprintArguments(a.native) = FingerprintArguments(b.native)
    <3>1. ka.native = FingerprintArguments(a.native) BY <1>5, <1>13
    <3>0. b.kind = a.kind BY <1>8
    <3>2. kb.native = FingerprintArguments(b.native) BY <1>5, <1>13, <3>0
    <3> HIDE DEF ka, kb
    <3> QED BY <1>8, <3>1, <3>2
  <2>2. CASE a.native = b.native
    <3>1. CASE a.cwd = b.cwd
      <4>1. Meaning(a) = Meaning(b) BY <1>8, <1>13, <2>2, <3>1 DEF Meaning
      <4> QED BY <1>10, <1>13, <4>1
    <3>2. CASE a.cwd # b.cwd BY <1>8, <1>10, <1>13, <2>2, <3>2 DEF Confusable
    <3> QED BY <3>1, <3>2
  <2>3. CASE a.native # b.native
    <3> DEFINE empty == <<"">>
    <3>1. FingerprintArguments(a.native) = (IF a.native = <<>> THEN empty ELSE a.native)
          /\ FingerprintArguments(b.native) = (IF b.native = <<>> THEN empty ELSE b.native)
      BY DEF FingerprintArguments
    <3> HIDE DEF empty
    <3>2. {a.native, b.native} = {<<>>, empty} BY <2>1, <2>3, <3>1
    <3> QED BY <1>8, <1>10, <1>13, <3>2 DEF Confusable, empty
  <2> QED BY <2>2, <2>3
<1> QED BY <1>2, <1>9, <1>11, <1>12, <1>13 DEF Kind

\* An identity is read back as it was stored.
LEMMA StoredIsReadBack ==
  ASSUME NEW call \in CallsMade, NEW found
  PROVE  Deserialize(Serialize(BuildIdentity(call, found))) = BuildIdentity(call, found)
<1> DEFINE id == BuildIdentity(call, found)
<1>1. call \in Calls BY IdentityAssumption
<1>2. CASE call.kind = "local_managed"
  <2> DEFINE files == FileFingerprints(found)
             args == IF call.args = <<>> THEN <<>> ELSE FingerprintArguments(call.args)
             system == Optional("system", call.system)
  <2>1. id = [kind |-> "local_managed", model |-> call.model, files |-> files, args |-> args,
              system |-> system, grants |-> call.grants, folders |-> call.folders]
    BY <1>2 DEF BuildIdentity, Managed
  <2>2. call.folders \subseteq Folder /\ call.grants \subseteq {"net", "read"} BY <1>1 DEF Calls
  <2>3. IsFiniteSet(Folder) /\ IsFiniteSet({"net", "read"})
    <3>1. Folder = {Folders[1], Folders[2], Folders[3]} BY DEF Folder, Folders
    <3>2. IsFiniteSet({Folders[1]}) /\ IsFiniteSet({Folders[2]}) /\ IsFiniteSet({Folders[3]})
          /\ IsFiniteSet({"net"}) /\ IsFiniteSet({"read"})
      BY FS_Singleton
    <3>3. IsFiniteSet(({Folders[1]} \cup {Folders[2]}) \cup {Folders[3]}) /\ IsFiniteSet({"net"} \cup {"read"})
      BY <3>2, FS_Union
    <3>4. Folder = ({Folders[1]} \cup {Folders[2]}) \cup {Folders[3]} /\ {"net", "read"} = {"net"} \cup {"read"}
      BY <3>1
    <3> QED BY <3>3, <3>4
  <2>4. IsFiniteSet(call.folders) /\ IsFiniteSet(call.grants) BY <2>2, <2>3, FS_Subset
  <2>5. Elements(Jsonable(call.folders)) = call.folders /\ Elements(Jsonable(call.grants)) = call.grants
    BY <2>4, JsonableKeepsAll
  <2> HIDE DEF files, args, system
  <2>6. /\ id = [x \in {"kind", "model", "files", "args", "system", "grants", "folders"} |-> id[x]]
        /\ id.folders = call.folders /\ id.grants = call.grants /\ id.kind = "local_managed"
    BY <2>1
  <2> HIDE DEF id
  <2> DEFINE row == Serialize(id)
  <2>7. row = [id EXCEPT !.folders = Jsonable(call.folders), !.grants = Jsonable(call.grants)]
    BY <2>6 DEF Serialize
  <2>8. /\ row = [x \in {"kind", "model", "files", "args", "system", "grants", "folders"} |-> row[x]]
        /\ row.folders = Jsonable(call.folders) /\ row.grants = Jsonable(call.grants)
        /\ \A x \in {"kind", "model", "files", "args", "system"} : row[x] = id[x]
    BY <2>6, <2>7
  <2> HIDE DEF row
  <2> DEFINE back == Deserialize(row)
  <2>9. back = [row EXCEPT !.folders = call.folders, !.grants = call.grants]
    BY <2>5, <2>6, <2>8 DEF Deserialize
  <2>10. /\ back = [x \in {"kind", "model", "files", "args", "system", "grants", "folders"} |-> back[x]]
         /\ \A x \in {"kind", "model", "files", "args", "system", "grants", "folders"} : back[x] = id[x]
    BY <2>6, <2>8, <2>9
  <2> HIDE DEF back
  <2>11. back = id BY <2>6, <2>10
  <2> QED BY <2>11 DEF back, row, id
<1>3. CASE call.kind # "local_managed"
  <2>1. id.kind # "local_managed" BY <1>1, <1>3 DEF BuildIdentity, Calls, Kind
  <2> HIDE DEF id
  <2> QED BY <2>1 DEF Serialize, Deserialize, id
<1> QED BY <1>2, <1>3

-----------------------------------------------------------------------------
(* Steps.                                                                  *)

LEMMA HitsSoundIfInv == IdentityInv => HitsAreSound
<1> SUFFICES ASSUME IdentityInv PROVE HitsAreSound OBVIOUS
<1>1. AnswerFitsTheCall BY DEF IdentityInv, CallerSound, ServedFits, AnswerFitsTheCall
<1>2. KeySurvivesStorage
  <2> SUFFICES ASSUME NEW key \in DOMAIN entries PROVE GenerateKey(Deserialize(entries[key].row)) = key
    BY DEF KeySurvivesStorage
  <2>1. EntrySound(key, entries[key]) BY DEF IdentityInv
  <2>2. PICK found : /\ key = GenerateKey(BuildIdentity(entries[key].call, found))
                     /\ entries[key].row = Serialize(BuildIdentity(entries[key].call, found))
    BY <2>1 DEF EntrySound
  <2>3. entries[key].call \in CallsMade BY <2>1 DEF EntrySound
  <2> QED BY <2>2, <2>3, StoredIsReadBack
<1> QED BY <1>1, <1>2 DEF HitsAreSound

LEMMA IdentityTypesIfInv == IdentityInv => IdentityTypeOK
BY DEF IdentityInv, IdentityTypeOK, CallerSound, FoundFor, EntrySound

LEMMA IdentityBegins == IdentityInit => IdentityInv
<1> SUFFICES ASSUME IdentityInit PROVE IdentityInv OBVIOUS
<1>1. edition \in [Document -> 0..MaxEdits] BY IdentityAssumption DEF IdentityInit
<1>2. /\ DOMAIN NoCall = {"at", "call", "found", "outcome", "served"}
      /\ NoCall.at = "idle" /\ NoCall.outcome = "none" /\ NoCall.found = <<>>
  BY DEF NoCall
<1>3. CallerSound(NoCall) BY <1>2 DEF CallerSound
<1>4. DOMAIN caller = Caller /\ \A c \in Caller : caller[c] = NoCall BY DEF IdentityInit
<1>5. DOMAIN entries = {} BY DEF IdentityInit
<1> QED BY <1>1, <1>2, <1>3, <1>4, <1>5 DEF IdentityInv

\* One caller changes, and nothing else.
LEMMA OnlyOneCaller ==
  ASSUME IdentityInv, NEW c \in Caller, NEW one, Change(c, one),
         DOMAIN one = {"at", "call", "found", "outcome", "served"}, CallerSound(one)
  PROVE  /\ DOMAIN caller' = Caller
         /\ \A d \in Caller : /\ DOMAIN caller'[d] = {"at", "call", "found", "outcome", "served"}
                              /\ CallerSound(caller'[d])
<1>1. DOMAIN caller' = Caller BY DEF IdentityInv, Change
<1>2. \A d \in Caller : caller'[d] = IF d = c THEN one ELSE caller[d] BY DEF IdentityInv, Change
<1> QED BY <1>1, <1>2 DEF IdentityInv

LEMMA OneCallerMoves ==
  ASSUME IdentityInv, NEW c \in Caller, NEW one, Change(c, one), UNCHANGED <<edition, entries>>,
         DOMAIN one = {"at", "call", "found", "outcome", "served"}, CallerSound(one)
  PROVE  IdentityInv'
<1>1. /\ DOMAIN caller' = Caller
      /\ \A d \in Caller : /\ DOMAIN caller'[d] = {"at", "call", "found", "outcome", "served"}
                           /\ CallerSound(caller'[d])
  BY OnlyOneCaller
<1>2. edition' \in [Document -> 0..MaxEdits] BY DEF IdentityInv
<1>3. \A key \in DOMAIN entries' : EntrySound(key, entries'[key]) BY DEF IdentityInv
<1> QED BY <1>1, <1>2, <1>3 DEF IdentityInv

LEMMA MakeCallStep == ASSUME IdentityInv, NEW c \in Caller, MakeCall(c) PROVE IdentityInv'
<1>1. PICK call \in CallsMade : Change(c, [NoCall EXCEPT !.at = "fingerprint", !.call = call]) BY DEF MakeCall
<1> DEFINE one == [NoCall EXCEPT !.at = "fingerprint", !.call = call]
<1>2. /\ DOMAIN one = {"at", "call", "found", "outcome", "served"}
      /\ one.at = "fingerprint" /\ one.call = call /\ one.found = <<>> /\ one.outcome = "none"
  BY DEF NoCall
<1>3. FoundFor(call, <<>>) BY DEF FoundFor
<1> HIDE DEF one
<1>4. CallerSound(one) BY <1>2, <1>3 DEF CallerSound
<1>5. Change(c, one) /\ UNCHANGED <<edition, entries>> BY <1>1 DEF MakeCall, one
<1> QED BY <1>2, <1>4, <1>5, OneCallerMoves

\* A call ends with an outcome that is no hit.
LEMMA EndSound ==
  ASSUME IdentityInv, NEW c \in Caller, caller[c].at # "idle",
         NEW ending \in {"refused", "recorded", "bypassed", "probed_hit", "probed_miss", "probed_non_cacheable"},
         NEW one, one = [caller[c] EXCEPT !.at = "over", !.outcome = ending]
  PROVE  DOMAIN one = {"at", "call", "found", "outcome", "served"} /\ CallerSound(one)
<1>1. DOMAIN caller[c] = {"at", "call", "found", "outcome", "served"} /\ CallerSound(caller[c]) BY DEF IdentityInv
<1>2. /\ DOMAIN one = {"at", "call", "found", "outcome", "served"}
      /\ one.at = "over" /\ one.outcome = ending /\ one.call = caller[c].call /\ one.found = caller[c].found
  BY <1>1
<1> QED BY <1>1, <1>2 DEF CallerSound

LEMMA FingerprintStep == ASSUME IdentityInv, NEW c \in Caller, Fingerprint(c) PROVE IdentityInv'
<1> DEFINE e == caller[c]
<1>1. DOMAIN e = {"at", "call", "found", "outcome", "served"} /\ CallerSound(e) BY DEF IdentityInv
<1>2. e.at = "fingerprint" /\ UNCHANGED <<edition, entries>> BY DEF Fingerprint
<1>3. e.outcome = "none" /\ e.call \in CallsMade /\ FoundFor(e.call, e.found) BY <1>1, <1>2 DEF CallerSound
<1>4. CASE ToFingerprint(c) = {}
  <2> DEFINE one == [e EXCEPT !.at = "keyed"]
  <2>1. Change(c, one) BY <1>4 DEF Fingerprint
  <2>2. /\ DOMAIN one = {"at", "call", "found", "outcome", "served"}
        /\ one.at = "keyed" /\ one.outcome = "none" /\ one.call = e.call /\ one.found = e.found
    BY <1>1, <1>3
  <2>3. AllFoundFor(e.call, e.found) BY <1>3, <1>4 DEF ToFingerprint, AllFoundFor, FoundFor
  <2> HIDE DEF one
  <2>4. CallerSound(one) BY <1>3, <2>2, <2>3 DEF CallerSound
  <2> QED BY <1>2, <2>1, <2>2, <2>4, OneCallerMoves
<1>5. ASSUME NEW d \in ToFingerprint(c),
             Change(c, [e EXCEPT !.found = [x \in DOMAIN @ \cup {d} |-> IF x = d THEN edition[d] ELSE @[x]]])
      PROVE  IdentityInv'
  <2> DEFINE found == [x \in DOMAIN e.found \cup {d} |-> IF x = d THEN edition[d] ELSE e.found[x]]
             one == [e EXCEPT !.found = found]
  <2>1. Change(c, one) BY <1>1, <1>5
  <2>2. e.call.kind = "local_managed" /\ d \in e.call.documents BY DEF ToFingerprint
  <2>3. d \in Document
    <3>1. e.call \in Calls BY <1>3, IdentityAssumption
    <3> QED BY <2>2, <3>1 DEF Calls
  <2>4. edition[d] \in 0..MaxEdits BY <2>3 DEF IdentityInv
  <2>5. e.found \in [DOMAIN e.found -> 0..MaxEdits] /\ DOMAIN e.found \subseteq Document \cap e.call.documents
    BY <1>3, <2>2 DEF FoundFor
  <2>6. DOMAIN found = DOMAIN e.found \cup {d} /\ found \in [DOMAIN e.found \cup {d} -> 0..MaxEdits]
    BY <2>4, <2>5
  <2> HIDE DEF found
  <2>7. FoundFor(e.call, found) BY <2>2, <2>3, <2>5, <2>6 DEF FoundFor
  <2>8. /\ DOMAIN one = {"at", "call", "found", "outcome", "served"}
        /\ one.at = "fingerprint" /\ one.outcome = "none" /\ one.call = e.call /\ one.found = found
    BY <1>1, <1>2, <1>3
  <2> HIDE DEF one
  <2>9. CallerSound(one) BY <1>3, <2>7, <2>8 DEF CallerSound
  <2> QED BY <1>2, <2>1, <2>8, <2>9, OneCallerMoves
<1>6. ASSUME End(c, "refused") PROVE IdentityInv'
  <2> DEFINE one == [e EXCEPT !.at = "over", !.outcome = "refused"]
  <2>1. Change(c, one) BY <1>6 DEF End
  <2>2. DOMAIN one = {"at", "call", "found", "outcome", "served"} /\ CallerSound(one) BY <1>2, EndSound
  <2> HIDE DEF one
  <2> QED BY <1>2, <2>1, <2>2, OneCallerMoves
<1> QED BY <1>4, <1>5, <1>6 DEF Fingerprint

LEMMA ProbeKeyStep == ASSUME IdentityInv, NEW c \in Caller, ProbeKey(c) PROVE IdentityInv'
<1> DEFINE ending == IF IsUncacheable(caller[c].call) THEN "probed_non_cacheable"
                      ELSE IF KeyOf(c) \in DOMAIN entries THEN "probed_hit" ELSE "probed_miss"
           one == [caller[c] EXCEPT !.at = "over", !.outcome = ending]
<1>1. caller[c].at # "idle" /\ UNCHANGED <<edition, entries>> BY DEF ProbeKey
<1>2. Change(c, one) BY DEF ProbeKey, End
<1>3. ending \in {"probed_non_cacheable", "probed_hit", "probed_miss"} OBVIOUS
<1> HIDE DEF ending
<1>4. DOMAIN one = {"at", "call", "found", "outcome", "served"} /\ CallerSound(one) BY <1>1, <1>3, EndSound
<1> HIDE DEF one
<1> QED BY <1>1, <1>2, <1>4, OneCallerMoves

\* A hit: whoever stored the answer had the same key.
LEMMA ServeStoredStep == ASSUME IdentityInv, NEW c \in Caller, ServeStored(c) PROVE IdentityInv'
<1> DEFINE e == caller[c]
           entry == entries[KeyOf(c)]
           one == [e EXCEPT !.at = "over", !.outcome = "hit", !.served = entry]
<1>1. DOMAIN e = {"at", "call", "found", "outcome", "served"} /\ CallerSound(e) BY DEF IdentityInv
<1>2. e.at = "keyed" /\ KeyOf(c) \in DOMAIN entries /\ UNCHANGED <<edition, entries>> /\ Change(c, one)
  BY DEF ServeStored
<1>3. e.call \in CallsMade /\ AllFoundFor(e.call, e.found) /\ FoundFor(e.call, e.found)
  BY <1>1, <1>2 DEF CallerSound
<1>4. EntrySound(KeyOf(c), entry) BY <1>2 DEF IdentityInv
<1>5. PICK found : /\ AllFoundFor(entry.call, found)
                   /\ KeyOf(c) = GenerateKey(BuildIdentity(entry.call, found))
                   /\ entry.read = found \/ entry.edited
  BY <1>4 DEF EntrySound
<1>6. entry.call \in CallsMade /\ ~IsUncacheable(entry.call) BY <1>4 DEF EntrySound
<1>7. GenerateKey(BuildIdentity(entry.call, found)) = GenerateKey(BuildIdentity(e.call, e.found))
  BY <1>5 DEF KeyOf
<1> HIDE DEF entry
<1>8. found = e.found /\ (Meaning(entry.call) = Meaning(e.call) \/ Confusable(entry.call, e.call))
  BY <1>3, <1>5, <1>6, <1>7, SameKeySameCall
<1>9. /\ DOMAIN one = {"at", "call", "found", "outcome", "served"}
      /\ one.at = "over" /\ one.outcome = "hit" /\ one.served = entry /\ one.call = e.call /\ one.found = e.found
  BY <1>1
<1> HIDE DEF one
<1>10. ServedFits(one) BY <1>5, <1>6, <1>8, <1>9 DEF ServedFits, IsUncacheable
<1>11. CallerSound(one) BY <1>3, <1>9, <1>10 DEF CallerSound
<1> QED BY <1>2, <1>9, <1>11, OneCallerMoves

LEMMA StartRunStep == ASSUME IdentityInv, NEW c \in Caller, StartRun(c) PROVE IdentityInv'
<1> DEFINE e == caller[c]
           one == [e EXCEPT !.at = "run"]
<1>1. DOMAIN e = {"at", "call", "found", "outcome", "served"} /\ CallerSound(e) BY DEF IdentityInv
<1>2. e.at = "keyed" /\ UNCHANGED <<edition, entries>> /\ Change(c, one) BY DEF StartRun
<1>3. /\ DOMAIN one = {"at", "call", "found", "outcome", "served"}
      /\ one.at = "run" /\ one.outcome = e.outcome /\ one.call = e.call /\ one.found = e.found
  BY <1>1
<1> HIDE DEF one
<1>4. CallerSound(one) BY <1>1, <1>2, <1>3 DEF CallerSound
<1> QED BY <1>2, <1>3, <1>4, OneCallerMoves

LEMMA RunStep == ASSUME IdentityInv, NEW c \in Caller, Run(c) PROVE IdentityInv'
<1> DEFINE e == caller[c]
<1>1. DOMAIN e = {"at", "call", "found", "outcome", "served"} /\ CallerSound(e) BY DEF IdentityInv
<1>2. e.at = "run" /\ edition' = edition BY DEF Run
<1>3. e.call \in CallsMade /\ AllFoundFor(e.call, e.found) BY <1>1, <1>2 DEF CallerSound
<1>4. CASE Bypasses(c)
  <2> DEFINE one == [e EXCEPT !.at = "over", !.outcome = "bypassed"]
  <2>1. Change(c, one) /\ UNCHANGED <<edition, entries>> BY <1>2, <1>4 DEF Run, End
  <2>2. DOMAIN one = {"at", "call", "found", "outcome", "served"} /\ CallerSound(one) BY <1>2, EndSound
  <2> HIDE DEF one
  <2> QED BY <2>1, <2>2, OneCallerMoves
<1>5. CASE ~Bypasses(c)
  <2> DEFINE one == [e EXCEPT !.at = "over", !.outcome = "recorded"]
             read == [d \in DOMAIN e.found |-> edition[d]]
             edited == \E d \in DOMAIN e.found : edition[d] # e.found[d]
             row == Serialize(BuildIdentity(e.call, e.found))
  <2>1. Change(c, one) BY <1>5 DEF Run, End
  <2>2. DOMAIN one = {"at", "call", "found", "outcome", "served"} /\ CallerSound(one) BY <1>2, EndSound
  <2> HIDE DEF one
  <2>3. /\ DOMAIN caller' = Caller
        /\ \A d \in Caller : /\ DOMAIN caller'[d] = {"at", "call", "found", "outcome", "served"}
                             /\ CallerSound(caller'[d])
    BY <2>1, <2>2, OnlyOneCaller
  <2>4. ~IsUncacheable(e.call) BY <1>5 DEF Bypasses
  <2>5. e.found \in [DOMAIN e.found -> 0..MaxEdits] BY <1>3 DEF AllFoundFor, FoundFor
  <2>6. DOMAIN read = DOMAIN e.found OBVIOUS
  <2>7. edited \in BOOLEAN /\ (read = e.found \/ edited) BY <2>5
  <2> HIDE DEF read, row
  <2>8. EntryOf(c) = [row |-> row, call |-> e.call, read |-> read, edited |-> edited] BY DEF EntryOf, read, row
  <2> HIDE DEF edited
  <2>9. /\ EntryOf(c).row = row /\ EntryOf(c).call = e.call /\ EntryOf(c).read = read
        /\ (EntryOf(c).read = e.found \/ EntryOf(c).edited)
    BY <2>7, <2>8
  <2>10. EntrySound(KeyOf(c), EntryOf(c))
    BY <1>3, <2>4, <2>5, <2>6, <2>9 DEF EntrySound, KeyOf, row
  <2>11. entries' = [key \in DOMAIN entries \cup {KeyOf(c)} |-> IF key = KeyOf(c) THEN EntryOf(c) ELSE entries[key]]
    BY <1>5 DEF Run
  <2>12. \A key \in DOMAIN entries' : EntrySound(key, entries'[key]) BY <2>10, <2>11 DEF IdentityInv
  <2>13. edition' \in [Document -> 0..MaxEdits] BY <1>2 DEF IdentityInv
  <2> QED BY <2>3, <2>12, <2>13 DEF IdentityInv
<1> QED BY <1>4, <1>5

LEMMA EditStep == ASSUME IdentityInv, NEW d \in Document, Edit(d) PROVE IdentityInv'
<1>1. edition' \in [Document -> 0..MaxEdits] BY IdentityAssumption DEF IdentityInv, Edit
<1>2. UNCHANGED <<caller, entries>> BY DEF Edit
<1> QED BY <1>1, <1>2 DEF IdentityInv

LEMMA IdentityStep == IdentityInv /\ [IdentityNext]_identityVars => IdentityInv'
<1> SUFFICES ASSUME IdentityInv, [IdentityNext]_identityVars PROVE IdentityInv' OBVIOUS
<1>1. CASE UNCHANGED identityVars BY <1>1 DEF identityVars, IdentityInv
<1>2. CASE IdentityNext
  BY <1>2, MakeCallStep, FingerprintStep, ProbeKeyStep, ServeStoredStep, StartRunStep, RunStep, EditStep
  DEF IdentityNext
<1> QED BY <1>1, <1>2

\* Callers and entries keep their shape, for any calls and any number of callers and edits.
THEOREM IdentityTypes == IdentitySpec => []IdentityTypeOK
BY IdentityBegins, IdentityStep, IdentityTypesIfInv, PTL DEF IdentitySpec

\* For any set of calls, any number of callers and any edits of their files in between: who
\* is served gets the answer of a call that means the same, but for the four confusions named
\* in the property, and every key can be built again from what is stored
\* (managed_call_identity.py, identity_codec.py).
THEOREM NoWrongHit == IdentitySpec => []HitsAreSound
BY IdentityBegins, IdentityStep, HitsSoundIfInv, PTL DEF IdentitySpec
=============================================================================
