------------------------------ MODULE HttpRetry ------------------------------
(***************************************************************************)
(* One call of an API provider: a direct adapter sends its request through *)
(* request_json, which repeats it after a failure that may pass, and reads *)
(* the text and the usage out of the reply; the subscription relay sends   *)
(* the caller's bytes once and hands back whatever status comes.  The      *)
(* provider may do the work (and charge for it) and the answer may still   *)
(* be lost on the way.                                                     *)
(***************************************************************************)
EXTENDS Integers

CONSTANTS
  MaxAttempts,    \* of the retry policy
  MaxDelay        \* its longest pause, in half seconds

ASSUME HttpAssumption == MaxAttempts \in Nat \ {0} /\ MaxDelay \in Nat \ {0}

VARIABLES
  api,            \* the adapter
  apiAt,          \* what the call does next
  attempt,        \* requests sent
  waited,         \* half seconds slept between them
  worked,         \* requests the provider has carried out
  unanswered,     \* of these, the ones whose answer never came
  apiOutcome

httpVars == <<api, apiAt, attempt, waited, worked, unanswered, apiOutcome>>

Direct  == {"anthropic", "openai", "gemini", "mistral"}
Relay   == "anthropic-subscription"
Adapter == Direct \cup {Relay, "stub-api"}

HttpTypeOK ==
  /\ api \in Adapter /\ apiAt \in {"start", "request", "over"}
  /\ attempt \in 0..MaxAttempts + 1 /\ waited \in Nat
  /\ worked \in Nat /\ unanswered \in Nat
  /\ apiOutcome \in {"none", "config_error", "unsupported", "answer", "status",
                     "api_error", "protocol_error", "raw_error"}

HttpInit ==
  /\ api \in Adapter /\ apiAt = "start" /\ attempt = 0 /\ waited = 0
  /\ worked = 0 /\ unanswered = 0 /\ apiOutcome = "none"

Return(how) == apiAt' = "over" /\ apiOutcome' = how

-----------------------------------------------------------------------------
(* What may come back.                                                     *)

\* Bodies of a 2xx: a full answer, one without the list the text is in, one whose list
\* holds no objects, one whose text block has no text, one with usage null, and two
\* that are no JSON object.
Body == {"text", "bare", "no_objects", "no_text", "null_usage", "no_object", "not_utf8"}

\* What request_json cannot decode, and what each adapter cannot read.
Undecodable      == {"no_object", "not_utf8"}
AnthropicRejects == {"no_objects", "no_text", "null_usage"}
OpenAIRejects    == {"no_objects", "null_usage"}
GeminiRejects    == {"no_objects", "null_usage"}
MistralRejects   == {"no_objects", "null_usage"}
Rejects == [anthropic |-> AnthropicRejects, openai |-> OpenAIRejects,
            gemini |-> GeminiRejects, mistral |-> MistralRejects]

\* A status with its Retry-After in half seconds (0: none, or a date), or a failure of
\* the transport: it could not connect, ran into its timeout, or was cut off.
Reply == [status : {200, 201}, body : Body, after : {0}]
         \cup [status : {400, 429, 503}, body : {"text"}, after : {0, -2, 4, 7200}]
         \cup [status : {0}, body : {"unreachable", "timeout", "cut_off"}, after : {0}]

Success(reply) == reply.status \in 200..299

\* Whether the provider may have done the work although no answer comes of it.
MayHaveWorked(reply) == reply.status = 503 \/ reply.body \in {"timeout", "cut_off"}

-----------------------------------------------------------------------------

\* No runner for this kind of call; no API key.
RefuseCall ==
  /\ apiAt = "start"
  /\ Return("unsupported") \/ (api \in Direct /\ Return("config_error"))
  /\ UNCHANGED <<api, attempt, waited, worked, unanswered>>

\* The stand-in for a provider answers from the request.
AnswerFromStub ==
  /\ apiAt = "start" /\ api = "stub-api" /\ Return("answer")
  /\ UNCHANGED <<api, attempt, waited, worked, unanswered>>

PrepareRequest ==
  /\ apiAt = "start" /\ api # "stub-api" /\ apiAt' = "request"
  /\ UNCHANGED <<api, attempt, waited, worked, unanswered, apiOutcome>>

\* (mutant) a reply that cannot be decoded is asked for again
RetryableOrGarbled(reply) ==
  \/ reply.status \in {0, 429} \cup 500..599 /\ reply.body # "cut_off"
  \/ Success(reply) /\ reply.body \in Undecodable
\* A connection that is cut off while the reply is read raises neither URLError nor
\* TimeoutError: it passes request_json and the relay as it is.
Retryable(reply) == /\ reply.status \in {0, 429} \cup 500..599
                    /\ reply.body # "cut_off"

\* Retry-After up to the longest pause, or full jitter under an exponential ceiling.
Least(x, y) == IF x <= y THEN x ELSE y
Delay(n, after) == IF after # 0 THEN {Least(after, MaxDelay)}
                                ELSE {pause \in 0..MaxDelay : pause <= 2^(n - 1)}

\* A negative pause makes sleep raise.
Repeat(reply) ==
  \E pause \in Delay(attempt', reply.after) :
    IF pause < 0 THEN Return("raw_error") /\ UNCHANGED waited
    ELSE waited' = waited + pause /\ UNCHANGED <<apiAt, apiOutcome>>

\* How a reply that is final leaves a direct adapter.
Received(reply) ==
  IF reply.body = "cut_off" THEN "raw_error"
  ELSE IF ~Success(reply) THEN "api_error"
  ELSE IF reply.body \in Undecodable \cup Rejects[api] THEN "protocol_error"
  ELSE "answer"

\* The relay passes on every status; only a 200 is an answer to record.
Relayed(reply) ==
  IF reply.body = "cut_off" THEN "raw_error"
  ELSE IF reply.status = 0 THEN "api_error"
  ELSE IF reply.status # 200 THEN "status"
  ELSE IF reply.body = "not_utf8" THEN "protocol_error"
  ELSE "answer"

SendRequest ==
  /\ apiAt = "request" /\ attempt' = attempt + 1
  /\ \E reply \in Reply, lost \in BOOLEAN :
       /\ lost => MayHaveWorked(reply)
       /\ worked' = worked + (IF lost \/ Success(reply) THEN 1 ELSE 0)
       /\ unanswered' = unanswered + (IF lost THEN 1 ELSE 0)
       /\ IF api = Relay THEN Return(Relayed(reply)) /\ UNCHANGED waited
          ELSE IF Retryable(reply) /\ attempt' < MaxAttempts THEN Repeat(reply)
          ELSE Return(Received(reply)) /\ UNCHANGED waited
  /\ UNCHANGED api

HttpNext == RefuseCall \/ AnswerFromStub \/ PrepareRequest \/ SendRequest

HttpSpec == HttpInit /\ [][HttpNext]_httpVars

-----------------------------------------------------------------------------
(* Properties.                                                             *)

\* The provider is paid a second time only for work whose answer was lost: whatever
\* arrives in full, readable or not, is never asked for again, and an answer is there
\* only if the provider did the work (_http.py: "never retried").
PaidAgainOnlyIfLost ==
  /\ worked <= unanswered + 1
  /\ apiOutcome \in {"answer", "protocol_error"} /\ api # "stub-api" => worked = unanswered + 1

\* Whatever pauses the server asks for, a call sleeps at most the longest pause between
\* two of its attempts, of which there are no more than the policy allows.
BackoffIsBounded == /\ attempt <= IF api = Relay THEN 1 ELSE MaxAttempts
                    /\ waited <= MaxDelay * (MaxAttempts - 1)

\* What request_json may be trusted with: it pays twice only for what was lost, and it
\* gives up in time (_http.py: RetryPolicy).
RetriesAreSafe == PaidAgainOnlyIfLost /\ BackoffIsBounded
=============================================================================
