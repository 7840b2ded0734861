----------------------------- MODULE AnswerStore -----------------------------
(***************************************************************************)
(* What execute (RunMlExecutionUseCase) promises its callers, whatever the *)
(* store is made of: each key has at most one answer, the number of the    *)
(* run that gave it; a caller is told that answer as one look found it, or *)
(* runs the client itself; and an answer changes in one step, for one of   *)
(* three reasons.                                                          *)
(***************************************************************************)
EXTENDS Naturals

CONSTANTS
  Caller,  \* those that call execute
  Key,     \* execution keys
  NoKey    \* the key of a caller that makes no call

NoAnswer == 0

VARIABLES
  answer,  \* the run that answers each key
  fresh,   \* the number of the next run
  step,    \* how far each caller is: idle, asking, told or running
  call     \* the call it makes, with the run it was told of or makes itself

vars == <<answer, fresh, step, call>>

NoCall == [mode |-> "CACHE", key |-> NoKey, run |-> NoAnswer]

Init ==
  /\ answer = [k \in Key |-> NoAnswer]
  /\ fresh = 1
  /\ step = [c \in Caller |-> "idle"]
  /\ call = [c \in Caller |-> NoCall]

Answer(c) == answer[call[c].key]
RunnersOf(k) == {c \in Caller : step[c] = "running" /\ call[c].key = k}

Moves(c, from, to) == step[c] = from /\ step' = [step EXCEPT ![c] = to]

\* The caller asks for the answer of a key.
Ask(c) ==
  /\ Moves(c, "idle", "asking")
  /\ \E k \in Key, m \in {"CACHE", "REFRESH", "OFFLINE"} :
       call' = [call EXCEPT ![c] = [mode |-> m, key |-> k, run |-> NoAnswer]]
  /\ UNCHANGED <<answer, fresh>>

\* It is told what the answer is: the one moment a hit takes effect.
Look(c) ==
  /\ Moves(c, "asking", "told")
  /\ call[c].mode # "REFRESH"
  /\ Answer(c) # NoAnswer
  /\ call' = [call EXCEPT ![c].run = Answer(c)]
  /\ UNCHANGED <<answer, fresh>>

\* The answer it was told is no good: no longer the answer of the key after
\* this step, and an answer given since then is left alone.
Discard(c) ==
  /\ Moves(c, "told", "asking")
  /\ call[c].mode = "CACHE"
  /\ answer' = [answer EXCEPT ![call[c].key] = IF @ = call[c].run THEN NoAnswer ELSE @]
  /\ call' = [call EXCEPT ![c].run = NoAnswer]
  /\ UNCHANGED fresh

\* It runs the client: alone with the key, never when OFFLINE, and only when
\* there is no answer unless it asked for a new one.
StartRun(c) ==
  /\ Moves(c, "asking", "running")
  /\ call[c].mode # "OFFLINE"
  /\ RunnersOf(call[c].key) = {}
  /\ call[c].mode = "CACHE" => Answer(c) = NoAnswer
  /\ call' = [call EXCEPT ![c].run = fresh]
  /\ fresh' = fresh + 1
  /\ UNCHANGED answer

\* Its run becomes the answer, in the place of an older one.
Keep(c) ==
  /\ Moves(c, "running", "idle")
  /\ Answer(c) < call[c].run
  /\ answer' = [answer EXCEPT ![call[c].key] = call[c].run]
  /\ call' = [call EXCEPT ![c] = NoCall]
  /\ UNCHANGED fresh

\* The call returns what it was told, or without an answer, and changes none.
Return(c) ==
  /\ step[c] # "idle"
  /\ step' = [step EXCEPT ![c] = "idle"]
  /\ call' = [call EXCEPT ![c] = NoCall]
  /\ UNCHANGED <<answer, fresh>>

\* A purge or an eviction, while nobody runs the client for the key.
Forget(k) ==
  /\ answer[k] # NoAnswer
  /\ RunnersOf(k) = {}
  /\ answer' = [answer EXCEPT ![k] = NoAnswer]
  /\ UNCHANGED <<fresh, step, call>>

Next ==
  \/ \E c \in Caller :
       Ask(c) \/ Look(c) \/ Discard(c) \/ StartRun(c) \/ Keep(c) \/ Return(c)
  \/ \E k \in Key : Forget(k)

Spec == Init /\ [][Next]_vars
=============================================================================
