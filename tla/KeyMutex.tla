------------------------------- MODULE KeyMutex -------------------------------
(***************************************************************************)
(* What ExecutionKeyLockPort promises the use cases: sections of code that *)
(* one caller at a time is inside of, per key, except callers that go on   *)
(* unguarded because they could not get the lock.  Unguarded or not, two   *)
(* threads of one process never meet.                                      *)
(***************************************************************************)
CONSTANTS
  Thread,     \* the threads that call acquire
  ProcessOf,  \* the process each thread belongs to
  Key,        \* execution keys
  NoThread    \* the holder of a key that is free

VARIABLES
  holder,  \* the thread that guards each key
  inside   \* the keys whose section each thread is inside of

Init ==
  /\ holder = [k \in Key |-> NoThread]
  /\ inside = [t \in Thread |-> {}]

Peers(t) == {u \in Thread \ {t} : ProcessOf[u] = ProcessOf[t]}

\* No thread of the same process is inside: the part no timeout weakens.
Alone(t, k) == \A u \in Peers(t) : k \notin inside[u]

EnterGuarded(t, k) ==
  /\ k \notin inside[t]
  /\ Alone(t, k)
  /\ holder[k] = NoThread
  /\ holder' = [holder EXCEPT ![k] = t]
  /\ inside' = [inside EXCEPT ![t] = @ \cup {k}]

EnterUnguarded(t, k) ==
  /\ k \notin inside[t]
  /\ Alone(t, k)
  /\ inside' = [inside EXCEPT ![t] = @ \cup {k}]
  /\ UNCHANGED holder

Leave(t, k) ==
  /\ k \in inside[t]
  /\ inside' = [inside EXCEPT ![t] = @ \ {k}]
  /\ holder' = [holder EXCEPT ![k] = IF @ = t THEN NoThread ELSE @]

\* A process dies: its threads are inside of nothing and guard nothing.
Die(process) ==
  /\ inside' = [t \in Thread |-> IF ProcessOf[t] = process THEN {} ELSE inside[t]]
  /\ holder' = [k \in Key |->
       IF holder[k] # NoThread /\ ProcessOf[holder[k]] = process THEN NoThread ELSE holder[k]]

Next ==
  \/ \E t \in Thread, k \in Key : EnterGuarded(t, k) \/ EnterUnguarded(t, k) \/ Leave(t, k)
  \/ \E t \in Thread : Die(ProcessOf[t])

Spec == Init /\ [][Next]_<<holder, inside>>
=============================================================================
