-------------------------- MODULE MCExecutionKeyLock --------------------------
(***************************************************************************)
(* Instances of ExecutionKeyLock for TLC.                                  *)
(***************************************************************************)
EXTENDS ExecutionKeyLock, TLC

CONSTANTS t1, t2, t3, k1, k2

\* Two threads of a process whose hash puts both keys on one stripe, and a thread
\* of another process.  The two threads are alike, and so are the keys.
PairAndPeer  == [t \in Thread |-> IF t = t3 THEN 2 ELSE 1]
Collision    == [process \in Process |-> [k \in Key |-> 1]]
Alike        == Permutations({t1, t2}) \cup Permutations({k1, k2})

\* Three processes, with a stripe of its own for each key.
ThreeProcesses == [t \in Thread |-> IF t = t1 THEN 1 ELSE IF t = t2 THEN 2 ELSE 3]
NoCollision    == [process \in Process |-> [k \in Key |-> IF k = k1 THEN 1 ELSE 2]]

\* Every process waits for its clients equally long.
TwoTicks == [process \in Process |-> 2]
=============================================================================
