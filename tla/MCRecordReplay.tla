---------------------------- MODULE MCRecordReplay ----------------------------
(* Instances of RecordReplay for TLC.                                      *)
EXTENDS RecordReplay, TLC

\* Every document has bytes of its own.
DistinctBytes == [d \in Doc |-> d]

\* The first two documents have the same bytes, hence one blob between them.
SharedBytes == [d \in Doc |-> IF d = 2 THEN 1 ELSE d]

\* Processes and keys are interchangeable.
Symmetry == Permutations(Proc) \cup Permutations(Key)
=============================================================================
