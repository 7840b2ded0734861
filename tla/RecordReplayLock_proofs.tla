---------------------- MODULE RecordReplayLock_proofs ----------------------
(***************************************************************************)
(* Proofs about RecordReplay when every wait for a key lock ends by        *)
(* getting it and nobody repairs: a key is recorded once, its answer is    *)
(* never lost, and it only moves to newer runs.                            *)
(*                                                                         *)
(* The argument: LockInv is inductive.  Between its look under the lock    *)
(* and its promotion a recorder is alone with its key: every step of       *)
(* another process keeps the recorder's row (OthersSafe), and Fits says    *)
(* what the process that moves must be able to say of its own state.       *)
(***************************************************************************)
EXTENDS RecordReplay_proofs

\* The current rows of k after the step.
NewCurrent(k) ==
  {i \in Id : /\ execs'[i].state = "SUCCESS"
              /\ execs'[i].persisted
              /\ ~execs'[i].superseded
              /\ execs'[i].key = k}

IsRecording(s) ==
  s.pc \in {"client", "insert", "put", "mark", "finalize", "promote"} /\ ~s.filling
IsReading(s) == s.pc \in {"load", "hydrate", "hit", "heal"}
IsPurging(s) == s.pc \in {"purgeRead", "purgeRows", "purgeBlobs"}
RepairPC == {"repairNext", "repairGet", "repairMark", "repairFinalize", "repairPromote"}

\* The locks h cover what a process in state s does.
Covered(s, h) ==
  /\ s.locked => s.key \in h
  /\ IsRecording(s) \/ s.pc = "save" => s.locked
  /\ IsPurging(s) => s.victim \in h
  /\ s.filling => s.pc \in {"fillAdd", "put", "mark"}
  /\ s.pc = "fillAdd" => s.filling
  /\ s.pc \notin RepairPC

\* A process p that goes to s finds its part of LockInv true after the step.
RecorderFits(p, s) ==
  IsRecording(s) =>
    /\ s.row \in Id
    /\ s.row < nextId'
    /\ execs'[s.row].state # "ABSENT"
    /\ execs'[s.row].key = s.key
    /\ ~execs'[s.row].persisted
    /\ ~execs'[s.row].superseded
    /\ \A i \in NewCurrent(s.key) : i < s.row
    /\ \A q \in Proc \ {p} : Reading(q) => proc[q].row # s.row

ReaderFits(p, s) ==
  IsReading(s) =>
    /\ s.row \in Id
    /\ s.row < nextId'
    /\ \A q \in Proc \ {p} : Recording(q) => proc[q].row # s.row
    /\ s.locked => NewCurrent(s.key) \subseteq {s.row}

MissFits(s) ==
  s.mode = "CACHE" /\ (IsRecording(s) \/ s.pc = "save") => NewCurrent(s.key) = {}

Fits(p, s) ==
  /\ Covered(s, held'[p])
  /\ RecorderFits(p, s)
  /\ ReaderFits(p, s)
  /\ MissFits(s)

\* The step keeps what the other processes rely on: their locks, the rows they
\* record, and that nothing turns current under a key they have locked.
OthersSafe(p) ==
  /\ \A q \in Proc \ {p} : held'[q] = held[q] /\ held'[p] \cap held[q] = {}
  /\ \A q \in Proc \ {p} : Recording(q) => execs'[proc[q].row] = execs[proc[q].row]
  /\ \A q \in Proc \ {p} : \A k \in held[q] : NewCurrent(k) \subseteq CurrentOf(k)
  /\ nextId <= nextId'

LEMMA CurrentPrimed ==
  ASSUME NEW CONSTANT k
  PROVE  CurrentOf(k)' = NewCurrent(k)
BY DEF CurrentOf, NewCurrent, Servable

LEMMA StatesNamed ==
  ASSUME NEW p \in Proc
  PROVE  /\ Recording(p) = IsRecording(proc[p])
         /\ Reading(p) = IsReading(proc[p])
         /\ Purging(p) = IsPurging(proc[p])
         /\ Repairing(p) = (proc[p].pc \in RepairPC)
BY DEF Recording, Reading, Purging, Repairing, IsRecording, IsReading, IsPurging, RepairPC

\* The step of one process.
LEMMA LockStep ==
  ASSUME IInv, LockInv, NEW p \in Proc, NEW s, proc' = [proc EXCEPT ![p] = s],
         held' \in [Proc -> SUBSET Key], nextId' \in Nat, OthersSafe(p), Fits(p, s)
  PROVE  LockInv'
<1>1. proc'[p] = s /\ \A q \in Proc \ {p} : proc'[q] = proc[q] BY DEF IInv, TypeOK
<1>2. LocksGuard'
  <2>1. \A q, r \in Proc : q # r => held'[q] \cap held'[r] = {}
    BY DEF OthersSafe, LockInv, LocksGuard
  <2>2. ASSUME NEW q \in Proc PROVE Covered(proc'[q], held'[q])
    <3>1. CASE q = p BY <1>1, <3>1 DEF Fits
    <3>2. CASE q # p
      <4>1. proc'[q] = proc[q] /\ held'[q] = held[q] BY <1>1, <3>2 DEF OthersSafe
      <4> QED BY <4>1, StatesNamed DEF LockInv, LocksGuard, Covered, At
    <3> QED BY <3>1, <3>2
  <2> QED BY <2>1, <2>2
      DEF LocksGuard, Covered, Recording, Purging, Repairing, At, IsRecording, IsPurging, RepairPC
<1>3. ASSUME NEW q \in Proc \ {p}, Recording(q)
      PROVE  /\ proc[q].row \in Id
             /\ proc[q].row < nextId'
             /\ execs'[proc[q].row] = execs[proc[q].row]
             /\ proc[q].key \in held[q]
             /\ NewCurrent(proc[q].key) \subseteq CurrentOf(proc[q].key)
  <2>1. proc[q].row \in Id /\ proc[q].row < nextId BY <1>3 DEF LockInv, RecorderOwnsRow
  <2>2. proc[q].key \in held[q] BY <1>3 DEF LockInv, LocksGuard
  <2>3. nextId \in Nat /\ nextId' \in Nat /\ proc[q].row \in Nat
    BY <2>1, StoreAssumption DEF Id, IInv, TypeOK
  <2> QED BY <1>3, <2>1, <2>2, <2>3 DEF OthersSafe
<1>4. RecorderOwnsRow'
  <2> SUFFICES ASSUME NEW q \in Proc, IsRecording(proc'[q])
               PROVE  /\ proc'[q].row \in Id
                      /\ proc'[q].row < nextId'
                      /\ execs'[proc'[q].row].state # "ABSENT"
                      /\ execs'[proc'[q].row].key = proc'[q].key
                      /\ ~execs'[proc'[q].row].persisted
                      /\ ~execs'[proc'[q].row].superseded
                      /\ \A i \in NewCurrent(proc'[q].key) : i < proc'[q].row
    BY DEF RecorderOwnsRow, Recording, IsRecording, Exists, CurrentOf, NewCurrent, Servable
  <2>1. CASE q = p BY <1>1, <2>1 DEF Fits, RecorderFits
  <2>2. CASE q # p
    <3>1. proc'[q] = proc[q] /\ Recording(q) BY <1>1, <2>2, StatesNamed
    <3> QED BY <1>3, <2>2, <3>1 DEF LockInv, RecorderOwnsRow, Exists
  <2> QED BY <2>1, <2>2
<1>5. ReaderAvoidsRecorders'
  <2> SUFFICES ASSUME NEW q \in Proc, IsReading(proc'[q])
               PROVE  /\ proc'[q].row \in Id
                      /\ proc'[q].row < nextId'
                      /\ \A r \in Proc : IsRecording(proc'[r]) => proc'[r].row # proc'[q].row
                      /\ proc'[q].locked => NewCurrent(proc'[q].key) \subseteq {proc'[q].row}
    BY DEF ReaderAvoidsRecorders, Recording, Reading, IsRecording, IsReading, CurrentOf,
           NewCurrent, Servable
  <2>1. CASE q = p
    <3>1. \A r \in Proc \ {p} : IsRecording(proc'[r]) => Recording(r) /\ proc'[r] = proc[r]
      BY <1>1, StatesNamed
    <3>2. ~IsRecording(s) BY <1>1, <2>1 DEF IsRecording, IsReading
    <3> QED BY <1>1, <2>1, <3>1, <3>2 DEF Fits, ReaderFits
  <2>2. CASE q # p
    <3>1. proc'[q] = proc[q] /\ Reading(q) BY <1>1, <2>2, StatesNamed
    <3>2. proc[q].row \in Id /\ proc[q].row < nextId BY <3>1 DEF LockInv, ReaderAvoidsRecorders
    <3>3. nextId \in Nat /\ proc[q].row \in Nat BY <3>2, StoreAssumption DEF Id, IInv, TypeOK
    <3>4. proc[q].row < nextId' BY <3>2, <3>3 DEF OthersSafe
    <3>5. ASSUME NEW r \in Proc, IsRecording(proc'[r]) PROVE proc'[r].row # proc[q].row
      <4>1. CASE r = p BY <1>1, <2>2, <3>1, <3>5, <4>1 DEF Fits, RecorderFits
      <4>2. CASE r # p
        <5>1. proc'[r] = proc[r] /\ Recording(r) BY <1>1, <3>5, <4>2, StatesNamed
        <5> QED BY <3>1, <5>1 DEF LockInv, ReaderAvoidsRecorders
      <4> QED BY <4>1, <4>2
    <3>6. proc[q].locked => NewCurrent(proc[q].key) \subseteq {proc[q].row}
      BY <2>2, <3>1 DEF OthersSafe, LockInv, LocksGuard, ReaderAvoidsRecorders
    <3> QED BY <3>1, <3>2, <3>4, <3>5, <3>6
  <2> QED BY <2>1, <2>2
<1>6. MissStays'
  <2> SUFFICES ASSUME NEW q \in Proc, proc'[q].mode = "CACHE",
                      IsRecording(proc'[q]) \/ proc'[q].pc = "save"
               PROVE  NewCurrent(proc'[q].key) = {}
    BY DEF MissStays, Recording, IsRecording, At, CurrentOf, NewCurrent, Servable
  <2>1. CASE q = p BY <1>1, <2>1 DEF Fits, MissFits
  <2>2. CASE q # p
    <3>1. proc'[q] = proc[q] /\ (Recording(q) \/ At(q, "save")) BY <1>1, <2>2, StatesNamed DEF At
    <3>2. proc[q].key \in held[q] /\ CurrentOf(proc[q].key) = {}
      BY <3>1 DEF LockInv, LocksGuard, MissStays
    <3> QED BY <2>2, <3>1, <3>2 DEF OthersSafe
  <2> QED BY <2>1, <2>2
<1> QED BY <1>2, <1>4, <1>5, <1>6 DEF LockInv

-----------------------------------------------------------------------------
(* What a step keeps: the invariant, and the two action properties.        *)

\* What AnswerNeverLost says of one step.
NoneLost ==
  \A k \in Key : CurrentOf(k) # {} /\ CurrentOf(k)' = {} =>
    \E p \in Proc :
      \/ At(p, "purgeRows") /\ proc[p].victim = k
      \/ At(p, "heal") /\ proc[p].row \in CurrentOf(k)

\* What CurrentMovesForward says of one step.
Forward == \A k \in Key : \A i \in CurrentOf(k), j \in CurrentOf(k)' : i <= j

Kept == LockInv' /\ NoneLost /\ Forward

\* Only p's locks change, and they stay apart from the others'.
HeldStep(p) ==
  /\ held' \in [Proc -> SUBSET Key]
  /\ \A q \in Proc \ {p} : held'[q] = held[q] /\ held'[p] \cap held[q] = {}

LEMMA HeldSame ==
  ASSUME IInv, LockInv, NEW p \in Proc, UNCHANGED held
  PROVE  HeldStep(p) /\ held'[p] = held[p]
BY DEF HeldStep, IInv, TypeOK, LockInv, LocksGuard

LEMMA HeldFinish ==
  ASSUME IInv, LockInv, NEW p \in Proc, Finish(p)
  PROVE  HeldStep(p) /\ held'[p] = {}
BY DEF Finish, HeldStep, IInv, TypeOK, LockInv, LocksGuard

LEMMA HeldAcquire ==
  ASSUME IInv, LockInv, ~LockTimeouts, NEW p \in Proc, NEW k \in Key, NEW s, AcquireKey(p, k, s)
  PROVE  /\ HeldStep(p)
         /\ k \in held'[p]
         /\ held[p] \subseteq held'[p]
<1>1. CASE Inside(p, k) /\ UNCHANGED held
  BY <1>1, HeldSame DEF Inside, LockInv, LocksGuard
<1>2. CASE ~HeldByOther(p, k) /\ held' = [held EXCEPT ![p] = @ \cup {k}]
  BY <1>2 DEF HeldByOther, HeldStep, IInv, TypeOK, LockInv, LocksGuard
<1> QED BY <1>1, <1>2 DEF AcquireKey

\* Nothing more is current: the answers that remain are the ones there were.
LEMMA ShrinkForward ==
  ASSUME IInv, \A k \in Key : NewCurrent(k) \subseteq CurrentOf(k)
  PROVE  Forward
<1> SUFFICES ASSUME NEW k \in Key, NEW i \in CurrentOf(k), NEW j \in CurrentOf(k)'
             PROVE  i <= j
  BY DEF Forward
<1>1. j \in CurrentOf(k) BY CurrentPrimed
<1>2. i = j BY <1>1 DEF IInv, AtMostOneCurrent, CurrentOf
<1>3. i \in Nat BY StoreAssumption DEF CurrentOf, Id
<1> QED BY <1>2, <1>3

\* A step that changes the rows in S only, and leaves none of them servable.
LEMMA RowsStep ==
  ASSUME IInv, LockInv, NEW p \in Proc, NEW s, proc' = [proc EXCEPT ![p] = s],
         HeldStep(p), nextId' \in Nat, nextId <= nextId', Fits(p, s),
         NEW S \in SUBSET Id,
         \A i \in Id \ S : execs'[i] = execs[i],
         \A k : NewCurrent(k) \cap S = {},
         \A q \in Proc \ {p} : Recording(q) => proc[q].row \notin S
  PROVE  /\ LockInv' /\ Forward
         /\ \A k \in Key : CurrentOf(k) # {} /\ CurrentOf(k)' = {} => CurrentOf(k) \cap S # {}
<1>1. \A k : NewCurrent(k) \subseteq CurrentOf(k) BY DEF NewCurrent, CurrentOf, Servable
<1>2. \A q \in Proc \ {p} : Recording(q) => execs'[proc[q].row] = execs[proc[q].row]
  BY DEF LockInv, RecorderOwnsRow
<1>3. OthersSafe(p) BY <1>1, <1>2 DEF OthersSafe, HeldStep
<1>4. LockInv' BY <1>3, LockStep DEF HeldStep
<1>5. ASSUME NEW k \in Key, NEW i \in CurrentOf(k), i \notin S PROVE i \in CurrentOf(k)'
  BY <1>5 DEF CurrentOf, Servable
<1> QED BY <1>1, <1>4, <1>5, ShrinkForward

LEMMA QuietKept ==
  ASSUME IInv, LockInv, UNCHANGED <<execs, nextId>>, NEW p \in Proc, NEW s,
         proc' = [proc EXCEPT ![p] = s], HeldStep(p), Fits(p, s)
  PROVE  Kept
<1>1. nextId' \in Nat /\ nextId <= nextId' BY StoreAssumption DEF IInv, TypeOK
<1>2. \A k \in Key : CurrentOf(k) # {} /\ CurrentOf(k)' = {} => CurrentOf(k) \cap {} # {}
  BY DEF CurrentOf, Servable
<1>3. LockInv' /\ Forward
  <2>1. PICK S \in SUBSET Id : S = {} OBVIOUS
  <2>2. /\ \A i \in Id \ S : execs'[i] = execs[i]
        /\ \A k : NewCurrent(k) \cap S = {}
        /\ \A q \in Proc \ {p} : Recording(q) => proc[q].row \notin S
    BY <2>1
  <2> QED BY <1>1, <2>2, RowsStep
<1> QED BY <1>2, <1>3 DEF Kept, NoneLost

LEMMA IdleFits ==
  ASSUME NEW p \in Proc
  PROVE  Fits(p, IdleProc)
BY DEF Fits, Covered, RecorderFits, ReaderFits, MissFits, IsRecording, IsReading, IsPurging,
       RepairPC, IdleProc

LEMMA FinishKept ==
  ASSUME IInv, LockInv, UNCHANGED <<execs, nextId>>, NEW p \in Proc, Finish(p)
  PROVE  Kept
<1>1. HeldStep(p) BY HeldFinish
<1>2. proc' = [proc EXCEPT ![p] = IdleProc] BY DEF Finish
<1> QED BY <1>1, <1>2, IdleFits, QuietKept

\* Going on with the same call, row and locks, in no new role.
SameRole(p, s) ==
  /\ s.key = proc[p].key /\ s.mode = proc[p].mode /\ s.locked = proc[p].locked
  /\ IsRecording(s) => Recording(p) /\ s.row = proc[p].row
  /\ IsReading(s) => Reading(p) /\ s.row = proc[p].row
  /\ IsPurging(s) => Purging(p) /\ s.victim = proc[p].victim
  /\ s.pc = "save" => At(p, "save")
  /\ s.filling => s.pc \in {"fillAdd", "put", "mark"}
  /\ s.pc = "fillAdd" => s.filling
  /\ s.pc \notin RepairPC

LEMMA SameRoleKept ==
  ASSUME IInv, LockInv, UNCHANGED <<execs, nextId>>, NEW p \in Proc, NEW s, Become(p, s),
         SameRole(p, s)
  PROVE  Kept
<1>1. HeldStep(p) /\ held'[p] = held[p] BY HeldSame DEF Become
<1>2. \A k : NewCurrent(k) = CurrentOf(k) BY DEF NewCurrent, CurrentOf, Servable
<1>3. Covered(s, held'[p]) BY <1>1 DEF Covered, SameRole, LockInv, LocksGuard, At
<1>4. RecorderFits(p, s)
  BY <1>2 DEF RecorderFits, SameRole, LockInv, RecorderOwnsRow, ReaderAvoidsRecorders, Exists
<1>5. ReaderFits(p, s) BY <1>2 DEF ReaderFits, SameRole, LockInv, ReaderAvoidsRecorders
<1>6. MissFits(s) BY <1>2 DEF MissFits, SameRole, LockInv, MissStays
<1> QED BY <1>1, <1>3, <1>4, <1>5, <1>6, QuietKept DEF Fits, Become

\* Where a process stands before its step.
LEMMA Standing ==
  ASSUME IInv, LockInv, NEW p \in Proc
  PROVE  /\ proc[p] \in ProcState
         /\ Covered(proc[p], held[p])
         /\ LocalInv(proc[p])
BY DEF IInv, TypeOK, WritersOnSettledRows, LockInv, LocksGuard, Covered, Recording, Purging,
       Repairing, IsRecording, IsPurging, RepairPC, At

\* A miss under the lock is a proof that the key has no current answer.
LEMMA MissKept ==
  ASSUME IInv, LockInv, NEW p \in Proc, Miss(p), proc[p].pc \in {"find", "load"},
         UNCHANGED <<execs, nextId>>,
         proc[p].locked => CurrentOf(proc[p].key) = {}
  PROVE  Kept
<1> USE Standing
<1>1. CASE Finish(p) BY <1>1, FinishKept
<1>2. CASE ~Finish(p)
  <2> DEFINE s == [proc[p] EXCEPT !.pc = IF proc[p].locked THEN "save" ELSE "acquire"]
  <2>1. Become(p, s) BY <1>2 DEF Miss, Go
  <2>2. /\ s.pc = (IF proc[p].locked THEN "save" ELSE "acquire")
        /\ s.key = proc[p].key /\ s.locked = proc[p].locked /\ s.filling = proc[p].filling
    BY DEF ProcState
  <2> HIDE DEF s
  <2>3. HeldStep(p) /\ held'[p] = held[p] BY <2>1, HeldSame DEF Become
  <2>4. ~s.filling BY <2>2 DEF Covered
  <2>5. Covered(s, held'[p]) /\ ~IsRecording(s) /\ ~IsReading(s)
    BY <2>2, <2>3, <2>4 DEF Covered, IsRecording, IsReading, IsPurging, RepairPC
  <2>6. MissFits(s) BY <2>2, <2>5 DEF MissFits, NewCurrent, CurrentOf, Servable
  <2>7. Fits(p, s) BY <2>5, <2>6 DEF Fits, RecorderFits, ReaderFits
  <2> QED BY <2>1, <2>3, <2>7, QuietKept DEF Become
<1> QED BY <1>1, <1>2

\* Steps that read, in the order of a call.
LEMMA StartCallKept ==
  ASSUME IInv, LockInv, NEW p \in Proc, StartCall(p)
  PROVE  Kept
<1> DEFINE s(k, m, ds) ==
      [IdleProc EXCEPT !.pc = IF m = "REFRESH" THEN "acquire" ELSE "find",
                       !.mode = m, !.key = k, !.dataset = ds]
<1>1. PICK k, m, ds : Become(p, s(k, m, ds)) BY DEF StartCall
<1>2. s(k, m, ds).pc \in {"find", "acquire"} /\ ~s(k, m, ds).filling /\ ~s(k, m, ds).locked
  BY DEF IdleProc
<1> HIDE DEF s
<1>3. Fits(p, s(k, m, ds))
  BY <1>2 DEF Fits, Covered, RecorderFits, ReaderFits, MissFits, IsRecording, IsReading,
              IsPurging, RepairPC
<1>4. UNCHANGED <<execs, nextId>> BY DEF StartCall, storeVars, ctlVars
<1> QED BY <1>1, <1>3, <1>4, HeldSame, QuietKept DEF Become

LEMMA FindCurrentKept ==
  ASSUME IInv, LockInv, NEW p \in Proc, FindCurrent(p)
  PROVE  Kept
<1> USE Standing DEF At
<1>1. UNCHANGED <<execs, nextId>> /\ proc[p].pc = "find"
  BY DEF FindCurrent, storeVars, ctlVars
<1>2. CASE CurrentOf(proc[p].key) = {} /\ Miss(p) BY <1>1, <1>2, MissKept
<1>3. CASE ~(CurrentOf(proc[p].key) = {} /\ Miss(p))
  <2> DEFINE s(i) == [proc[p] EXCEPT !.pc = "load", !.row = i]
  <2>1. PICK i \in Id : i \in CurrentOf(proc[p].key) /\ Become(p, s(i))
    BY <1>3 DEF FindCurrent, IsNewest
  <2>2. /\ s(i).pc = "load" /\ s(i).row = i /\ s(i).key = proc[p].key
        /\ s(i).locked = proc[p].locked /\ s(i).filling = proc[p].filling
    BY DEF ProcState
  <2> HIDE DEF s
  <2>3. HeldStep(p) /\ held'[p] = held[p] BY <2>1, HeldSame DEF Become
  <2>4. Covered(s(i), held'[p]) /\ ~IsRecording(s(i))
    BY <1>1, <2>2, <2>3 DEF Covered, IsRecording, IsPurging, RepairPC
  <2>5. ReaderFits(p, s(i))
    <3>1. i < nextId' BY <1>1, <2>1 DEF IInv, UnfinishedIsBare, CurrentOf, Servable, Exists
    <3>2. \A q \in Proc : Recording(q) => proc[q].row # i
      BY <2>1 DEF LockInv, RecorderOwnsRow, CurrentOf, Servable
    <3>3. NewCurrent(proc[p].key) \subseteq {i}
      BY <1>1, <2>1 DEF NewCurrent, CurrentOf, Servable, IInv, AtMostOneCurrent
    <3> QED BY <2>2, <3>1, <3>2, <3>3 DEF ReaderFits
  <2>6. Fits(p, s(i)) BY <2>2, <2>4, <2>5 DEF Fits, RecorderFits, MissFits
  <2> QED BY <1>1, <2>1, <2>3, <2>6, QuietKept DEF Become
<1> QED BY <1>2, <1>3

LEMMA LoadExecutionKept ==
  ASSUME IInv, LockInv, NEW p \in Proc, LoadExecution(p)
  PROVE  Kept
<1> USE Standing DEF At
<1>1. UNCHANGED <<execs, nextId>> /\ proc[p].pc = "load"
  BY DEF LoadExecution, storeVars, ctlVars
<1>2. CASE proc[p].key \notin identities
  <2>1. CurrentOf(proc[p].key) = {}
    BY <1>2 DEF CurrentOf, Servable, IInv, ReferencesResolve, Exists
  <2>2. Miss(p) BY <1>2 DEF LoadExecution
  <2> QED BY <1>1, <2>1, <2>2, MissKept
<1>3. CASE proc[p].key \in identities
  <2> DEFINE s == [proc[p] EXCEPT !.pc = "hydrate", !.seen = ArtifactsOf(proc[p].row)]
  <2>1. Become(p, s) BY <1>3 DEF LoadExecution
  <2>2. /\ s.pc = "hydrate" /\ s.key = proc[p].key /\ s.mode = proc[p].mode
        /\ s.locked = proc[p].locked /\ s.row = proc[p].row /\ s.filling = proc[p].filling
    BY DEF ProcState
  <2> HIDE DEF s
  <2>3. SameRole(p, s)
    BY <1>1, <2>2 DEF SameRole, IsRecording, IsReading, IsPurging, Reading, RepairPC, Covered
  <2> QED BY <1>1, <2>1, <2>3, SameRoleKept
<1> QED BY <1>2, <1>3

LEMMA HydrateKept ==
  ASSUME IInv, LockInv, NEW p \in Proc, Hydrate(p)
  PROVE  Kept
<1> USE Standing DEF At
<1>1. UNCHANGED <<execs, nextId>> /\ proc[p].pc = "hydrate"
  BY DEF Hydrate, storeVars, ctlVars
<1>2. CASE Finish(p) BY <1>1, <1>2, FinishKept
<1>3. CASE ~Finish(p)
  <2>1. PICK s : /\ Become(p, s)
                 /\ \/ s = [proc[p] EXCEPT !.pc = "hit"]
                    \/ s = [proc[p] EXCEPT !.pc = "heal", !.drop = SeenBlobs(p), !.seen = {}]
    BY <1>3 DEF Hydrate, Go
  <2>2. /\ s.pc \in {"hit", "heal"} /\ s.key = proc[p].key /\ s.mode = proc[p].mode
        /\ s.locked = proc[p].locked /\ s.row = proc[p].row /\ s.filling = proc[p].filling
    BY <2>1 DEF ProcState
  <2>3. SameRole(p, s)
    BY <1>1, <2>2 DEF SameRole, IsRecording, IsReading, IsPurging, Reading, RepairPC, Covered
  <2> QED BY <1>1, <2>1, <2>3, SameRoleKept
<1> QED BY <1>2, <1>3

\* Steps to a label where a call neither reads, records nor purges.
LEMMA ElsewhereKept ==
  ASSUME IInv, LockInv, UNCHANGED <<execs, nextId>>, NEW p \in Proc, NEW s, Become(p, s),
         s.key = proc[p].key, s.mode = proc[p].mode, s.locked = proc[p].locked, ~s.filling,
         s.pc \in {"fillAcquire", "recorded", "purgeAcquire"}
  PROVE  Kept
<1>1. SameRole(p, s) BY DEF SameRole, IsRecording, IsReading, IsPurging, RepairPC
<1> QED BY <1>1, SameRoleKept

LEMMA ServeHitKept ==
  ASSUME IInv, LockInv, NEW p \in Proc, ServeHit(p)
  PROVE  Kept
<1> USE Standing DEF At
<1>1. UNCHANGED <<execs, nextId>> /\ proc[p].pc = "hit"
  BY DEF ServeHit, storeVars, ctlVars
<1>2. CASE Finish(p) BY <1>1, <1>2, FinishKept
<1>3. CASE ~Finish(p)
  <2> DEFINE s == [proc[p] EXCEPT !.pc = "fillAcquire"]
  <2>1. Become(p, s) BY <1>3 DEF ServeHit, Go
  <2>2. /\ s.pc = "fillAcquire" /\ s.key = proc[p].key /\ s.mode = proc[p].mode
        /\ s.locked = proc[p].locked /\ ~s.filling
    BY <1>1 DEF ProcState, Covered
  <2> HIDE DEF s
  <2> QED BY <1>1, <2>1, <2>2, ElsewhereKept
<1> QED BY <1>2, <1>3

LEMMA HealBlobKept ==
  ASSUME IInv, LockInv, NEW p \in Proc, HealBlob(p)
  PROVE  Kept
<1> USE Standing DEF At
<1> DEFINE s(b) == [proc[p] EXCEPT !.drop = proc[p].drop \ {b}]
<1>1. UNCHANGED <<execs, nextId>> /\ proc[p].pc = "heal"
  BY DEF HealBlob, RemoveBlob, ctlVars
<1>2. PICK b : Become(p, s(b)) BY DEF HealBlob
<1>3. /\ s(b).pc = "heal" /\ s(b).key = proc[p].key /\ s(b).mode = proc[p].mode
      /\ s(b).locked = proc[p].locked /\ s(b).row = proc[p].row
      /\ s(b).filling = proc[p].filling
  BY <1>1 DEF ProcState
<1> HIDE DEF s
<1>4. SameRole(p, s(b))
  BY <1>1, <1>3 DEF SameRole, IsRecording, IsReading, IsPurging, Reading, RepairPC, Covered
<1> QED BY <1>1, <1>2, <1>4, SameRoleKept

LEMMA AcquireKept ==
  ASSUME IInv, LockInv, ~LockTimeouts, NEW p \in Proc, Acquire(p)
  PROVE  Kept
<1> USE Standing DEF At
<1> DEFINE label == IF proc[p].mode = "CACHE" THEN "find" ELSE "save"
           s == [proc[p] EXCEPT !.pc = label, !.locked = TRUE, !.row = 0, !.seen = {}]
<1>1. UNCHANGED <<execs, nextId>> /\ proc[p].pc = "acquire"
  BY DEF Acquire, storeVars, ctlVars
<1>2. AcquireKey(p, proc[p].key, s) BY DEF Acquire
<1>3. /\ s.pc \in {"find", "save"}
      /\ s.pc = "save" => s.mode # "CACHE"
      /\ s.key = proc[p].key /\ s.locked /\ s.filling = proc[p].filling
  BY <1>1 DEF ProcState
<1> HIDE DEF s
<1>4. proc[p].key \in Key BY <1>1 DEF LocalInv, CallPC
<1>5. HeldStep(p) /\ proc[p].key \in held'[p] BY <1>2, <1>4, HeldAcquire
<1>6. Fits(p, s)
  BY <1>1, <1>3, <1>5 DEF Fits, Covered, RecorderFits, ReaderFits, MissFits, IsRecording,
     IsReading, IsPurging, RepairPC
<1> QED BY <1>1, <1>2, <1>5, <1>6, QuietKept DEF AcquireKey

\* Back-filling: its steps are not a recording, nor a reading of its own.
LEMMA FillKept ==
  ASSUME IInv, LockInv, ~LockTimeouts, NEW p \in Proc,
         FillAcquire(p) \/ FillRead(p) \/ FillAdd(p)
  PROVE  Kept
<1> USE Standing DEF At
<1>1. UNCHANGED <<execs, nextId>>
  BY DEF FillAcquire, FillRead, FillAdd, AddInputArtifacts, storeVars, ctlVars
<1>2. CASE FillAcquire(p)
  <2> DEFINE s == [proc[p] EXCEPT !.pc = "fillRead", !.row = 0, !.seen = {}]
  <2>1. AcquireKey(p, proc[p].key, s) /\ proc[p].pc = "fillAcquire" BY <1>2 DEF FillAcquire
  <2>2. /\ s.pc = "fillRead" /\ s.key = proc[p].key /\ s.locked = proc[p].locked
        /\ s.filling = proc[p].filling
    BY DEF ProcState
  <2> HIDE DEF s
  <2>3. proc[p].key \in Key BY <2>1 DEF LocalInv, CallPC
  <2>4. HeldStep(p) /\ held[p] \subseteq held'[p] BY <2>1, <2>3, HeldAcquire
  <2>5. Fits(p, s)
    BY <2>1, <2>2, <2>4 DEF Fits, Covered, RecorderFits, ReaderFits, MissFits, IsRecording,
       IsReading, IsPurging, RepairPC
  <2> QED BY <1>1, <2>1, <2>4, <2>5, QuietKept DEF AcquireKey
<1>3. CASE FillRead(p) /\ Finish(p) BY <1>1, <1>3, FinishKept
<1>4. CASE FillRead(p) /\ ~Finish(p)
  <2> DEFINE s(i) == [proc[p] EXCEPT !.pc = "fillAdd", !.row = i, !.doc = InputDoc,
                                     !.filling = TRUE]
  <2>1. PICK i : Become(p, s(i)) BY <1>4 DEF FillRead
  <2>2. /\ s(i).pc = "fillAdd" /\ s(i).filling /\ s(i).key = proc[p].key
        /\ s(i).mode = proc[p].mode /\ s(i).locked = proc[p].locked
    BY DEF ProcState
  <2> HIDE DEF s
  <2>3. SameRole(p, s(i)) BY <2>2 DEF SameRole, IsRecording, IsReading, IsPurging, RepairPC
  <2> QED BY <1>1, <2>1, <2>3, SameRoleKept
<1>5. CASE FillAdd(p)
  <2> DEFINE s == [proc[p] EXCEPT !.pc = "put"]
  <2>1. Become(p, s) /\ proc[p].filling BY <1>5 DEF FillAdd, Go, Covered
  <2>2. /\ s.pc = "put" /\ s.filling /\ s.key = proc[p].key
        /\ s.mode = proc[p].mode /\ s.locked = proc[p].locked
    BY <2>1 DEF ProcState
  <2> HIDE DEF s
  <2>3. SameRole(p, s) BY <2>2 DEF SameRole, IsRecording, IsReading, IsPurging, RepairPC
  <2> QED BY <1>1, <2>1, <2>3, SameRoleKept
<1> QED BY <1>2, <1>3, <1>4, <1>5

\* Storing the documents of a run, up to the checks of its finalize.
LEMMA StoringKept ==
  ASSUME IInv, LockInv, NEW p \in Proc,
         \/ InsertArtifact(p) \/ Put(p) \/ PutFails(p) \/ MarkStored(p) \/ MarkFails(p)
         \/ FinalizeRun(p) \/ SaveFails(p) \/ RowGone(p) \/ AfterRecord(p)
  PROVE  Kept
<1> USE Standing DEF At
<1>1. UNCHANGED <<execs, nextId>>
  BY DEF InsertArtifact, Put, PutFails, MarkStored, MarkFails, FinalizeRun, SaveFails, RowGone,
     AfterRecord, PersistArtifact, PutBlob, MarkArtifacts, storeVars, ctlVars
<1>2. CASE Finish(p) BY <1>1, <1>2, FinishKept
<1>3. ASSUME NEW s, Become(p, s), proc[p].pc \in {"insert", "put", "mark", "finalize"},
             s.key = proc[p].key, s.mode = proc[p].mode, s.locked = proc[p].locked,
             s.row = proc[p].row, s.filling = proc[p].filling,
             \/ s.pc \in {"put", "mark"}
             \/ s.pc \in {"insert", "finalize", "promote"} /\ ~proc[p].filling
      PROVE  Kept
  <2>1. SameRole(p, s)
    BY <1>3 DEF SameRole, IsRecording, IsReading, IsPurging, Recording, RepairPC
  <2> QED BY <1>1, <1>3, <2>1, SameRoleKept
<1>4. CASE InsertArtifact(p) \/ Put(p)
  <2>1. PICK label \in {"put", "mark"} : Go(p, label) BY <1>4 DEF InsertArtifact, Put
  <2> DEFINE s == [proc[p] EXCEPT !.pc = label]
  <2>2. /\ s.pc = label /\ s.key = proc[p].key /\ s.mode = proc[p].mode
        /\ s.locked = proc[p].locked /\ s.row = proc[p].row /\ s.filling = proc[p].filling
    BY DEF ProcState
  <2>3. Become(p, s) BY <2>1 DEF Go
  <2> HIDE DEF s
  <2> QED BY <1>3, <1>4, <2>2, <2>3 DEF InsertArtifact, Put
<1>5. ASSUME NEW ok, NextDocument(p, ok), proc[p].pc \in {"put", "mark"}, ~Finish(p)
      PROVE  Kept
  <2>1. PICK s : /\ Become(p, s) /\ ~proc[p].filling
                 /\ \/ s = [proc[p] EXCEPT !.pc = "insert", !.doc = proc[p].doc + 1, !.ok = ok]
                    \/ s = [proc[p] EXCEPT !.pc = "finalize", !.ok = ok]
    BY <1>5 DEF NextDocument
  <2>2. /\ s.pc \in {"insert", "finalize"} /\ s.key = proc[p].key /\ s.mode = proc[p].mode
        /\ s.locked = proc[p].locked /\ s.row = proc[p].row /\ s.filling = proc[p].filling
    BY <2>1 DEF ProcState
  <2> QED BY <1>3, <1>5, <2>1, <2>2
<1>6. CASE PutFails(p) BY <1>2, <1>5, <1>6 DEF PutFails
<1>7. CASE MarkStored(p) BY <1>2, <1>5, <1>7 DEF MarkStored
<1>8. CASE MarkFails(p) BY <1>2, <1>5, <1>8 DEF MarkFails
<1>9. CASE FinalizeRun(p) /\ ~Finish(p)
  <2> DEFINE s == [proc[p] EXCEPT !.pc = "promote", !.supersede = Supersedes(proc[p].row)]
  <2>1. Become(p, s) /\ proc[p].pc = "finalize" BY <1>9 DEF FinalizeRun, ToPromote
  <2>2. /\ s.pc = "promote" /\ s.key = proc[p].key /\ s.mode = proc[p].mode
        /\ s.locked = proc[p].locked /\ s.row = proc[p].row /\ s.filling = proc[p].filling
    BY DEF ProcState
  <2>3. ~proc[p].filling BY <2>1 DEF Covered
  <2> HIDE DEF s
  <2> QED BY <1>3, <2>1, <2>2, <2>3
<1>10. CASE AfterRecord(p) /\ ~Finish(p)
  <2> DEFINE s(ks) == [proc[p] EXCEPT !.pc = "purgeAcquire", !.victims = ks]
  <2>1. PICK ks : Become(p, s(ks)) /\ proc[p].pc = "recorded" BY <1>10 DEF AfterRecord
  <2>2. /\ s(ks).pc = "purgeAcquire" /\ s(ks).key = proc[p].key /\ s(ks).mode = proc[p].mode
        /\ s(ks).locked = proc[p].locked /\ ~s(ks).filling
    BY <2>1 DEF ProcState, Covered
  <2> HIDE DEF s
  <2> QED BY <1>1, <2>1, <2>2, ElsewhereKept
<1> QED BY <1>2, <1>4, <1>6, <1>7, <1>8, <1>9, <1>10 DEF SaveFails, RowGone

\* Purges, up to the rows they remove, and aborts.
LEMMA PurgingKept ==
  ASSUME IInv, LockInv, ~LockTimeouts, NEW p \in Proc,
         StartPurge(p) \/ PurgeAcquire(p) \/ PurgeRead(p) \/ PurgeBlob(p) \/ PurgeNext(p) \/ Abort(p)
  PROVE  Kept
<1> USE Standing DEF At
<1>1. UNCHANGED <<execs, nextId>>
  BY DEF StartPurge, PurgeAcquire, PurgeRead, PurgeBlob, PurgeNext, Abort, RemoveBlob,
     storeVars, ctlVars
<1>2. CASE Finish(p) BY <1>1, <1>2, FinishKept
<1>3. CASE StartPurge(p)
  <2> DEFINE s(m, ks) == [IdleProc EXCEPT !.pc = "purgeAcquire", !.mode = m, !.victims = ks]
  <2>1. PICK m, ks : Become(p, s(m, ks)) BY <1>3 DEF StartPurge
  <2>2. s(m, ks).pc = "purgeAcquire" /\ ~s(m, ks).filling /\ ~s(m, ks).locked BY DEF IdleProc
  <2> HIDE DEF s
  <2>3. Fits(p, s(m, ks))
    BY <2>2 DEF Fits, Covered, RecorderFits, ReaderFits, MissFits, IsRecording, IsReading,
                IsPurging, RepairPC
  <2> QED BY <1>1, <2>1, <2>3, HeldSame, QuietKept DEF Become
<1>4. CASE PurgeAcquire(p)
  <2> DEFINE s(k) == [proc[p] EXCEPT !.pc = "purgeRead", !.victim = k,
                                     !.victims = proc[p].victims \ {k}]
  <2>1. PICK k \in proc[p].victims : AcquireKey(p, k, s(k)) /\ proc[p].pc = "purgeAcquire"
    BY <1>4 DEF PurgeAcquire
  <2>2. /\ s(k).pc = "purgeRead" /\ s(k).victim = k /\ s(k).key = proc[p].key
        /\ s(k).locked = proc[p].locked /\ s(k).filling = proc[p].filling
    BY DEF ProcState
  <2> HIDE DEF s
  <2>3. k \in Key BY DEF ProcState
  <2>4. HeldStep(p) /\ k \in held'[p] /\ held[p] \subseteq held'[p] BY <2>1, <2>3, HeldAcquire
  <2>5. Fits(p, s(k))
    BY <2>1, <2>2, <2>4 DEF Fits, Covered, RecorderFits, ReaderFits, MissFits, IsRecording,
       IsReading, IsPurging, RepairPC
  <2> QED BY <1>1, <2>1, <2>4, <2>5, QuietKept DEF AcquireKey
<1>5. ASSUME NEW s, Become(p, s), Purging(p), s.pc \in {"purgeRows", "purgeBlobs"},
             s.key = proc[p].key, s.mode = proc[p].mode, s.locked = proc[p].locked,
             s.victim = proc[p].victim, s.filling = proc[p].filling
      PROVE  Kept
  <2>1. SameRole(p, s)
    BY <1>5 DEF SameRole, IsRecording, IsReading, IsPurging, Purging, RepairPC, Covered
  <2> QED BY <1>1, <1>5, <2>1, SameRoleKept
<1>6. CASE PurgeRead(p)
  <2> DEFINE D == {BlobOf(a) : a \in {x \in artifacts : x.exec \in RowsOf(proc[p].victim)}}
             s == [proc[p] EXCEPT !.pc = "purgeRows", !.drop = D]
  <2>1. Become(p, s) /\ Purging(p) BY <1>6 DEF PurgeRead, Purging
  <2>2. /\ s.pc = "purgeRows" /\ s.key = proc[p].key /\ s.mode = proc[p].mode
        /\ s.locked = proc[p].locked /\ s.victim = proc[p].victim
        /\ s.filling = proc[p].filling
    BY DEF ProcState
  <2> HIDE DEF s
  <2> QED BY <1>5, <2>1, <2>2
<1>7. CASE PurgeBlob(p)
  <2> DEFINE s(b) == [proc[p] EXCEPT !.drop = proc[p].drop \ {b}]
  <2>1. PICK b : Become(p, s(b)) /\ Purging(p) BY <1>7 DEF PurgeBlob, Purging
  <2>2. /\ s(b).pc = "purgeBlobs" /\ s(b).key = proc[p].key /\ s(b).mode = proc[p].mode
        /\ s(b).locked = proc[p].locked /\ s(b).victim = proc[p].victim
        /\ s(b).filling = proc[p].filling
    BY <1>7 DEF ProcState, PurgeBlob
  <2> HIDE DEF s
  <2> QED BY <1>5, <2>1, <2>2
<1>8. CASE PurgeNext(p) /\ ~Finish(p)
  <2> DEFINE s == [proc[p] EXCEPT !.pc = "purgeAcquire", !.victim = NoKey]
             h == held[p] \ ({proc[p].victim} \ {proc[p].key})
  <2>1. proc' = [proc EXCEPT ![p] = s] /\ held' = [held EXCEPT ![p] = h]
        /\ proc[p].pc = "purgeBlobs"
    BY <1>8 DEF PurgeNext, IInv, TypeOK
  <2>2. /\ s.pc = "purgeAcquire" /\ s.key = proc[p].key
        /\ s.locked = proc[p].locked /\ s.filling = proc[p].filling
    BY DEF ProcState
  <2>3. HeldStep(p) /\ held'[p] = h
    BY <2>1 DEF HeldStep, IInv, TypeOK, LockInv, LocksGuard
  <2>4. proc[p].locked => proc[p].key \in h BY DEF Covered
  <2> HIDE DEF s, h
  <2>5. Fits(p, s)
    BY <2>1, <2>2, <2>3, <2>4 DEF Fits, Covered, RecorderFits, ReaderFits, MissFits,
       IsRecording, IsReading, IsPurging, RepairPC
  <2> QED BY <1>1, <2>1, <2>3, <2>5, QuietKept
<1> QED BY <1>2, <1>3, <1>4, <1>6, <1>7, <1>8 DEF Abort

-----------------------------------------------------------------------------
(* Steps that change rows.                                                 *)

\* Two recorders have different keys and different rows.
LEMMA RecordersApart ==
  ASSUME LockInv, NEW p \in Proc, Recording(p), NEW q \in Proc \ {p}, Recording(q)
  PROVE  proc[q].key # proc[p].key /\ proc[q].row # proc[p].row
<1>1. proc[p].key \in held[p] /\ proc[q].key \in held[q] BY DEF LockInv, LocksGuard
<1>2. proc[q].key # proc[p].key BY <1>1 DEF LockInv, LocksGuard
<1> QED BY <1>2 DEF LockInv, RecorderOwnsRow

\* A quarantine, or an interrupted run: one row is removed.
LEMMA RemoveRow ==
  ASSUME IInv, NEW i, RemoveExecution(i)
  PROVE  /\ \A j \in Id \ {i} : execs'[j] = execs[j]
         /\ \A k : NewCurrent(k) \cap {i} = {}
<1> USE DEF IInv, TypeOK, StoreTypeOK
<1>1. CASE Exists(i)
  <2>1. execs' = [execs EXCEPT ![i] = AbsentRow] BY <1>1 DEF RemoveExecution
  <2>2. AbsentRow.state = "ABSENT" BY DEF AbsentRow
  <2> QED BY <2>1, <2>2 DEF NewCurrent
<1>2. CASE ~Exists(i)
  BY <1>2 DEF RemoveExecution, storeVars, NewCurrent, Exists
<1> QED BY <1>1, <1>2

LEMMA HealRowsKept ==
  ASSUME IInv, LockInv, NEW p \in Proc, HealRows(p)
  PROVE  Kept
<1> USE Standing DEF At
<1> DEFINE S == {proc[p].row}
<1>1. /\ RemoveExecution(proc[p].row) /\ Miss(p) /\ nextId' = nextId /\ proc[p].pc = "heal"
      /\ nextId' \in Nat /\ nextId <= nextId'
  BY StoreAssumption DEF HealRows, ctlVars, IInv, TypeOK
<1>2. Reading(p) BY <1>1 DEF Reading
<1>3. /\ \A i \in Id \ S : execs'[i] = execs[i]
      /\ \A k : NewCurrent(k) \cap S = {}
  BY <1>1, RemoveRow
<1>4. S \in SUBSET Id /\ \A q \in Proc \ {p} : Recording(q) => proc[q].row \notin S
  BY <1>2 DEF LockInv, ReaderAvoidsRecorders
<1>5. proc[p].locked => NewCurrent(proc[p].key) = {}
  <2>1. NewCurrent(proc[p].key) \subseteq CurrentOf(proc[p].key)
    BY <1>3 DEF NewCurrent, CurrentOf, Servable
  <2> QED BY <1>2, <1>3, <2>1 DEF LockInv, ReaderAvoidsRecorders
<1>6. PICK s : proc' = [proc EXCEPT ![p] = s] /\ HeldStep(p) /\ Fits(p, s)
  <2>1. CASE Finish(p) BY <2>1, IdleFits, HeldFinish DEF Finish
  <2>2. CASE ~Finish(p)
    <3> DEFINE s == [proc[p] EXCEPT !.pc = IF proc[p].locked THEN "save" ELSE "acquire"]
    <3>1. Become(p, s) BY <1>1, <2>2 DEF Miss, Go
    <3>2. /\ s.pc = (IF proc[p].locked THEN "save" ELSE "acquire")
          /\ s.key = proc[p].key /\ s.locked = proc[p].locked /\ s.filling = proc[p].filling
      BY DEF ProcState
    <3> HIDE DEF s
    <3>3. HeldStep(p) /\ held'[p] = held[p] BY <3>1, HeldSame DEF Become
    <3>4. Fits(p, s)
      BY <1>1, <1>5, <3>2, <3>3 DEF Fits, Covered, RecorderFits, ReaderFits, MissFits,
         IsRecording, IsReading, IsPurging, RepairPC
    <3> QED BY <3>1, <3>3, <3>4 DEF Become
  <2> QED BY <2>1, <2>2
<1> HIDE DEF S
<1>7. /\ LockInv' /\ Forward
      /\ \A k \in Key : CurrentOf(k) # {} /\ CurrentOf(k)' = {} => CurrentOf(k) \cap S # {}
  BY <1>1, <1>3, <1>4, <1>6, RowsStep
<1> QED BY <1>1, <1>7 DEF Kept, NoneLost, S

\* Removing, settling or adding a row that no other process relies on and that
\* is servable neither before nor after.
LEMMA UnservedKept ==
  ASSUME IInv, LockInv, NEW p \in Proc, NEW s, proc' = [proc EXCEPT ![p] = s],
         HeldStep(p), Fits(p, s), nextId' \in Nat, nextId <= nextId',
         NEW i \in Id, \A j \in Id \ {i} : execs'[j] = execs[j],
         ~Servable(i), \A k : i \notin NewCurrent(k),
         \A q \in Proc \ {p} : Recording(q) => proc[q].row # i
  PROVE  Kept
<1>1. PICK S \in SUBSET Id : S = {i} OBVIOUS
<1>2. /\ \A j \in Id \ S : execs'[j] = execs[j]
      /\ \A k : NewCurrent(k) \cap S = {}
      /\ \A q \in Proc \ {p} : Recording(q) => proc[q].row \notin S
  BY <1>1
<1>3. /\ LockInv' /\ Forward
      /\ \A k \in Key : CurrentOf(k) # {} /\ CurrentOf(k)' = {} => CurrentOf(k) \cap S # {}
  BY <1>2, RowsStep
<1> QED BY <1>1, <1>3 DEF Kept, NoneLost, CurrentOf

\* Ids from nextId on name no row yet.
LEMMA FreshRow ==
  ASSUME IInv, nextId <= MaxRuns
  PROVE  /\ nextId \in Id /\ ~Servable(nextId)
         /\ nextId' = nextId + 1 => nextId < nextId'
         /\ \A i \in Id : i < nextId => i # nextId
         /\ \A i \in Id : Exists(i) => i < nextId
<1>1. nextId \in Nat /\ nextId >= 1 BY StoreAssumption DEF IInv, TypeOK
<1>2. nextId \in Id BY <1>1, StoreAssumption DEF Id
<1>3. \A i \in Id : i \in Nat BY DEF Id
<1>4. \A i \in Id : Exists(i) => i < nextId BY DEF IInv, UnfinishedIsBare
<1> QED BY <1>1, <1>2, <1>3, <1>4 DEF Servable, Exists

LEMMA SaveKept ==
  ASSUME IInv, LockInv, NEW p \in Proc, SaveInProgress(p)
  PROVE  Kept
<1> USE Standing DEF At
<1> DEFINE s == [proc[p] EXCEPT !.pc = "client", !.row = nextId, !.seen = {}]
           new == [key |-> proc[p].key, state |-> "IN_PROGRESS",
                   persisted |-> FALSE, superseded |-> FALSE]
<1>1. /\ proc[p].pc = "save" /\ nextId <= MaxRuns /\ Become(p, s)
      /\ execs' = [execs EXCEPT ![nextId] = new] /\ nextId' = nextId + 1
  BY DEF SaveInProgress, Save
<1>2. /\ s.pc = "client" /\ s.row = nextId /\ s.key = proc[p].key
      /\ s.mode = proc[p].mode /\ s.locked = proc[p].locked /\ s.filling = proc[p].filling
  BY DEF ProcState
<1>3. /\ new.key = proc[p].key /\ new.state = "IN_PROGRESS"
      /\ ~new.persisted /\ ~new.superseded
  OBVIOUS
<1> HIDE DEF s, new
<1>4. nextId \in Id /\ ~Servable(nextId) /\ nextId < nextId'
      /\ nextId' \in Nat /\ nextId <= nextId'
  BY <1>1, FreshRow, StoreAssumption DEF IInv, TypeOK
<1>5. execs'[nextId] = new /\ \A j \in Id \ {nextId} : execs'[j] = execs[j]
  BY <1>1, <1>4 DEF IInv, TypeOK, StoreTypeOK
<1>6. \A k : nextId \notin NewCurrent(k) /\ NewCurrent(k) \subseteq CurrentOf(k)
  BY <1>3, <1>5 DEF NewCurrent, CurrentOf, Servable
<1>7. /\ \A q \in Proc \ {p} : Recording(q) => proc[q].row # nextId
      /\ \A q \in Proc \ {p} : Reading(q) => proc[q].row # nextId
  BY <1>1, FreshRow DEF LockInv, RecorderOwnsRow, ReaderAvoidsRecorders
<1>8. HeldStep(p) /\ held'[p] = held[p] BY <1>1, HeldSame DEF Become
<1>9. Covered(s, held'[p])
  BY <1>1, <1>2, <1>8 DEF Covered, IsRecording, IsPurging, RepairPC
<1>10. \A i \in NewCurrent(s.key) : i < s.row
  BY <1>1, <1>2, <1>6, FreshRow DEF CurrentOf, Servable, Exists
<1>11. RecorderFits(p, s)
  BY <1>2, <1>3, <1>4, <1>5, <1>7, <1>10 DEF RecorderFits
<1>12. MissFits(s) BY <1>1, <1>2, <1>6 DEF MissFits, LockInv, MissStays
<1>13. Fits(p, s) BY <1>2, <1>9, <1>11, <1>12 DEF Fits, ReaderFits, IsReading
<1> QED BY <1>1, <1>4, <1>5, <1>6, <1>7, <1>8, <1>13, UnservedKept DEF Become

\* The ways out of the client: the outcome is recorded, or the row is removed.
LEMMA ClientKept ==
  ASSUME IInv, LockInv, NEW p \in Proc,
         ClientAnswers(p) \/ ClientFails(p) \/ ClientInterrupted(p)
  PROVE  Kept
<1> USE Standing DEF At
<1> DEFINE i == proc[p].row
<1>1. proc[p].pc = "client" /\ nextId' = nextId /\ nextId' \in Nat /\ nextId <= nextId'
  BY StoreAssumption
  DEF ClientAnswers, ClientFails, ClientInterrupted, ctlVars, IInv, TypeOK
<1>2. Recording(p) /\ ~proc[p].filling BY <1>1 DEF Recording, Covered
<1>3. /\ i \in Id /\ i < nextId /\ execs[i].state # "ABSENT" /\ execs[i].key = proc[p].key
      /\ ~execs[i].persisted /\ ~execs[i].superseded
      /\ \A j \in CurrentOf(proc[p].key) : j < i
  BY <1>2 DEF LockInv, RecorderOwnsRow, Exists
<1>4. /\ \A q \in Proc \ {p} : Recording(q) => proc[q].row # i
      /\ \A q \in Proc \ {p} : Reading(q) => proc[q].row # i
  BY <1>2, RecordersApart DEF LockInv, ReaderAvoidsRecorders
<1>5. ~Servable(i) BY <1>3 DEF Servable
<1>6. CASE ClientInterrupted(p)
  <2>1. RemoveExecution(i) /\ Finish(p) BY <1>6 DEF ClientInterrupted
  <2>2. (\A j \in Id \ {i} : execs'[j] = execs[j]) /\ \A k : i \notin NewCurrent(k)
    BY <2>1, RemoveRow
  <2>3. HeldStep(p) /\ proc' = [proc EXCEPT ![p] = IdleProc] BY <2>1, HeldFinish DEF Finish
  <2> QED BY <1>1, <1>3, <1>4, <1>5, <2>2, <2>3, IdleFits, UnservedKept
<1>7. ASSUME ClientAnswers(p) \/ ClientFails(p)
      PROVE  /\ \A j \in Id \ {i} : execs'[j] = execs[j]
             /\ execs'[i].state # "ABSENT" /\ execs'[i].key = proc[p].key
             /\ ~execs'[i].persisted /\ ~execs'[i].superseded
             /\ \A k : i \notin NewCurrent(k) /\ NewCurrent(k) \subseteq CurrentOf(k)
  <2>1. PICK outcome \in {"SUCCESS", "FAILED"} : RecordOutcome(i, outcome)
    BY <1>7 DEF ClientAnswers, ClientFails
  <2>2. execs' = [execs EXCEPT ![i].state = outcome] BY <2>1 DEF RecordOutcome
  <2>3. \A j \in Id \ {i} : execs'[j] = execs[j] BY <2>2 DEF IInv, TypeOK, StoreTypeOK
  <2>4. /\ execs'[i].state = outcome /\ execs'[i].key = proc[p].key
        /\ ~execs'[i].persisted /\ ~execs'[i].superseded
    BY <1>3, <2>2 DEF IInv, TypeOK, StoreTypeOK, Execution
  <2>5. \A k : i \notin NewCurrent(k) /\ NewCurrent(k) \subseteq CurrentOf(k)
    BY <2>3, <2>4 DEF NewCurrent, CurrentOf, Servable
  <2> QED BY <2>3, <2>4, <2>5
<1>8. CASE ClientFails(p)
  <2>1. HeldStep(p) /\ proc' = [proc EXCEPT ![p] = IdleProc]
    BY <1>8, HeldFinish DEF ClientFails, Finish
  <2> QED BY <1>1, <1>3, <1>4, <1>5, <1>7, <1>8, <2>1, IdleFits, UnservedKept
<1>9. CASE ClientAnswers(p)
  <2> DEFINE s == [proc[p] EXCEPT !.pc = "insert", !.doc = 1]
  <2>1. Become(p, s) BY <1>9 DEF ClientAnswers
  <2>2. /\ s.pc = "insert" /\ s.row = i /\ s.key = proc[p].key
        /\ s.mode = proc[p].mode /\ s.locked = proc[p].locked /\ ~s.filling
    BY <1>2 DEF ProcState
  <2> HIDE DEF s
  <2>3. HeldStep(p) /\ held'[p] = held[p] BY <2>1, HeldSame DEF Become
  <2>4. Covered(s, held'[p])
    BY <1>1, <1>2, <2>2, <2>3 DEF Covered, IsRecording, IsPurging, RepairPC
  <2>5. RecorderFits(p, s) BY <1>1, <1>3, <1>4, <1>7, <1>9, <2>2 DEF RecorderFits
  <2>6. MissFits(s) BY <1>2, <1>7, <1>9, <2>2 DEF MissFits, LockInv, MissStays
  <2>7. Fits(p, s) BY <2>2, <2>4, <2>5, <2>6 DEF Fits, ReaderFits, IsReading
  <2> QED BY <1>1, <1>3, <1>4, <1>5, <1>7, <1>9, <2>1, <2>3, <2>7, UnservedKept DEF Become
<1> QED BY <1>6, <1>8, <1>9

LEMMA PurgeRowsKept ==
  ASSUME IInv, LockInv, NEW p \in Proc, PurgeRows(p)
  PROVE  Kept
<1> USE Standing DEF At
<1> DEFINE s == [proc[p] EXCEPT !.pc = "purgeBlobs"]
           k == proc[p].victim
<1>1. /\ proc[p].pc = "purgeRows" /\ Become(p, s) /\ nextId' = nextId
      /\ SoftPurgeExecution(k) \/ HardDeleteExecution(k)
      /\ nextId' \in Nat /\ nextId <= nextId'
  BY StoreAssumption DEF PurgeRows, Go, ctlVars, IInv, TypeOK
<1>2. /\ s.pc = "purgeBlobs" /\ s.victim = k /\ s.key = proc[p].key
      /\ s.locked = proc[p].locked /\ s.filling = proc[p].filling
  BY DEF ProcState
<1> HIDE DEF s
<1>3. k \in held[p] BY <1>1 DEF Covered, IsPurging
<1>4. PICK S \in SUBSET Id : S = RowsOf(k) BY DEF RowsOf
<1>5. \A i \in Id \ S : execs'[i] = execs[i]
  BY <1>1, <1>4 DEF SoftPurgeExecution, HardDeleteExecution
<1>6. \A i \in S : execs'[i].state = "ABSENT" \/ ~execs'[i].persisted
  <2>1. CASE HardDeleteExecution(k) BY <1>4, <2>1 DEF HardDeleteExecution, AbsentRow
  <2>2. CASE SoftPurgeExecution(k)
    BY <1>4, <2>2 DEF SoftPurgeExecution, IInv, TypeOK, StoreTypeOK, Execution
  <2> QED BY <1>1, <2>1, <2>2
<1>7. \A l : NewCurrent(l) \cap S = {} BY <1>6 DEF NewCurrent
<1>8. \A q \in Proc \ {p} : Recording(q) => proc[q].row \notin S
  <2> SUFFICES ASSUME NEW q \in Proc \ {p}, Recording(q) PROVE proc[q].row \notin S
    OBVIOUS
  <2>1. proc[q].key \in held[q] BY DEF LockInv, LocksGuard
  <2>2. proc[q].key # k BY <1>3, <2>1 DEF LockInv, LocksGuard
  <2> QED BY <1>4, <2>2 DEF RowsOf, LockInv, RecorderOwnsRow
<1>9. HeldStep(p) /\ held'[p] = held[p] BY <1>1, HeldSame DEF Become
<1>10. Fits(p, s)
  BY <1>1, <1>2, <1>3, <1>9 DEF Fits, Covered, RecorderFits, ReaderFits, MissFits, IsRecording,
     IsReading, IsPurging, RepairPC
<1>11. /\ LockInv' /\ Forward
       /\ \A l \in Key : CurrentOf(l) # {} /\ CurrentOf(l)' = {} => CurrentOf(l) \cap S # {}
  BY <1>1, <1>5, <1>7, <1>8, <1>9, <1>10, RowsStep DEF Become
<1>12. \A l \in Key : CurrentOf(l) \cap S # {} => l = k BY <1>4 DEF CurrentOf, RowsOf
<1> QED BY <1>1, <1>11, <1>12 DEF Kept, NoneLost

\* What a promotion under the lock does to the current rows.
LEMMA PromoteRows ==
  ASSUME IInv, NEW i \in Id, Exists(i), NEW k, execs[i].key = k,
         ~execs[i].persisted, ~execs[i].superseded, Promote(i, Supersedes(i))
  PROVE  /\ \A j \in Id : execs'[j].key = execs[j].key /\ execs'[j].state = execs[j].state
         /\ \A j \in Id : ~execs[j].persisted /\ j # i => execs'[j] = execs[j]
         /\ \A l : l # k => NewCurrent(l) \subseteq CurrentOf(l)
         /\ \A l : l # k => CurrentOf(l) \subseteq NewCurrent(l)
         /\ \/ NewCurrent(k) = {i}
            \/ NewCurrent(k) = CurrentOf(k)
<1> USE DEF IInv, TypeOK, StoreTypeOK
<1> DEFINE o == Supersedes(i)
<1>1. ASSUME NEW j \in Id
      PROVE  /\ execs'[j].key = execs[j].key
             /\ execs'[j].state = execs[j].state
             /\ execs'[j].persisted = (execs[j].persisted \/ (j = i /\ Exists(j)))
             /\ execs'[j].superseded = (execs[j].superseded \/ SupersededBy(o, j))
             /\ ~SupersededBy(o, j) /\ j # i => execs'[j] = execs[j]
  <2> DEFINE sup == execs[j].superseded \/ SupersededBy(o, j)
             per == execs[j].persisted \/ (j = i /\ Exists(j))
  <2>1. execs'[j] = [execs[j] EXCEPT !.superseded = sup, !.persisted = per]
    BY DEF Promote
  <2>2. execs[j] \in Execution OBVIOUS
  <2>3. sup \in BOOLEAN /\ per \in BOOLEAN OBVIOUS
  <2>4. ~SupersededBy(o, j) /\ j # i => sup = execs[j].superseded /\ per = execs[j].persisted
    BY <2>2 DEF Execution
  <2> HIDE DEF sup, per
  <2>5. /\ execs'[j].key = execs[j].key
        /\ execs'[j].state = execs[j].state
        /\ execs'[j].persisted = per
        /\ execs'[j].superseded = sup
    BY <2>1, <2>2, <2>3 DEF Execution
  <2>6. ~SupersededBy(o, j) /\ j # i => execs'[j] = execs[j]
    BY <2>1, <2>2, <2>4 DEF Execution
  <2> QED BY <2>5, <2>6 DEF sup, per
<1>2. o = k \/ o = NoKey BY DEF Supersedes
<1>3. \A j \in Id : Servable(j) => execs[j].key # NoKey /\ execs[j].persisted
  <2>1. \A j \in Id : Servable(j) => execs[j].key \in identities
    BY DEF ReferencesResolve, Servable, Exists
  <2> QED BY <2>1, StoreAssumption DEF Servable
<1>4. \A j \in Id : ~execs[j].persisted /\ j # i => execs'[j] = execs[j]
  BY <1>1 DEF SupersededBy, Servable
<1>5. ASSUME NEW l, l # k
      PROVE  NewCurrent(l) \subseteq CurrentOf(l) /\ CurrentOf(l) \subseteq NewCurrent(l)
  <2>1. \A j \in Id : execs[j].key = l => j # i BY <1>5
  <2>2. \A j \in Id : Servable(j) /\ execs[j].key = l => ~SupersededBy(o, j)
    BY <1>2, <1>3, <1>5 DEF SupersededBy
  <2>3. \A j \in Id : execs[j].key = l /\ ~SupersededBy(o, j) => execs'[j] = execs[j]
    BY <1>1, <2>1
  <2>4. \A j \in Id : execs[j].key = l => (SupersededBy(o, j) => Servable(j))
    BY DEF SupersededBy
  <2> QED BY <1>1, <2>2, <2>3, <2>4 DEF NewCurrent, CurrentOf, Servable
<1>6. CASE execs[i].state = "SUCCESS"
  <2>1. o = k BY <1>6 DEF Supersedes
  <2>2. \A j \in Id : j # i => j \notin NewCurrent(k)
    BY <1>1, <2>1 DEF NewCurrent, SupersededBy, Servable
  <2>3. i \in NewCurrent(k) BY <1>1, <1>6 DEF NewCurrent, SupersededBy, Servable
  <2>4. NewCurrent(k) \subseteq Id BY DEF NewCurrent
  <2> QED BY <1>1, <1>4, <1>5, <2>2, <2>3, <2>4
<1>7. CASE execs[i].state # "SUCCESS"
  <2>1. o = NoKey BY <1>7 DEF Supersedes
  <2>2. \A j \in Id : ~SupersededBy(o, j) BY <1>3, <2>1 DEF SupersededBy
  <2>3. \A j \in Id : j # i => execs'[j] = execs[j] BY <1>1, <2>2
  <2>4. i \notin NewCurrent(k) /\ i \notin CurrentOf(k)
    BY <1>1, <1>7 DEF NewCurrent, CurrentOf, Servable
  <2>5. \A j \in Id : j \in NewCurrent(k) <=> j \in CurrentOf(k)
    BY <2>3, <2>4 DEF NewCurrent, CurrentOf, Servable
  <2>6. NewCurrent(k) \subseteq Id /\ CurrentOf(k) \subseteq Id BY DEF NewCurrent, CurrentOf
  <2>7. NewCurrent(k) = CurrentOf(k) BY <2>5, <2>6
  <2> QED BY <1>1, <1>4, <1>5, <2>7
<1> QED BY <1>6, <1>7

LEMMA PromoteRunKept ==
  ASSUME IInv, LockInv, NEW p \in Proc, PromoteRun(p)
  PROVE  Kept
<1> USE Standing DEF At
<1> DEFINE i == proc[p].row
           s == [proc[p] EXCEPT !.pc = "recorded", !.supersede = NoKey]
<1>1. /\ proc[p].pc = "promote" /\ Become(p, s) /\ Promote(i, proc[p].supersede)
      /\ nextId' = nextId /\ nextId' \in Nat /\ nextId <= nextId'
  BY StoreAssumption DEF PromoteRun, PromoteRow, ctlVars, IInv, TypeOK
<1>2. /\ s.pc = "recorded" /\ s.key = proc[p].key
      /\ s.locked = proc[p].locked /\ s.filling = proc[p].filling
  BY DEF ProcState
<1> HIDE DEF s
<1>3. Recording(p) /\ proc[p].key \in held[p]
  BY <1>1 DEF Recording, Covered, IsRecording
<1>4. PICK k : k = proc[p].key OBVIOUS
<1>5. /\ i \in Id /\ Exists(i) /\ execs[i].key = k
      /\ ~execs[i].persisted /\ ~execs[i].superseded
      /\ \A j \in CurrentOf(k) : j < i
  BY <1>3, <1>4 DEF LockInv, RecorderOwnsRow
<1>6. Promote(i, Supersedes(i)) BY <1>1, <1>5 DEF LocalInv, PromotePC
<1>7. /\ \A j \in Id : ~execs[j].persisted /\ j # i => execs'[j] = execs[j]
      /\ \A l : l # k => NewCurrent(l) \subseteq CurrentOf(l)
      /\ \A l : l # k => CurrentOf(l) \subseteq NewCurrent(l)
      /\ \/ NewCurrent(k) = {i}
         \/ NewCurrent(k) = CurrentOf(k)
  BY <1>5, <1>6, PromoteRows
<1>8. HeldStep(p) /\ held'[p] = held[p] BY <1>1, HeldSame DEF Become
<1>9. OthersSafe(p)
  <2>1. \A q \in Proc \ {p} : Recording(q) => execs'[proc[q].row] = execs[proc[q].row]
    BY <1>3, <1>7, RecordersApart DEF LockInv, RecorderOwnsRow
  <2>2. \A q \in Proc \ {p} : \A l \in held[q] : NewCurrent(l) \subseteq CurrentOf(l)
    BY <1>3, <1>4, <1>7 DEF LockInv, LocksGuard
  <2> QED BY <1>1, <1>8, <2>1, <2>2 DEF OthersSafe, HeldStep
<1>10. Fits(p, s)
  BY <1>1, <1>2, <1>8 DEF Fits, Covered, RecorderFits, ReaderFits, MissFits, IsRecording,
     IsReading, IsPurging, RepairPC
<1>11. LockInv' BY <1>1, <1>8, <1>9, <1>10, LockStep DEF Become, HeldStep
<1>12. NoneLost
  <2>1. \A l \in Key : CurrentOf(l) # {} => NewCurrent(l) # {} BY <1>7
  <2> QED BY <2>1, CurrentPrimed DEF NoneLost
<1>13. Forward
  <2> SUFFICES ASSUME NEW l \in Key, NEW x \in CurrentOf(l), NEW y \in NewCurrent(l)
               PROVE  x <= y
    BY CurrentPrimed DEF Forward
  <2>1. x \in Nat /\ i \in Nat BY <1>5, StoreAssumption DEF CurrentOf, Id
  <2>2. CASE y \in CurrentOf(l)
    <3>1. x = y BY <2>2 DEF IInv, AtMostOneCurrent, CurrentOf
    <3> QED BY <2>1, <3>1
  <2>3. CASE y \notin CurrentOf(l)
    <3>1. l = k /\ y = i BY <1>7, <2>3
    <3> QED BY <1>5, <2>1, <3>1
  <2> QED BY <2>2, <2>3
<1> QED BY <1>11, <1>12, <1>13 DEF Kept

-----------------------------------------------------------------------------
(* The theorems.                                                           *)

LEMMA InitLock == Init => LockInv
<1> SUFFICES ASSUME Init PROVE LockInv
  OBVIOUS
<1>1. \A p \in Proc : proc[p] = IdleProc /\ held[p] = {} BY DEF Init
<1>2. /\ IdleProc.pc = "idle" /\ ~IdleProc.locked /\ ~IdleProc.filling
  BY DEF IdleProc
<1>3. \A p \in Proc : ~Recording(p) /\ ~Reading(p) /\ ~Purging(p) /\ ~Repairing(p)
  BY <1>1, <1>2 DEF Recording, Reading, Purging, Repairing
<1> QED BY <1>1, <1>2, <1>3
        DEF LockInv, LocksGuard, RecorderOwnsRow, ReaderAvoidsRecorders, MissStays, At

\* LockInv is inductive: one lemma per group of actions; no process repairs.
LEMMA NextLock ==
  ASSUME ~LockTimeouts, "REPAIR" \notin Admin, IInv, LockInv, [Next]_vars
  PROVE  LockInv' /\ [NoneLost /\ Forward]_vars
<1>1. ASSUME NEW p \in Proc,
             \/ StartCall(p) \/ StartPurge(p) \/ StartRepair(p)
             \/ CallStep(p) \/ AdminStep(p) \/ Abort(p)
      PROVE  Kept
  <2>1. ~StartRepair(p) BY DEF StartRepair
  <2>2. ~(RepairNext(p) \/ RepairGet(p) \/ RepairMark(p) \/ RepairFinalize(p) \/ RepairPromote(p))
    <3>1. proc[p].pc \notin RepairPC BY Standing DEF Covered
    <3> QED BY <3>1
            DEF RepairNext, RepairGet, RepairMark, RepairFinalize, RepairPromote, RepairPC, At
  <2>3. CASE CallStep(p)
    BY <2>3, FindCurrentKept, LoadExecutionKept, HydrateKept, ServeHitKept, HealBlobKept,
       HealRowsKept, AcquireKept, SaveKept, ClientKept, StoringKept, PromoteRunKept, FillKept
    DEF CallStep
  <2>4. CASE AdminStep(p) BY <2>2, <2>4, PurgingKept, PurgeRowsKept DEF AdminStep
  <2> QED BY <1>1, <2>1, <2>3, <2>4, StartCallKept, PurgingKept
<1>2. CASE UNCHANGED vars
  <2>1. UNCHANGED <<execs, proc, held, nextId>> BY <1>2 DEF vars, storeVars, ctlVars
  <2> QED BY <1>2, <2>1
      DEF LockInv, LocksGuard, RecorderOwnsRow, ReaderAvoidsRecorders, MissStays,
          Recording, Reading, Purging, Repairing, At, CurrentOf, Servable, Exists
<1> QED BY <1>1, <1>2 DEF Next, Kept

\* The per-key lock of _run_fresh_locked does its work for every number of
\* callers, keys and runs: a recorder is alone with its key from its look under
\* the lock to its promotion, whatever purges, evictions, quarantines, crashes
\* and failures happen around it.
THEOREM LockInvHolds ==
  ASSUME ~LockTimeouts, "REPAIR" \notin Admin
  PROVE  Spec => []LockInv
BY InitLock, NextLock, InvariantHolds, PTL DEF Spec

\* "Record once" (_run_fresh_locked): the client never runs twice at a time for
\* one key, and a CACHE call never runs it while the key has an answer.
THEOREM RunOnce ==
  ASSUME ~LockTimeouts, "REPAIR" \notin Admin
  PROVE  Spec => []RecordOnce
<1>1. LockInv => RecordOnce
  <2> SUFFICES ASSUME LockInv, NEW p \in Proc, At(p, "client")
               PROVE  /\ proc[p].mode = "CACHE" => CurrentOf(proc[p].key) = {}
                      /\ \A q \in Proc \ {p} : ~(At(q, "client") /\ proc[q].key = proc[p].key)
    BY DEF RecordOnce
  <2>1. \A q \in Proc : At(q, "client") => Recording(q) /\ proc[q].key \in held[q]
    BY DEF LockInv, LocksGuard, Recording, At
  <2>2. proc[p].mode = "CACHE" => CurrentOf(proc[p].key) = {}
    BY <2>1 DEF LockInv, MissStays
  <2>3. \A q \in Proc \ {p} : ~(At(q, "client") /\ proc[q].key = proc[p].key)
    BY <2>1 DEF LockInv, LocksGuard
  <2> QED BY <2>2, <2>3
<1> QED BY <1>1, LockInvHolds, PTL

\* Both action properties, from the two invariants.
LEMMA StepsKeep ==
  ASSUME ~LockTimeouts, "REPAIR" \notin Admin
  PROVE  Spec => [][NoneLost /\ Forward]_vars
BY NextLock, InvariantHolds, LockInvHolds, PTL DEF Spec

\* A refresh keeps the old answer serving until the new one takes over: a key
\* loses its answer only to a purge of that key or to the quarantine of that
\* very entry.
THEOREM RefreshKeepsAnswer ==
  ASSUME ~LockTimeouts, "REPAIR" \notin Admin
  PROVE  Spec => AnswerNeverLost
<1>1. [NoneLost /\ Forward]_vars => [NoneLost]_vars OBVIOUS
<1>2. Spec => [][NoneLost]_vars BY <1>1, StepsKeep, PTL
<1> QED BY <1>2 DEF AnswerNeverLost, NoneLost

\* An answer is displaced by newer runs only: finalizing never brings back an
\* older answer of the key.
THEOREM AnswersMoveForward ==
  ASSUME ~LockTimeouts, "REPAIR" \notin Admin
  PROVE  Spec => CurrentMovesForward
<1>1. [NoneLost /\ Forward]_vars => [Forward]_vars OBVIOUS
<1>2. Spec => [][Forward]_vars BY <1>1, StepsKeep, PTL
<1> QED BY <1>2 DEF CurrentMovesForward, Forward
-----------------------------------------------------------------------------
(* RecordReplay implements AnswerStore.                                    *)

StageOf(s) ==
  IF s.pc \in {"find", "acquire", "save"} THEN "asking" ELSE IF IsReading(s) THEN "told"
  ELSE IF IsRecording(s) THEN "running" ELSE "idle"

SeenOf(s) ==
  IF StageOf(s) = "idle" THEN [mode |-> "CACHE", key |-> NoKey, run |-> 0]
  ELSE [mode |-> s.mode, key |-> s.key,
        run |-> IF s.pc \in {"find", "acquire", "save"} THEN 0 ELSE s.row]

\* A process that goes to s finds its part of CallsKeepMode and ReaderRowOfKey
\* true after the step.
KeepsMode(s) ==
  /\ StageOf(s) # "idle" => s.key \in Key
  /\ s.pc = "find" \/ IsReading(s) => s.mode \in {"CACHE", "OFFLINE"}
  /\ s.pc \in {"acquire", "save"} \/ IsRecording(s) => s.mode \in {"CACHE", "REFRESH"}
  /\ s.pc = "heal" => s.mode = "CACHE"

ReadsOwnKey(s) ==
  IsReading(s) /\ execs'[s.row].state # "ABSENT" => execs'[s.row].key = s.key

\* Rows come into being under fresh ids and keep their key.
KeysKept ==
  \A i \in Id : i < nextId /\ execs'[i].state # "ABSENT" =>
    Exists(i) /\ execs'[i].key = execs[i].key

LEMMA ViewNamed ==
  ASSUME NEW p \in Proc
  PROVE  /\ CallStage(p) = StageOf(proc[p])
         /\ CallSeen(p) = SeenOf(proc[p])
         /\ stages[p] = StageOf(proc[p])
         /\ calls[p] = SeenOf(proc[p])
<1>1. CallStage(p) = StageOf(proc[p])
  BY DEF CallStage, StageOf, Asking, Reading, Recording, IsReading, IsRecording
<1>2. CallSeen(p) = SeenOf(proc[p]) BY <1>1 DEF CallSeen, SeenOf, Asking
<1> QED BY <1>1, <1>2 DEF stages, calls

LEMMA ViewStep ==
  ASSUME IInv, NEW p \in Proc, NEW s, proc' = [proc EXCEPT ![p] = s]
  PROVE  /\ stages' = [stages EXCEPT ![p] = StageOf(s)]
         /\ calls' = [calls EXCEPT ![p] = SeenOf(s)]
<1>1. proc'[p] = s /\ \A q \in Proc \ {p} : proc'[q] = proc[q] BY DEF IInv, TypeOK
<1>2. ASSUME NEW q \in Proc
      PROVE  CallStage(q)' = StageOf(proc'[q]) /\ CallSeen(q)' = SeenOf(proc'[q])
  <2>1. CallStage(q)' = StageOf(proc'[q])
    BY DEF CallStage, StageOf, Asking, Reading, Recording, IsReading, IsRecording
  <2> QED BY <2>1 DEF CallSeen, SeenOf, Asking
<1>3. stages' = [q \in Proc |-> StageOf(proc'[q])] /\ calls' = [q \in Proc |-> SeenOf(proc'[q])]
  BY <1>2 DEF stages, calls
<1>4. /\ stages = [q \in Proc |-> StageOf(proc[q])]
      /\ calls = [q \in Proc |-> SeenOf(proc[q])]
  BY ViewNamed DEF stages, calls
<1>5. /\ stages' = [stages EXCEPT ![p] = StageOf(s)]
      /\ calls' = [calls EXCEPT ![p] = SeenOf(s)]
  <2>1. stages' = [stages EXCEPT ![p] = StageOf(s)]
    <3>1. \A q \in Proc : StageOf(proc'[q]) = (IF q = p THEN StageOf(s) ELSE StageOf(proc[q]))
      BY <1>1
    <3> QED BY <1>3, <1>4, <3>1
  <2>2. calls' = [calls EXCEPT ![p] = SeenOf(s)]
    <3>1. \A q \in Proc : SeenOf(proc'[q]) = (IF q = p THEN SeenOf(s) ELSE SeenOf(proc[q]))
      BY <1>1
    <3> QED BY <1>3, <1>4, <3>1
  <2> QED BY <2>1, <2>2
<1> QED BY <1>5

LEMMA NewestNone == Newest({}) = 0
BY DEF Newest

LEMMA NewestOne ==
  ASSUME NEW i \in Nat
  PROVE  Newest({i}) = i
<1>1. \E j \in {i} : \A l \in {i} : l <= j OBVIOUS
<1> QED BY <1>1 DEF Newest

\* The answers before and after a step, from the rows that are current.
LEMMA AnswersNamed ==
  ASSUME IInv, NEW k \in Key
  PROVE  /\ answers[k] = Newest(CurrentOf(k))
         /\ answers'[k] = Newest(NewCurrent(k))
         /\ CurrentOf(k) = {} => answers[k] = 0
         /\ \A i \in CurrentOf(k) : CurrentOf(k) = {i} /\ answers[k] = i /\ i \in Nat \ {0}
<1>1. answers[k] = Newest(CurrentOf(k)) /\ answers'[k] = Newest(CurrentOf(k)')
  BY DEF answers
<1>2. ASSUME NEW i \in CurrentOf(k)
      PROVE  CurrentOf(k) = {i} /\ answers[k] = i /\ i \in Nat \ {0}
  <2>1. i \in Nat \ {0} BY StoreAssumption DEF CurrentOf, Id
  <2>2. CurrentOf(k) = {i} BY DEF IInv, AtMostOneCurrent, CurrentOf
  <2> QED BY <1>1, <2>1, <2>2, NewestOne
<1> QED BY <1>1, <1>2, CurrentPrimed, NewestNone

LEMMA AnswersSame ==
  ASSUME \A k \in Key : NewCurrent(k) = CurrentOf(k)
  PROVE  answers' = answers
<1>1. \A k \in Key : CurrentOf(k)' = CurrentOf(k) BY CurrentPrimed
<1> QED BY <1>1 DEF answers

\* What a step keeps: its part of AnswerInv, and AnswerStore's view of it.
View == CallsKeepMode' /\ ReaderRowOfKey' /\ (Cache!Next \/ UNCHANGED Cache!vars)

LEMMA ModeStep ==
  ASSUME IInv, AnswerInv, NEW p \in Proc, NEW s, proc' = [proc EXCEPT ![p] = s],
         KeepsMode(s), ReadsOwnKey(s), KeysKept
  PROVE  CallsKeepMode' /\ ReaderRowOfKey'
<1>1. proc'[p] = s /\ \A q \in Proc \ {p} : proc'[q] = proc[q] BY DEF IInv, TypeOK
<1>2. ASSUME NEW q \in Proc PROVE KeepsMode(proc'[q])
  <2>1. CASE q = p BY <1>1, <2>1
  <2>2. CASE q # p
    <3>1. KeepsMode(proc[q])
      BY ViewNamed, StatesNamed DEF KeepsMode, AnswerInv, CallsKeepMode, At
    <3> QED BY <1>1, <2>2, <3>1
  <2> QED BY <2>1, <2>2
<1>3. CallsKeepMode'
  <2> SUFFICES ASSUME NEW q \in Proc
               PROVE  /\ CallStage(q)' # "idle" => proc'[q].key \in Key
                      /\ proc'[q].pc = "find" \/ IsReading(proc'[q]) =>
                           proc'[q].mode \in {"CACHE", "OFFLINE"}
                      /\ proc'[q].pc \in {"acquire", "save"} \/ IsRecording(proc'[q]) =>
                           proc'[q].mode \in {"CACHE", "REFRESH"}
                      /\ proc'[q].pc = "heal" => proc'[q].mode = "CACHE"
    BY DEF CallsKeepMode, At, Reading, Recording, IsReading, IsRecording
  <2>1. CallStage(q)' = StageOf(proc'[q])
    BY DEF CallStage, StageOf, Asking, Reading, Recording, IsReading, IsRecording
  <2> QED BY <1>2, <2>1 DEF KeepsMode
<1>4. ReaderRowOfKey'
  <2> SUFFICES ASSUME NEW q \in Proc, IsReading(proc'[q]), execs'[proc'[q].row].state # "ABSENT"
               PROVE  execs'[proc'[q].row].key = proc'[q].key
    BY DEF ReaderRowOfKey, Reading, IsReading, Exists
  <2>1. CASE q = p BY <1>1, <2>1 DEF ReadsOwnKey
  <2>2. CASE q # p
    <3>1. proc'[q] = proc[q] /\ Reading(q) BY <1>1, <2>2, StatesNamed
    <3>2. proc[q].row \in Id /\ proc[q].row < nextId
      BY <3>1 DEF AnswerInv, LockInv, ReaderAvoidsRecorders
    <3>3. Exists(proc[q].row) /\ execs'[proc[q].row].key = execs[proc[q].row].key
      BY <3>1, <3>2 DEF KeysKept
    <3> QED BY <3>1, <3>3 DEF AnswerInv, ReaderRowOfKey
  <2> QED BY <2>1, <2>2
<1> QED BY <1>3, <1>4

\* A step that changes no answer and starts no run: the caller goes on with its
\* call, or its call is over.
LEMMA QuietView ==
  ASSUME IInv, AnswerInv, NEW p \in Proc, NEW s, proc' = [proc EXCEPT ![p] = s],
         KeepsMode(s), ReadsOwnKey(s), KeysKept, nextId' = nextId,
         \A k \in Key : NewCurrent(k) = CurrentOf(k),
         \/ StageOf(s) = StageOf(proc[p]) /\ SeenOf(s) = SeenOf(proc[p])
         \/ StageOf(s) = "idle"
  PROVE  View
<1>1. CallsKeepMode' /\ ReaderRowOfKey' BY ModeStep
<1>2. answers' = answers BY AnswersSame
<1>3. /\ stages' = [stages EXCEPT ![p] = StageOf(s)]
      /\ calls' = [calls EXCEPT ![p] = SeenOf(s)]
  BY ViewStep
<1>4. stages[p] = StageOf(proc[p]) /\ calls[p] = SeenOf(proc[p]) BY ViewNamed
<1>5. CASE StageOf(s) = StageOf(proc[p]) /\ SeenOf(s) = SeenOf(proc[p])
  <2>1. stages' = stages /\ calls' = calls BY <1>3, <1>4, <1>5 DEF stages, calls
  <2> QED BY <1>1, <1>2, <2>1 DEF View, Cache!vars
<1>6. CASE StageOf(s) = "idle" /\ StageOf(proc[p]) # "idle"
  <2>1. SeenOf(s) = Cache!NoCall BY <1>6 DEF SeenOf, Cache!NoCall, Cache!NoAnswer
  <2>2. Cache!Return(p) BY <1>2, <1>3, <1>4, <1>6, <2>1 DEF Cache!Return
  <2> QED BY <1>1, <2>2 DEF View, Cache!Next
<1>7. CASE StageOf(s) = "idle" /\ StageOf(proc[p]) = "idle"
  <2>1. SeenOf(s) = SeenOf(proc[p]) BY <1>7 DEF SeenOf
  <2> QED BY <1>5, <1>7, <2>1
<1> QED BY <1>5, <1>6, <1>7

LEMMA ExecsUntouched ==
  ASSUME UNCHANGED <<execs, nextId>>
  PROVE  /\ KeysKept
         /\ nextId' = nextId
         /\ \A k \in Key : NewCurrent(k) = CurrentOf(k)
BY DEF KeysKept, NewCurrent, CurrentOf, Servable, Exists

LEMMA IdleKeepsMode ==
  ASSUME NEW s, StageOf(s) = "idle"
  PROVE  KeepsMode(s) /\ ReadsOwnKey(s)
BY DEF StageOf, KeepsMode, ReadsOwnKey, IsReading

\* Before its step: what AnswerInv says of a process by its state.
LEMMA ModeStanding ==
  ASSUME AnswerInv, NEW p \in Proc
  PROVE  KeepsMode(proc[p])
BY ViewNamed, StatesNamed DEF KeepsMode, AnswerInv, CallsKeepMode, At

\* The call is over, or there was none.
LEMMA IdleView ==
  ASSUME IInv, AnswerInv, UNCHANGED <<execs, nextId>>, NEW p \in Proc, NEW s,
         proc' = [proc EXCEPT ![p] = s], StageOf(s) = "idle"
  PROVE  View
BY ExecsUntouched, IdleKeepsMode, QuietView

LEMMA IdleProcStage == StageOf(IdleProc) = "idle"
BY DEF StageOf, IdleProc, IsReading, IsRecording

LEMMA FinishView ==
  ASSUME IInv, AnswerInv, UNCHANGED <<execs, nextId>>, NEW p \in Proc, Finish(p)
  PROVE  View
BY IdleProcStage, IdleView DEF Finish

\* The caller goes on with its call, in the same stage and with the same row.
LEMMA SameView ==
  ASSUME IInv, AnswerInv, NEW p \in Proc, NEW s,
         proc' = [proc EXCEPT ![p] = s],
         KeysKept, nextId' = nextId, \A k \in Key : NewCurrent(k) = CurrentOf(k),
         s.key = proc[p].key, s.mode = proc[p].mode,
         StageOf(s) = StageOf(proc[p]),
         IsReading(s) \/ IsRecording(s) => s.row = proc[p].row,
         s.pc = "find" \/ s.pc = "heal" => s.mode = "CACHE",
         s.pc \in {"acquire", "save"} => s.mode \in {"CACHE", "REFRESH"}
  PROVE  View
<1>1. KeepsMode(proc[p]) BY ModeStanding
<1>2. /\ IsReading(s) <=> IsReading(proc[p])
      /\ IsRecording(s) <=> IsRecording(proc[p])
      /\ s.pc \in {"find", "acquire", "save"} <=> proc[p].pc \in {"find", "acquire", "save"}
  BY DEF StageOf, IsReading, IsRecording
<1>3. KeepsMode(s) BY <1>1, <1>2 DEF KeepsMode
<1>4. ReadsOwnKey(s)
  <2> SUFFICES ASSUME IsReading(s), execs'[s.row].state # "ABSENT"
               PROVE  execs'[s.row].key = s.key
    BY DEF ReadsOwnKey
  <2>1. Reading(p) /\ s.row = proc[p].row BY <1>2, StatesNamed
  <2>2. s.row \in Id /\ s.row < nextId
    BY <2>1 DEF AnswerInv, LockInv, ReaderAvoidsRecorders
  <2>3. Exists(s.row) /\ execs'[s.row].key = execs[s.row].key BY <2>2 DEF KeysKept
  <2> QED BY <2>1, <2>3 DEF AnswerInv, ReaderRowOfKey
<1>5. SeenOf(s) = SeenOf(proc[p])
  <2>1. CASE StageOf(s) = "idle" BY <2>1 DEF SeenOf
  <2>2. CASE s.pc \in {"find", "acquire", "save"} BY <1>2, <2>2 DEF SeenOf
  <2>3. CASE IsReading(s) \/ IsRecording(s) BY <1>2, <2>3 DEF SeenOf
  <2> QED BY <2>1, <2>2, <2>3 DEF StageOf
<1> QED BY <1>3, <1>4, <1>5, QuietView

-----------------------------------------------------------------------------
(* The steps callers see.                                                  *)

LEMMA StartCallView ==
  ASSUME IInv, AnswerInv, NEW p \in Proc, StartCall(p)
  PROVE  View
<1> DEFINE s(k, m, ds) ==
      [IdleProc EXCEPT !.pc = IF m = "REFRESH" THEN "acquire" ELSE "find",
                       !.mode = m, !.key = k, !.dataset = ds]
<1>1. PICK k, m, ds : k \in Key /\ m \in Modes /\ Become(p, s(k, m, ds)) BY DEF StartCall
<1>2. /\ s(k, m, ds).pc = (IF m = "REFRESH" THEN "acquire" ELSE "find")
      /\ s(k, m, ds).key = k /\ s(k, m, ds).mode = m
  BY DEF IdleProc
<1>3. UNCHANGED <<execs, nextId>> /\ proc[p].pc = "idle"
  BY DEF StartCall, storeVars, ctlVars, At
<1>4. proc' = [proc EXCEPT ![p] = s(k, m, ds)] BY <1>1 DEF Become
<1> HIDE DEF s
<1>5. m \in {"CACHE", "REFRESH", "OFFLINE"} BY <1>1, ReplayAssumption
<1>6. StageOf(s(k, m, ds)) = "asking" BY <1>2 DEF StageOf
<1>7. KeepsMode(s(k, m, ds)) /\ ReadsOwnKey(s(k, m, ds))
  BY <1>1, <1>2, <1>5 DEF KeepsMode, ReadsOwnKey, IsReading, IsRecording
<1>8. CallsKeepMode' /\ ReaderRowOfKey' BY <1>3, <1>4, <1>7, ExecsUntouched, ModeStep
<1>9. SeenOf(s(k, m, ds)) = [mode |-> m, key |-> k, run |-> Cache!NoAnswer]
  BY <1>2, <1>6 DEF SeenOf, Cache!NoAnswer
<1>10. stages[p] = "idle"
  BY <1>3, ViewNamed DEF StageOf, IsReading, IsRecording
<1>11. /\ stages' = [stages EXCEPT ![p] = "asking"]
       /\ calls' = [calls EXCEPT ![p] = [mode |-> m, key |-> k, run |-> Cache!NoAnswer]]
  <2>1. /\ stages' = [stages EXCEPT ![p] = StageOf(s(k, m, ds))]
        /\ calls' = [calls EXCEPT ![p] = SeenOf(s(k, m, ds))]
    BY <1>4, ViewStep
  <2> QED BY <1>6, <1>9, <2>1
<1>12. answers' = answers /\ nextId' = nextId BY <1>3, ExecsUntouched, AnswersSame
<1>13. Cache!Ask(p) BY <1>1, <1>5, <1>10, <1>11, <1>12 DEF Cache!Ask, Cache!Moves
<1> QED BY <1>8, <1>13 DEF View, Cache!Next

LEMMA FindCurrentView ==
  ASSUME IInv, AnswerInv, NEW p \in Proc, FindCurrent(p)
  PROVE  View
<1> USE Standing DEF At
<1>1. UNCHANGED <<execs, nextId>> /\ proc[p].pc = "find" /\ LockInv
  BY DEF FindCurrent, storeVars, ctlVars, AnswerInv
<1>2. proc[p].key \in Key /\ proc[p].mode \in {"CACHE", "OFFLINE"}
  BY <1>1, ModeStanding DEF KeepsMode, StageOf
<1>3. CASE Finish(p) BY <1>1, <1>3, FinishView
<1>4. CASE CurrentOf(proc[p].key) = {} /\ Miss(p) /\ ~Finish(p)
  <2> DEFINE s == [proc[p] EXCEPT !.pc = IF proc[p].locked THEN "save" ELSE "acquire"]
  <2>1. proc' = [proc EXCEPT ![p] = s] /\ proc[p].mode = "CACHE"
    BY <1>2, <1>4 DEF Miss, Go, Become
  <2>2. /\ s.pc \in {"save", "acquire"} /\ s.key = proc[p].key /\ s.mode = proc[p].mode
    BY <1>1 DEF ProcState
  <2> HIDE DEF s
  <2>3. StageOf(s) = StageOf(proc[p]) /\ ~IsReading(s) /\ ~IsRecording(s)
    BY <1>1, <2>2 DEF StageOf, IsReading, IsRecording
  <2> QED BY <1>1, <2>1, <2>2, <2>3, ExecsUntouched, SameView
<1>5. CASE ~(CurrentOf(proc[p].key) = {} /\ Miss(p))
  <2> DEFINE s(i) == [proc[p] EXCEPT !.pc = "load", !.row = i]
  <2>1. PICK i \in Id : i \in CurrentOf(proc[p].key) /\ proc' = [proc EXCEPT ![p] = s(i)]
    BY <1>5 DEF FindCurrent, IsNewest, Become
  <2>2. /\ s(i).pc = "load" /\ s(i).row = i /\ s(i).key = proc[p].key
        /\ s(i).mode = proc[p].mode
    BY <1>1 DEF ProcState
  <2> HIDE DEF s
  <2>3. StageOf(s(i)) = "told" /\ IsReading(s(i)) /\ ~IsRecording(s(i))
    BY <2>2 DEF StageOf, IsReading, IsRecording
  <2>4. execs'[i].key = proc[p].key BY <1>1, <2>1 DEF CurrentOf
  <2>5. KeepsMode(s(i)) /\ ReadsOwnKey(s(i))
    BY <1>2, <2>2, <2>3, <2>4 DEF KeepsMode, ReadsOwnKey
  <2>6. CallsKeepMode' /\ ReaderRowOfKey' BY <1>1, <2>1, <2>5, ExecsUntouched, ModeStep
  <2>7. stages[p] = "asking" /\ calls[p] = [mode |-> proc[p].mode, key |-> proc[p].key, run |-> 0]
    BY <1>1, ViewNamed DEF StageOf, SeenOf
  <2>8. SeenOf(s(i)) = [mode |-> proc[p].mode, key |-> proc[p].key, run |-> i]
    BY <2>2, <2>3 DEF SeenOf
  <2>9. SeenOf(s(i)) = [calls[p] EXCEPT !.run = i] BY <2>7, <2>8
  <2>10. answers[proc[p].key] = i /\ i # 0 BY <1>2, <2>1, AnswersNamed
  <2>11. /\ stages' = [stages EXCEPT ![p] = "told"]
         /\ calls' = [calls EXCEPT ![p] = [calls[p] EXCEPT !.run = i]]
    <3>1. /\ stages' = [stages EXCEPT ![p] = StageOf(s(i))]
          /\ calls' = [calls EXCEPT ![p] = SeenOf(s(i))]
      BY <2>1, ViewStep
    <3> QED BY <2>3, <2>9, <3>1
  <2>12. answers' = answers /\ nextId' = nextId BY <1>1, ExecsUntouched, AnswersSame
  <2>13. calls[p].key = proc[p].key /\ calls[p].mode # "REFRESH" BY <1>2, <2>7
  <2>14. Cache!Answer(p) = i BY <2>10, <2>13 DEF Cache!Answer
  <2>15. Cache!Look(p)
    BY <2>7, <2>10, <2>11, <2>12, <2>13, <2>14 DEF Cache!Look, Cache!Moves, Cache!NoAnswer
  <2> QED BY <2>6, <2>15 DEF View, Cache!Next
<1> QED BY <1>3, <1>4, <1>5

\* A reader asks again after its row is gone from the current ones.
LEMMA DiscardView ==
  ASSUME IInv, AnswerInv, NEW p \in Proc, Reading(p), proc[p].mode = "CACHE", NEW s,
         proc' = [proc EXCEPT ![p] = s],
         s.pc \in {"acquire", "save"}, s.key = proc[p].key, s.mode = proc[p].mode,
         KeysKept, nextId' = nextId,
         \A k \in Key : NewCurrent(k) = CurrentOf(k) \ {proc[p].row}
  PROVE  View
<1> DEFINE i == proc[p].row
           k == proc[p].key
<1>1. i \in Id /\ i # 0
  BY StoreAssumption DEF AnswerInv, LockInv, ReaderAvoidsRecorders, Id
<1>2. IsReading(proc[p]) /\ ~IsRecording(proc[p]) /\ ~(proc[p].pc \in {"find", "acquire", "save"})
  BY StatesNamed DEF IsReading, IsRecording
<1>3. StageOf(proc[p]) = "told" BY <1>2 DEF StageOf
<1>4. k \in Key BY <1>3, ModeStanding DEF KeepsMode
<1>5. StageOf(s) = "asking" /\ ~IsReading(s) /\ ~IsRecording(s)
  BY DEF StageOf, IsReading, IsRecording
<1>6. KeepsMode(s) /\ ReadsOwnKey(s)
  BY <1>4, <1>5 DEF KeepsMode, ReadsOwnKey
<1>7. CallsKeepMode' /\ ReaderRowOfKey' BY <1>6, ModeStep
<1>8. \A l \in Key : i \in CurrentOf(l) => l = k
  BY DEF CurrentOf, Servable, AnswerInv, ReaderRowOfKey, Exists
<1>9. answers' = [answers EXCEPT ![k] = IF answers[k] = i THEN 0 ELSE answers[k]]
  <2>1. ASSUME NEW l \in Key, l # k PROVE answers'[l] = answers[l]
    <3>1. NewCurrent(l) = CurrentOf(l) BY <1>8, <2>1
    <3> QED BY <3>1, AnswersNamed
  <2>2. answers'[k] = (IF answers[k] = i THEN 0 ELSE answers[k])
    <3>1. CASE i \in CurrentOf(k)
      <4>1. CurrentOf(k) = {i} /\ answers[k] = i BY <1>4, <3>1, AnswersNamed
      <4>2. NewCurrent(k) = {} BY <1>4, <4>1
      <4> QED BY <1>4, <4>1, <4>2, AnswersNamed, NewestNone
    <3>2. CASE i \notin CurrentOf(k)
      <4>1. NewCurrent(k) = CurrentOf(k) BY <1>4, <3>2
      <4>2. answers[k] # i
        <5>1. CASE CurrentOf(k) = {} BY <1>1, <1>4, <5>1, AnswersNamed
        <5>2. ASSUME NEW j \in CurrentOf(k) PROVE answers[k] # i
          BY <1>4, <3>2, <5>2, AnswersNamed
        <5> QED BY <5>1, <5>2
      <4> QED BY <1>4, <4>1, <4>2, AnswersNamed
    <3> QED BY <3>1, <3>2
  <2>3. /\ answers = [l \in Key |-> answers[l]]
        /\ answers' = [l \in Key |-> answers'[l]]
    BY DEF answers
  <2> QED BY <2>1, <2>2, <2>3
<1>10. stages[p] = "told" /\ calls[p] = [mode |-> proc[p].mode, key |-> k, run |-> i]
  BY <1>2, <1>3, ViewNamed DEF SeenOf
<1>11. SeenOf(s) = [mode |-> proc[p].mode, key |-> k, run |-> 0] BY <1>5 DEF SeenOf
<1>12. SeenOf(s) = [calls[p] EXCEPT !.run = 0] BY <1>10, <1>11
<1>13. /\ stages' = [stages EXCEPT ![p] = "asking"]
       /\ calls' = [calls EXCEPT ![p] = [calls[p] EXCEPT !.run = 0]]
  <2>1. /\ stages' = [stages EXCEPT ![p] = StageOf(s)]
        /\ calls' = [calls EXCEPT ![p] = SeenOf(s)]
    BY ViewStep
  <2> QED BY <1>5, <1>12, <2>1
<1>14. calls[p].key = k /\ calls[p].mode = "CACHE" /\ calls[p].run = i BY <1>10
<1> HIDE DEF i, k
<1>15. Cache!Discard(p)
  BY <1>9, <1>10, <1>13, <1>14 DEF Cache!Discard, Cache!Moves, Cache!NoAnswer
<1> QED BY <1>7, <1>15 DEF View, Cache!Next

LEMMA LoadExecutionView ==
  ASSUME IInv, AnswerInv, NEW p \in Proc, LoadExecution(p)
  PROVE  View
<1> USE Standing DEF At
<1>1. UNCHANGED <<execs, nextId>> /\ proc[p].pc = "load" /\ LockInv
  BY DEF LoadExecution, storeVars, ctlVars, AnswerInv
<1>2. proc[p].key \in Key /\ proc[p].mode \in {"CACHE", "OFFLINE"}
  BY <1>1, ModeStanding DEF KeepsMode, StageOf, IsReading
<1>3. CASE Finish(p) BY <1>1, <1>3, FinishView
<1>4. CASE proc[p].key \notin identities /\ ~Finish(p)
  <2> DEFINE s == [proc[p] EXCEPT !.pc = IF proc[p].locked THEN "save" ELSE "acquire"]
  <2>1. proc' = [proc EXCEPT ![p] = s] /\ proc[p].mode = "CACHE"
    BY <1>2, <1>4 DEF LoadExecution, Miss, Go, Become
  <2>2. s.pc \in {"save", "acquire"} /\ s.key = proc[p].key /\ s.mode = proc[p].mode
    BY <1>1 DEF ProcState
  <2> HIDE DEF s
  <2>3. Reading(p) BY <1>1 DEF Reading
  <2>4. ~Exists(proc[p].row)
    BY <1>4, <2>3 DEF IInv, ReferencesResolve, AnswerInv, LockInv, ReaderAvoidsRecorders,
                      ReaderRowOfKey
  <2>5. \A k \in Key : NewCurrent(k) = CurrentOf(k) /\ proc[p].row \notin CurrentOf(k)
    BY <1>1, <2>4, ExecsUntouched DEF CurrentOf, Servable, Exists
  <2>6. \A k \in Key : NewCurrent(k) = CurrentOf(k) \ {proc[p].row} BY <2>5
  <2> QED BY <1>1, <2>1, <2>2, <2>3, <2>6, ExecsUntouched, DiscardView
<1>5. CASE proc[p].key \in identities
  <2> DEFINE s == [proc[p] EXCEPT !.pc = "hydrate", !.seen = ArtifactsOf(proc[p].row)]
  <2>1. proc' = [proc EXCEPT ![p] = s] BY <1>5 DEF LoadExecution, Become
  <2>2. /\ s.pc = "hydrate" /\ s.key = proc[p].key /\ s.mode = proc[p].mode
        /\ s.row = proc[p].row
    BY <1>1 DEF ProcState
  <2> HIDE DEF s
  <2>3. StageOf(s) = StageOf(proc[p]) BY <1>1, <2>2 DEF StageOf, IsReading
  <2> QED BY <1>1, <2>1, <2>2, <2>3, ExecsUntouched, SameView
<1> QED BY <1>3, <1>4, <1>5

LEMMA HydrateView ==
  ASSUME IInv, AnswerInv, NEW p \in Proc, Hydrate(p)
  PROVE  View
<1> USE Standing DEF At
<1>1. UNCHANGED <<execs, nextId>> /\ proc[p].pc = "hydrate" /\ LockInv
  BY DEF Hydrate, storeVars, ctlVars, AnswerInv
<1>2. proc[p].mode \in {"CACHE", "OFFLINE"}
  BY <1>1, ModeStanding DEF KeepsMode, IsReading
<1>3. CASE Finish(p) BY <1>1, <1>3, FinishView
<1>4. CASE ~Finish(p)
  <2>1. PICK s : /\ Become(p, s)
                 /\ \/ s = [proc[p] EXCEPT !.pc = "hit"]
                    \/ /\ s = [proc[p] EXCEPT !.pc = "heal", !.drop = SeenBlobs(p), !.seen = {}]
                       /\ proc[p].mode # "OFFLINE"
    BY <1>4 DEF Hydrate, Go
  <2>2. /\ s.pc \in {"hit", "heal"} /\ s.key = proc[p].key /\ s.mode = proc[p].mode
        /\ s.row = proc[p].row
        /\ s.pc = "heal" => s.mode = "CACHE"
    BY <1>1, <1>2, <2>1 DEF ProcState
  <2>3. StageOf(s) = StageOf(proc[p]) BY <1>1, <2>2 DEF StageOf, IsReading
  <2>4. proc' = [proc EXCEPT ![p] = s] BY <2>1 DEF Become
  <2> QED BY <1>1, <2>2, <2>3, <2>4, ExecsUntouched, SameView
<1> QED BY <1>3, <1>4

LEMMA ServeHitView ==
  ASSUME IInv, AnswerInv, NEW p \in Proc, ServeHit(p)
  PROVE  View
<1> USE Standing DEF At
<1>1. UNCHANGED <<execs, nextId>> /\ LockInv
  BY DEF ServeHit, storeVars, ctlVars, AnswerInv
<1>2. CASE Finish(p) BY <1>1, <1>2, FinishView
<1>3. CASE ~Finish(p)
  <2> DEFINE s == [proc[p] EXCEPT !.pc = "fillAcquire"]
  <2>1. proc' = [proc EXCEPT ![p] = s] BY <1>3 DEF ServeHit, Go, Become
  <2>2. s.pc = "fillAcquire" BY <1>1 DEF ProcState
  <2> HIDE DEF s
  <2>3. StageOf(s) = "idle" BY <2>2 DEF StageOf, IsReading, IsRecording
  <2> QED BY <1>1, <2>1, <2>3, IdleView
<1> QED BY <1>2, <1>3

LEMMA HealBlobView ==
  ASSUME IInv, AnswerInv, NEW p \in Proc, HealBlob(p)
  PROVE  View
<1> USE Standing DEF At
<1> DEFINE s(b) == [proc[p] EXCEPT !.drop = proc[p].drop \ {b}]
<1>1. UNCHANGED <<execs, nextId>> /\ proc[p].pc = "heal" /\ LockInv
  BY DEF HealBlob, RemoveBlob, ctlVars, AnswerInv
<1>2. PICK b : proc' = [proc EXCEPT ![p] = s(b)] BY DEF HealBlob, Become
<1>3. /\ s(b).pc = "heal" /\ s(b).key = proc[p].key /\ s(b).mode = proc[p].mode
      /\ s(b).row = proc[p].row
  BY <1>1 DEF ProcState
<1> HIDE DEF s
<1>4. s(b).mode = "CACHE" BY <1>1, <1>3, ModeStanding DEF KeepsMode
<1>5. StageOf(s(b)) = StageOf(proc[p]) BY <1>1, <1>3 DEF StageOf, IsReading
<1> QED BY <1>1, <1>2, <1>3, <1>4, <1>5, ExecsUntouched, SameView

\* Removing a row leaves the keys of the others alone.
LEMMA RemoveKeepsKeys ==
  ASSUME IInv, NEW i \in Id, RemoveExecution(i)
  PROVE  KeysKept /\ \A k \in Key : NewCurrent(k) = CurrentOf(k) \ {i}
<1>1. /\ \A j \in Id \ {i} : execs'[j] = execs[j]
      /\ \A k : NewCurrent(k) \cap {i} = {}
  BY RemoveRow
<1>2. execs'[i].state = "ABSENT" \/ execs' = execs
  BY DEF RemoveExecution, storeVars, AbsentRow, IInv, TypeOK, StoreTypeOK
<1>3. KeysKept BY <1>1, <1>2 DEF KeysKept, Exists
<1>4. \A k \in Key : NewCurrent(k) = CurrentOf(k) \ {i}
  BY <1>1 DEF NewCurrent, CurrentOf, Servable
<1> QED BY <1>3, <1>4

LEMMA HealRowsView ==
  ASSUME IInv, AnswerInv, NEW p \in Proc, HealRows(p)
  PROVE  View
<1> USE Standing DEF At
<1> DEFINE s == [proc[p] EXCEPT !.pc = IF proc[p].locked THEN "save" ELSE "acquire"]
<1>1. /\ RemoveExecution(proc[p].row) /\ Miss(p) /\ nextId' = nextId
      /\ proc[p].pc = "heal" /\ LockInv
  BY DEF HealRows, ctlVars, AnswerInv
<1>2. proc[p].mode = "CACHE" BY <1>1, ModeStanding DEF KeepsMode
<1>3. proc' = [proc EXCEPT ![p] = s] BY <1>1, <1>2 DEF Miss, Go, Become
<1>4. s.pc \in {"save", "acquire"} /\ s.key = proc[p].key /\ s.mode = proc[p].mode
  BY <1>1 DEF ProcState
<1> HIDE DEF s
<1>5. Reading(p) BY <1>1 DEF Reading
<1>6. proc[p].row \in Id BY <1>5 DEF AnswerInv, LockInv, ReaderAvoidsRecorders
<1>7. KeysKept /\ \A k \in Key : NewCurrent(k) = CurrentOf(k) \ {proc[p].row}
  BY <1>1, <1>6, RemoveKeepsKeys
<1> QED BY <1>1, <1>2, <1>3, <1>4, <1>5, <1>7, DiscardView

LEMMA AcquireView ==
  ASSUME IInv, AnswerInv, NEW p \in Proc, Acquire(p)
  PROVE  View
<1> USE Standing DEF At
<1> DEFINE label == IF proc[p].mode = "CACHE" THEN "find" ELSE "save"
           s == [proc[p] EXCEPT !.pc = label, !.locked = TRUE, !.row = 0, !.seen = {}]
<1>1. UNCHANGED <<execs, nextId>> /\ proc[p].pc = "acquire" /\ LockInv
  BY DEF Acquire, storeVars, ctlVars, AnswerInv
<1>2. proc' = [proc EXCEPT ![p] = s] BY DEF Acquire, AcquireKey
<1>3. proc[p].mode \in {"CACHE", "REFRESH"} BY <1>1, ModeStanding DEF KeepsMode
<1>4. /\ s.pc \in {"find", "save"} /\ s.key = proc[p].key /\ s.mode = proc[p].mode
      /\ s.pc = "find" => proc[p].mode = "CACHE"
  BY <1>1 DEF ProcState
<1> HIDE DEF s
<1>5. StageOf(s) = StageOf(proc[p]) /\ ~IsReading(s) /\ ~IsRecording(s)
  BY <1>1, <1>4 DEF StageOf, IsReading, IsRecording
<1> QED BY <1>1, <1>2, <1>3, <1>4, <1>5, ExecsUntouched, SameView

\* Nobody runs the client for a key that p has locked, unless p does.
LEMMA NoRunners ==
  ASSUME AnswerInv, NEW p \in Proc, NEW k \in held[p], ~(Recording(p) /\ proc[p].key = k)
  PROVE  Cache!RunnersOf(k) = {}
<1> SUFFICES ASSUME NEW q \in Proc, stages[q] = "running", calls[q].key = k PROVE FALSE
  BY DEF Cache!RunnersOf
<1>1. StageOf(proc[q]) = "running" BY ViewNamed
<1>2. Recording(q) /\ calls[q].key = proc[q].key
  <2>1. IsRecording(proc[q]) BY <1>1 DEF StageOf
  <2>2. SeenOf(proc[q]).key = proc[q].key BY <1>1 DEF SeenOf
  <2> QED BY <2>1, <2>2, ViewNamed, StatesNamed
<1>3. proc[q].key \in held[q] BY <1>2 DEF AnswerInv, LockInv, LocksGuard
<1>4. CASE q = p BY <1>2, <1>4
<1>5. CASE q # p BY <1>2, <1>3, <1>5 DEF AnswerInv, LockInv, LocksGuard
<1> QED BY <1>4, <1>5

LEMMA SaveView ==
  ASSUME IInv, AnswerInv, NEW p \in Proc, SaveInProgress(p)
  PROVE  View
<1> USE Standing DEF At
<1> DEFINE s == [proc[p] EXCEPT !.pc = "client", !.row = nextId, !.seen = {}]
           new == [key |-> proc[p].key, state |-> "IN_PROGRESS",
                   persisted |-> FALSE, superseded |-> FALSE]
           k == proc[p].key
<1>1. /\ proc[p].pc = "save" /\ nextId <= MaxRuns /\ proc' = [proc EXCEPT ![p] = s]
      /\ execs' = [execs EXCEPT ![nextId] = new] /\ nextId' = nextId + 1 /\ LockInv
  BY DEF SaveInProgress, Save, Become, AnswerInv
<1>2. /\ s.pc = "client" /\ s.row = nextId /\ s.key = k
      /\ s.mode = proc[p].mode /\ s.filling = proc[p].filling
  BY <1>1 DEF ProcState
<1>3. new.state = "IN_PROGRESS" OBVIOUS
<1> HIDE DEF s, new
<1>4. ~proc[p].filling /\ proc[p].locked /\ k \in held[p] BY <1>1 DEF Covered
<1>5. IsRecording(s) /\ ~IsReading(s) /\ StageOf(s) = "running"
  BY <1>2, <1>4 DEF IsRecording, IsReading, StageOf
<1>6. k \in Key /\ proc[p].mode \in {"CACHE", "REFRESH"}
  BY <1>1, ModeStanding DEF KeepsMode, StageOf
<1>7. KeepsMode(s) /\ ReadsOwnKey(s)
  BY <1>2, <1>5, <1>6 DEF KeepsMode, ReadsOwnKey
<1>8. nextId \in Id /\ ~Servable(nextId) BY <1>1, FreshRow
<1>9. execs'[nextId] = new /\ \A j \in Id \ {nextId} : execs'[j] = execs[j]
  BY <1>1, <1>8 DEF IInv, TypeOK, StoreTypeOK
<1>10. KeysKept BY <1>1, <1>9, FreshRow DEF KeysKept, Exists
<1>11. \A l \in Key : NewCurrent(l) = CurrentOf(l)
  BY <1>3, <1>8, <1>9 DEF NewCurrent, CurrentOf, Servable
<1>12. CallsKeepMode' /\ ReaderRowOfKey' BY <1>1, <1>7, <1>10, ModeStep
<1>13. answers' = answers BY <1>11, AnswersSame
<1>14. stages[p] = "asking" /\ calls[p] = [mode |-> proc[p].mode, key |-> k, run |-> 0]
  BY <1>1, ViewNamed DEF StageOf, SeenOf
<1>15. SeenOf(s) = [mode |-> proc[p].mode, key |-> k, run |-> nextId]
  BY <1>2, <1>5 DEF SeenOf
<1>16. SeenOf(s) = [calls[p] EXCEPT !.run = nextId] BY <1>14, <1>15
<1>17. /\ stages' = [stages EXCEPT ![p] = "running"]
       /\ calls' = [calls EXCEPT ![p] = [calls[p] EXCEPT !.run = nextId]]
  <2>1. /\ stages' = [stages EXCEPT ![p] = StageOf(s)]
        /\ calls' = [calls EXCEPT ![p] = SeenOf(s)]
    BY <1>1, ViewStep
  <2> QED BY <1>5, <1>16, <2>1
<1>18. calls[p].key = k /\ calls[p].mode = proc[p].mode BY <1>14
<1>19. calls[p].mode = "CACHE" => Cache!Answer(p) = 0
  <2> SUFFICES ASSUME proc[p].mode = "CACHE" PROVE answers[k] = 0
    BY <1>18 DEF Cache!Answer
  <2>1. CurrentOf(k) = {} BY <1>1 DEF LockInv, MissStays
  <2> QED BY <1>6, <2>1, AnswersNamed
<1>20. Cache!RunnersOf(calls[p].key) = {}
  <2>1. ~Recording(p) BY <1>1 DEF Recording
  <2> QED BY <1>4, <1>18, <2>1, NoRunners
<1>21. calls[p].mode # "OFFLINE" BY <1>6, <1>18
<1> HIDE DEF k
<1>22. Cache!StartRun(p)
  BY <1>1, <1>13, <1>14, <1>17, <1>19, <1>20, <1>21
  DEF Cache!StartRun, Cache!Moves, Cache!NoAnswer
<1> QED BY <1>12, <1>22 DEF View, Cache!Next

LEMMA ClientView ==
  ASSUME IInv, AnswerInv, NEW p \in Proc,
         ClientAnswers(p) \/ ClientFails(p) \/ ClientInterrupted(p)
  PROVE  View
<1> USE Standing DEF At
<1> DEFINE i == proc[p].row
<1>1. proc[p].pc = "client" /\ nextId' = nextId /\ LockInv
  BY DEF ClientAnswers, ClientFails, ClientInterrupted, ctlVars, AnswerInv
<1>2. Recording(p) /\ ~proc[p].filling BY <1>1 DEF Recording, Covered
<1>3. i \in Id /\ Exists(i) /\ ~execs[i].persisted BY <1>1, <1>2 DEF LockInv, RecorderOwnsRow
<1>4. \A k \in Key : i \notin CurrentOf(k) BY <1>3 DEF CurrentOf, Servable
<1>5. KeysKept /\ \A k \in Key : NewCurrent(k) = CurrentOf(k)
  <2>1. CASE ClientInterrupted(p)
    <3>1. KeysKept /\ \A k \in Key : NewCurrent(k) = CurrentOf(k) \ {i}
      BY <1>3, <2>1, RemoveKeepsKeys DEF ClientInterrupted
    <3> QED BY <1>4, <3>1
  <2>2. CASE ClientAnswers(p) \/ ClientFails(p)
    <3>1. PICK outcome \in {"SUCCESS", "FAILED"} : execs' = [execs EXCEPT ![i].state = outcome]
      BY <2>2 DEF ClientAnswers, ClientFails, RecordOutcome
    <3>2. \A j \in Id \ {i} : execs'[j] = execs[j] BY <3>1 DEF IInv, TypeOK, StoreTypeOK
    <3>3. execs'[i].key = execs[i].key /\ ~execs'[i].persisted
      BY <1>3, <3>1 DEF IInv, TypeOK, StoreTypeOK, Execution
    <3>4. KeysKept BY <1>3, <3>2, <3>3 DEF KeysKept, Exists
    <3>5. \A k \in Key : NewCurrent(k) = CurrentOf(k)
      BY <1>3, <3>2, <3>3 DEF NewCurrent, CurrentOf, Servable
    <3> QED BY <3>4, <3>5
  <2> QED BY <2>1, <2>2
<1>6. CASE Finish(p)
  BY <1>1, <1>5, <1>6, IdleProcStage, IdleKeepsMode, QuietView DEF Finish
<1>7. CASE ~Finish(p)
  <2> DEFINE s == [proc[p] EXCEPT !.pc = "insert", !.doc = 1]
  <2>1. proc' = [proc EXCEPT ![p] = s]
    BY <1>7 DEF ClientAnswers, ClientFails, ClientInterrupted, Become
  <2>2. /\ s.pc = "insert" /\ s.row = i /\ s.key = proc[p].key
        /\ s.mode = proc[p].mode /\ ~s.filling
    BY <1>1, <1>2 DEF ProcState
  <2> HIDE DEF s
  <2>3. StageOf(s) = StageOf(proc[p])
    BY <1>1, <1>2, <2>2 DEF StageOf, IsReading, IsRecording
  <2> QED BY <1>1, <1>5, <2>1, <2>2, <2>3, SameView
<1> QED BY <1>6, <1>7

\* Storing documents is no news to anyone, until the run is promoted.
LEMMA StoringView ==
  ASSUME IInv, AnswerInv, NEW p \in Proc,
         \/ InsertArtifact(p) \/ Put(p) \/ PutFails(p) \/ MarkStored(p) \/ MarkFails(p)
         \/ FinalizeRun(p) \/ SaveFails(p) \/ RowGone(p) \/ AfterRecord(p)
  PROVE  View
<1> USE Standing DEF At
<1>1. UNCHANGED <<execs, nextId>> /\ LockInv
  BY DEF InsertArtifact, Put, PutFails, MarkStored, MarkFails, FinalizeRun, SaveFails, RowGone,
     AfterRecord, PersistArtifact, PutBlob, MarkArtifacts, storeVars, ctlVars, AnswerInv
<1>2. CASE Finish(p) BY <1>1, <1>2, FinishView
<1>3. ASSUME NEW s, Become(p, s), proc[p].pc \in {"insert", "put", "mark", "finalize"},
             s.key = proc[p].key, s.mode = proc[p].mode,
             s.row = proc[p].row, s.filling = proc[p].filling,
             \/ s.pc \in {"put", "mark"}
             \/ s.pc \in {"insert", "finalize", "promote"} /\ ~proc[p].filling
      PROVE  View
  <2>1. StageOf(s) = StageOf(proc[p])
    BY <1>3 DEF StageOf, IsReading, IsRecording
  <2>2. ~(s.pc \in {"find", "heal", "acquire", "save"}) BY <1>3
  <2> QED BY <1>1, <1>3, <2>1, <2>2, ExecsUntouched, SameView DEF Become
<1>4. CASE InsertArtifact(p) \/ Put(p)
  <2>1. PICK label \in {"put", "mark"} : Go(p, label) BY <1>4 DEF InsertArtifact, Put
  <2> DEFINE s == [proc[p] EXCEPT !.pc = label]
  <2>2. /\ s.pc = label /\ s.key = proc[p].key /\ s.mode = proc[p].mode
        /\ s.row = proc[p].row /\ s.filling = proc[p].filling
    BY <1>1 DEF ProcState
  <2>3. Become(p, s) BY <2>1 DEF Go
  <2> HIDE DEF s
  <2> QED BY <1>3, <1>4, <2>2, <2>3 DEF InsertArtifact, Put
<1>5. ASSUME NEW ok, NextDocument(p, ok), proc[p].pc \in {"put", "mark"}, ~Finish(p)
      PROVE  View
  <2>1. PICK s : /\ Become(p, s) /\ ~proc[p].filling
                 /\ \/ s = [proc[p] EXCEPT !.pc = "insert", !.doc = proc[p].doc + 1, !.ok = ok]
                    \/ s = [proc[p] EXCEPT !.pc = "finalize", !.ok = ok]
    BY <1>5 DEF NextDocument
  <2>2. /\ s.pc \in {"insert", "finalize"} /\ s.key = proc[p].key /\ s.mode = proc[p].mode
        /\ s.row = proc[p].row /\ s.filling = proc[p].filling
    BY <1>1, <2>1 DEF ProcState
  <2> QED BY <1>3, <1>5, <2>1, <2>2
<1>6. CASE PutFails(p) BY <1>2, <1>5, <1>6 DEF PutFails
<1>7. CASE MarkStored(p) BY <1>2, <1>5, <1>7 DEF MarkStored
<1>8. CASE MarkFails(p) BY <1>2, <1>5, <1>8 DEF MarkFails
<1>9. CASE FinalizeRun(p) /\ ~Finish(p)
  <2> DEFINE s == [proc[p] EXCEPT !.pc = "promote", !.supersede = Supersedes(proc[p].row)]
  <2>1. Become(p, s) /\ proc[p].pc = "finalize" BY <1>9 DEF FinalizeRun, ToPromote
  <2>2. /\ s.pc = "promote" /\ s.key = proc[p].key /\ s.mode = proc[p].mode
        /\ s.row = proc[p].row /\ s.filling = proc[p].filling
    BY <1>1 DEF ProcState
  <2>3. ~proc[p].filling BY <1>1, <2>1 DEF Covered
  <2> HIDE DEF s
  <2> QED BY <1>3, <2>1, <2>2, <2>3
<1>10. CASE AfterRecord(p) /\ ~Finish(p)
  <2> DEFINE s(ks) == [proc[p] EXCEPT !.pc = "purgeAcquire", !.victims = ks]
  <2>1. PICK ks : Become(p, s(ks)) BY <1>10 DEF AfterRecord
  <2>2. s(ks).pc = "purgeAcquire" BY <1>1 DEF ProcState
  <2>3. proc' = [proc EXCEPT ![p] = s(ks)] BY <2>1 DEF Become
  <2> HIDE DEF s
  <2>4. StageOf(s(ks)) = "idle" BY <2>2 DEF StageOf, IsReading, IsRecording
  <2> QED BY <1>1, <2>3, <2>4, IdleView
<1> QED BY <1>2, <1>4, <1>6, <1>7, <1>8, <1>9, <1>10 DEF SaveFails, RowGone

LEMMA PromoteRunView ==
  ASSUME IInv, AnswerInv, NEW p \in Proc, PromoteRun(p)
  PROVE  View
<1> USE Standing DEF At
<1> DEFINE i == proc[p].row
           s == [proc[p] EXCEPT !.pc = "recorded", !.supersede = NoKey]
<1>1. /\ proc[p].pc = "promote" /\ proc' = [proc EXCEPT ![p] = s]
      /\ Promote(i, proc[p].supersede) /\ nextId' = nextId /\ LockInv
  BY DEF PromoteRun, PromoteRow, ctlVars, Become, AnswerInv
<1>2. s.pc = "recorded" BY <1>1 DEF ProcState
<1> HIDE DEF s
<1>3. StageOf(s) = "idle" BY <1>2 DEF StageOf, IsReading, IsRecording
<1>4. Recording(p) /\ ~proc[p].filling BY <1>1 DEF Recording, Covered
<1>5. PICK k : k = proc[p].key OBVIOUS
<1>6. StageOf(proc[p]) = "running" BY <1>1, <1>4 DEF StageOf, IsReading, IsRecording
<1>7. k \in Key BY <1>5, <1>6, ModeStanding DEF KeepsMode
<1>8. /\ i \in Id /\ Exists(i) /\ execs[i].key = k
      /\ ~execs[i].persisted /\ ~execs[i].superseded
      /\ \A j \in CurrentOf(k) : j < i
  BY <1>1, <1>4, <1>5 DEF LockInv, RecorderOwnsRow
<1>9. Promote(i, Supersedes(i)) BY <1>1, <1>8 DEF LocalInv, PromotePC
<1>10. /\ \A j \in Id : execs'[j].key = execs[j].key /\ execs'[j].state = execs[j].state
       /\ \A l \in Key \ {k} : NewCurrent(l) = CurrentOf(l)
       /\ NewCurrent(k) = {i} \/ NewCurrent(k) = CurrentOf(k)
  <2>1. /\ \A j \in Id : execs'[j].key = execs[j].key /\ execs'[j].state = execs[j].state
        /\ \A l : l # k => NewCurrent(l) \subseteq CurrentOf(l)
        /\ \A l : l # k => CurrentOf(l) \subseteq NewCurrent(l)
        /\ NewCurrent(k) = {i} \/ NewCurrent(k) = CurrentOf(k)
    BY <1>8, <1>9, PromoteRows
  <2> QED BY <2>1
<1>11. KeysKept BY <1>10 DEF KeysKept, Exists
<1>12. KeepsMode(s) /\ ReadsOwnKey(s) BY <1>3, IdleKeepsMode
<1>13. CASE NewCurrent(k) = CurrentOf(k)
  <2>1. \A l \in Key : NewCurrent(l) = CurrentOf(l) BY <1>10, <1>13
  <2> QED BY <1>1, <1>3, <1>11, <1>12, <2>1, QuietView
<1>14. CASE NewCurrent(k) = {i}
  <2>1. CallsKeepMode' /\ ReaderRowOfKey' BY <1>1, <1>11, <1>12, ModeStep
  <2>2. i \in Nat /\ 0 < i BY <1>8, StoreAssumption DEF Id
  <2>3. answers'[k] = i BY <1>7, <1>14, <2>2, AnswersNamed, NewestOne
  <2>4. \A l \in Key \ {k} : answers'[l] = answers[l] BY <1>10, AnswersNamed
  <2>5. answers' = [answers EXCEPT ![k] = i]
    <3>1. /\ answers = [l \in Key |-> answers[l]]
          /\ answers' = [l \in Key |-> answers'[l]]
      BY DEF answers
    <3> QED BY <1>7, <2>3, <2>4, <3>1
  <2>6. answers[k] < i
    <3>1. CASE CurrentOf(k) = {} BY <1>7, <2>2, <3>1, AnswersNamed
    <3>2. ASSUME NEW j \in CurrentOf(k) PROVE answers[k] < i
      <4>1. answers[k] = j BY <1>7, AnswersNamed
      <4> QED BY <1>8, <4>1
    <3> QED BY <3>1, <3>2
  <2>7. stages[p] = "running" /\ calls[p] = [mode |-> proc[p].mode, key |-> k, run |-> i]
    <3>1. ~(proc[p].pc \in {"find", "acquire", "save"}) BY <1>1
    <3>2. SeenOf(proc[p]) = [mode |-> proc[p].mode, key |-> k, run |-> i]
      BY <1>5, <1>6, <3>1 DEF SeenOf
    <3> QED BY <1>6, <3>2, ViewNamed
  <2>8. SeenOf(s) = Cache!NoCall BY <1>3 DEF SeenOf, Cache!NoCall, Cache!NoAnswer
  <2>9. /\ stages' = [stages EXCEPT ![p] = "idle"]
        /\ calls' = [calls EXCEPT ![p] = Cache!NoCall]
    <3>1. /\ stages' = [stages EXCEPT ![p] = StageOf(s)]
          /\ calls' = [calls EXCEPT ![p] = SeenOf(s)]
      BY <1>1, ViewStep
    <3> QED BY <1>3, <2>8, <3>1
  <2>10. calls[p].key = k /\ calls[p].run = i BY <2>7
  <2> HIDE DEF i
  <2>11. Cache!Keep(p)
    BY <1>1, <2>5, <2>6, <2>7, <2>9, <2>10 DEF Cache!Keep, Cache!Moves, Cache!Answer
  <2> QED BY <2>1, <2>11 DEF View, Cache!Next
<1> QED BY <1>10, <1>13, <1>14

\* A back-fill is over for the caller: it has the hit.
LEMMA FillView ==
  ASSUME IInv, AnswerInv, NEW p \in Proc, FillAcquire(p) \/ FillRead(p) \/ FillAdd(p)
  PROVE  View
<1> USE Standing DEF At
<1>1. UNCHANGED <<execs, nextId>> /\ LockInv
  BY DEF FillAcquire, FillRead, FillAdd, AddInputArtifacts, storeVars, ctlVars, AnswerInv
<1>2. CASE Finish(p) BY <1>1, <1>2, FinishView
<1>3. CASE FillAcquire(p)
  <2> DEFINE s == [proc[p] EXCEPT !.pc = "fillRead", !.row = 0, !.seen = {}]
  <2>1. proc' = [proc EXCEPT ![p] = s] BY <1>3 DEF FillAcquire, AcquireKey
  <2>2. s.pc = "fillRead" BY <1>1 DEF ProcState
  <2> HIDE DEF s
  <2>3. StageOf(s) = "idle" BY <2>2 DEF StageOf, IsReading, IsRecording
  <2> QED BY <1>1, <2>1, <2>3, IdleView
<1>4. CASE FillRead(p) /\ ~Finish(p)
  <2> DEFINE s(i) == [proc[p] EXCEPT !.pc = "fillAdd", !.row = i, !.doc = InputDoc,
                                     !.filling = TRUE]
  <2>1. PICK i : Become(p, s(i)) BY <1>4 DEF FillRead
  <2>2. s(i).pc = "fillAdd" BY <1>1 DEF ProcState
  <2>3. proc' = [proc EXCEPT ![p] = s(i)] BY <2>1 DEF Become
  <2> HIDE DEF s
  <2>4. StageOf(s(i)) = "idle" BY <2>2 DEF StageOf, IsReading, IsRecording
  <2> QED BY <1>1, <2>3, <2>4, IdleView
<1>5. CASE FillAdd(p)
  <2> DEFINE s == [proc[p] EXCEPT !.pc = "put"]
  <2>1. proc' = [proc EXCEPT ![p] = s] /\ proc[p].filling
    BY <1>1, <1>5 DEF FillAdd, Go, Become, Covered
  <2>2. s.pc = "put" /\ s.filling BY <1>1, <2>1 DEF ProcState
  <2> HIDE DEF s
  <2>3. StageOf(s) = "idle" BY <2>2 DEF StageOf, IsReading, IsRecording
  <2> QED BY <1>1, <2>1, <2>3, IdleView
<1> QED BY <1>2, <1>3, <1>4, <1>5

\* Purges take no part in a call, up to the rows they remove.
LEMMA PurgingView ==
  ASSUME IInv, AnswerInv, NEW p \in Proc,
         StartPurge(p) \/ PurgeAcquire(p) \/ PurgeRead(p) \/ PurgeBlob(p) \/ PurgeNext(p) \/ Abort(p)
  PROVE  View
<1> USE Standing DEF At
<1>1. UNCHANGED <<execs, nextId>> /\ LockInv
  BY DEF StartPurge, PurgeAcquire, PurgeRead, PurgeBlob, PurgeNext, Abort, RemoveBlob,
     storeVars, ctlVars, AnswerInv
<1>2. CASE Finish(p) BY <1>1, <1>2, FinishView
<1>3. ASSUME NEW s, proc' = [proc EXCEPT ![p] = s],
             s.pc \in {"purgeAcquire", "purgeRead", "purgeRows", "purgeBlobs"}
      PROVE  View
  <2>1. StageOf(s) = "idle" BY <1>3 DEF StageOf, IsReading, IsRecording
  <2> QED BY <1>1, <1>3, <2>1, IdleView
<1>4. CASE StartPurge(p)
  <2> DEFINE s(m, ks) == [IdleProc EXCEPT !.pc = "purgeAcquire", !.mode = m, !.victims = ks]
  <2>1. PICK m, ks : Become(p, s(m, ks)) BY <1>4 DEF StartPurge
  <2>2. s(m, ks).pc = "purgeAcquire" BY DEF IdleProc
  <2> HIDE DEF s
  <2> QED BY <1>3, <2>1, <2>2 DEF Become
<1>5. CASE PurgeAcquire(p)
  <2> DEFINE s(k) == [proc[p] EXCEPT !.pc = "purgeRead", !.victim = k,
                                     !.victims = proc[p].victims \ {k}]
  <2>1. PICK k \in proc[p].victims : AcquireKey(p, k, s(k)) BY <1>5 DEF PurgeAcquire
  <2>2. s(k).pc = "purgeRead" BY <1>1 DEF ProcState
  <2> HIDE DEF s
  <2> QED BY <1>3, <2>1, <2>2 DEF AcquireKey
<1>6. CASE PurgeRead(p)
  <2> DEFINE D == {BlobOf(a) : a \in {x \in artifacts : x.exec \in RowsOf(proc[p].victim)}}
             s == [proc[p] EXCEPT !.pc = "purgeRows", !.drop = D]
  <2>1. proc' = [proc EXCEPT ![p] = s] BY <1>6 DEF PurgeRead, Become
  <2>2. s.pc = "purgeRows" BY <1>1 DEF ProcState
  <2> HIDE DEF s
  <2> QED BY <1>3, <2>1, <2>2
<1>7. CASE PurgeBlob(p)
  <2> DEFINE s(b) == [proc[p] EXCEPT !.drop = proc[p].drop \ {b}]
  <2>1. PICK b : Become(p, s(b)) /\ proc[p].pc = "purgeBlobs" BY <1>7 DEF PurgeBlob
  <2>2. s(b).pc = "purgeBlobs" BY <1>1, <2>1 DEF ProcState
  <2> HIDE DEF s
  <2> QED BY <1>3, <2>1, <2>2 DEF Become
<1>8. CASE PurgeNext(p) /\ ~Finish(p)
  <2> DEFINE s == [proc[p] EXCEPT !.pc = "purgeAcquire", !.victim = NoKey]
  <2>1. proc' = [proc EXCEPT ![p] = s] BY <1>8 DEF PurgeNext, IInv, TypeOK
  <2>2. s.pc = "purgeAcquire" BY <1>1 DEF ProcState
  <2> HIDE DEF s
  <2> QED BY <1>3, <2>1, <2>2
<1> QED BY <1>2, <1>4, <1>5, <1>6, <1>7, <1>8 DEF Abort

LEMMA PurgeRowsView ==
  ASSUME IInv, AnswerInv, NEW p \in Proc, PurgeRows(p)
  PROVE  View
<1> USE Standing DEF At
<1> DEFINE s == [proc[p] EXCEPT !.pc = "purgeBlobs"]
<1>1. /\ proc[p].pc = "purgeRows" /\ proc' = [proc EXCEPT ![p] = s] /\ nextId' = nextId
      /\ SoftPurgeExecution(proc[p].victim) \/ HardDeleteExecution(proc[p].victim)
      /\ LockInv
  BY DEF PurgeRows, Go, Become, ctlVars, AnswerInv
<1>2. s.pc = "purgeBlobs" BY <1>1 DEF ProcState
<1> HIDE DEF s
<1>3. PICK k : k = proc[p].victim OBVIOUS
<1>4. k \in held[p] BY <1>1, <1>3 DEF Covered, IsPurging
<1>5. k \in Key BY <1>4 DEF IInv, TypeOK
<1>6. PICK S \in SUBSET Id : S = RowsOf(k) BY DEF RowsOf
<1>7. \A i \in Id \ S : execs'[i] = execs[i]
  BY <1>1, <1>3, <1>6 DEF SoftPurgeExecution, HardDeleteExecution
<1>8. \A i \in S : \/ execs'[i].state = "ABSENT"
                   \/ ~execs'[i].persisted /\ execs'[i].key = execs[i].key
  <2>1. CASE HardDeleteExecution(k) BY <1>6, <2>1 DEF HardDeleteExecution, AbsentRow
  <2>2. CASE SoftPurgeExecution(k)
    BY <1>6, <2>2 DEF SoftPurgeExecution, IInv, TypeOK, StoreTypeOK, Execution
  <2> QED BY <1>1, <1>3, <2>1, <2>2
<1>9. KeysKept BY <1>6, <1>7, <1>8 DEF KeysKept, RowsOf, Exists
<1>10. NewCurrent(k) = {} BY <1>6, <1>7, <1>8 DEF NewCurrent, RowsOf, Exists
<1>11. \A l \in Key \ {k} : NewCurrent(l) = CurrentOf(l)
  BY <1>6, <1>7, <1>8 DEF NewCurrent, CurrentOf, Servable, RowsOf, Exists
<1>12. StageOf(s) = "idle" /\ StageOf(proc[p]) = "idle"
  BY <1>1, <1>2 DEF StageOf, IsReading, IsRecording
<1>13. KeepsMode(s) /\ ReadsOwnKey(s) BY <1>12, IdleKeepsMode
<1>14. CASE CurrentOf(k) = {}
  <2>1. \A l \in Key : NewCurrent(l) = CurrentOf(l) BY <1>10, <1>11, <1>14
  <2> QED BY <1>1, <1>9, <1>12, <1>13, <2>1, QuietView
<1>15. ASSUME NEW i \in CurrentOf(k) PROVE View
  <2>1. CallsKeepMode' /\ ReaderRowOfKey' BY <1>1, <1>9, <1>13, ModeStep
  <2>2. answers[k] # 0 BY <1>5, AnswersNamed
  <2>3. answers'[k] = 0 BY <1>5, <1>10, AnswersNamed, NewestNone
  <2>4. \A l \in Key \ {k} : answers'[l] = answers[l] BY <1>11, AnswersNamed
  <2>5. answers' = [answers EXCEPT ![k] = 0]
    <3>1. /\ answers = [l \in Key |-> answers[l]]
          /\ answers' = [l \in Key |-> answers'[l]]
      BY DEF answers
    <3> QED BY <1>5, <2>3, <2>4, <3>1
  <2>6. Cache!RunnersOf(k) = {}
    <3>1. ~Recording(p) BY <1>1 DEF Recording
    <3> QED BY <1>4, <3>1, NoRunners
  <2>7. stages' = stages /\ calls' = calls
    <3>1. SeenOf(s) = SeenOf(proc[p]) BY <1>12 DEF SeenOf
    <3>2. /\ stages' = [stages EXCEPT ![p] = StageOf(s)]
          /\ calls' = [calls EXCEPT ![p] = SeenOf(s)]
      BY <1>1, ViewStep
    <3> QED BY <1>12, <3>1, <3>2, ViewNamed DEF stages, calls
  <2>8. Cache!Forget(k) BY <1>1, <2>2, <2>5, <2>6, <2>7 DEF Cache!Forget, Cache!NoAnswer
  <2> QED BY <1>5, <2>1, <2>8 DEF View, Cache!Next
<1> QED BY <1>14, <1>15

LEMMA NextView ==
  ASSUME "REPAIR" \notin Admin, IInv, AnswerInv, [Next]_vars
  PROVE  View
<1>1. ASSUME NEW p \in Proc,
             \/ StartCall(p) \/ StartPurge(p) \/ StartRepair(p)
             \/ CallStep(p) \/ AdminStep(p) \/ Abort(p)
      PROVE  View
  <2>1. ~StartRepair(p) BY DEF StartRepair
  <2>2. ~(RepairNext(p) \/ RepairGet(p) \/ RepairMark(p) \/ RepairFinalize(p) \/ RepairPromote(p))
    <3>1. proc[p].pc \notin RepairPC BY Standing DEF Covered, AnswerInv
    <3> QED BY <3>1
            DEF RepairNext, RepairGet, RepairMark, RepairFinalize, RepairPromote, RepairPC, At
  <2>3. CASE CallStep(p)
    BY <2>3, FindCurrentView, LoadExecutionView, HydrateView, ServeHitView, HealBlobView,
       HealRowsView, AcquireView, SaveView, ClientView, StoringView, PromoteRunView, FillView
    DEF CallStep
  <2>4. CASE AdminStep(p) BY <2>2, <2>4, PurgingView, PurgeRowsView DEF AdminStep
  <2> QED BY <1>1, <2>1, <2>3, <2>4, StartCallView, PurgingView
<1>2. CASE UNCHANGED vars
  <2>1. UNCHANGED <<execs, proc, nextId>> BY <1>2 DEF vars, storeVars, ctlVars
  <2>2. CallsKeepMode' /\ ReaderRowOfKey'
    BY <2>1 DEF AnswerInv, CallsKeepMode, ReaderRowOfKey, CallStage, Asking, Reading, Recording,
                At, Exists
  <2>3. stages' = stages /\ calls' = calls
    BY <2>1 DEF stages, calls, CallSeen, CallStage, Asking, Reading, Recording
  <2>4. answers' = answers BY <2>1, ExecsUntouched, AnswersSame
  <2> QED BY <2>1, <2>2, <2>3, <2>4 DEF View, Cache!vars
<1> QED BY <1>1, <1>2 DEF Next

LEMMA InitView == Init => AnswerInv /\ Cache!Init
<1> SUFFICES ASSUME Init PROVE AnswerInv /\ Cache!Init
  OBVIOUS
<1>1. \A p \in Proc : proc[p] = IdleProc BY DEF Init
<1>2. IdleProc.pc = "idle" BY DEF IdleProc
<1>3. \A p \in Proc : ~Asking(p) /\ ~Reading(p) /\ ~Recording(p) /\ CallStage(p) = "idle"
  BY <1>1, <1>2 DEF Asking, Reading, Recording, CallStage
<1>4. AnswerInv
  BY <1>1, <1>2, <1>3, InitLock DEF AnswerInv, CallsKeepMode, ReaderRowOfKey, At
<1>5. \A k \in Key : CurrentOf(k) = {}
  BY DEF Init, StoreInit, AbsentRow, CurrentOf, Servable
<1>6. answers = [k \in Key |-> 0] BY <1>5, NewestNone DEF answers
<1>7. stages = [p \in Proc |-> "idle"] BY <1>3 DEF stages
<1>8. calls = [p \in Proc |-> [mode |-> "CACHE", key |-> NoKey, run |-> 0]]
  BY <1>3 DEF calls, CallSeen
<1>9. nextId = 1 BY DEF Init
<1> QED BY <1>4, <1>6, <1>7, <1>8, <1>9 DEF Cache!Init, Cache!NoCall, Cache!NoAnswer

\* Calls keep to their mode and readers to their key, for every number of
\* callers, keys and runs.
THEOREM AnswerInvHolds ==
  ASSUME ~LockTimeouts, "REPAIR" \notin Admin
  PROVE  Spec => []AnswerInv
<1>1. Init => AnswerInv BY InitView
<1>2. IInv /\ AnswerInv /\ [Next]_vars => AnswerInv'
  <2> SUFFICES ASSUME IInv, AnswerInv, [Next]_vars PROVE AnswerInv' OBVIOUS
  <2>1. LockInv' BY NextLock DEF AnswerInv
  <2> QED BY <2>1, NextView DEF View, AnswerInv
<1> QED BY <1>1, <1>2, InvariantHolds, PTL DEF Spec

\* execute is the one-step cache of AnswerStore to those who call it: whatever
\* transactions of other callers, purges, evictions and crashes come between
\* its own, what a caller is told was the answer of its key at one moment, one
\* caller at a time runs the client for a key, and every change of an answer is
\* a newer run taking over, a purge, or a caller discarding what it was told.
THEOREM AnswerStoreImplemented ==
  ASSUME ~LockTimeouts, "REPAIR" \notin Admin
  PROVE  Spec => ImplementsAnswerStore
<1>1. Init => Cache!Init BY InitView
<1>2. IInv /\ AnswerInv /\ [Next]_vars => [Cache!Next]_(Cache!vars)
  BY NextView DEF View
<1> QED BY <1>1, <1>2, InvariantHolds, AnswerInvHolds, PTL
        DEF Spec, ImplementsAnswerStore, Cache!Spec
=============================================================================
