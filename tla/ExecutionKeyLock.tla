--------------------------- MODULE ExecutionKeyLock ---------------------------
(***************************************************************************)
(* FilesystemExecutionKeyLock: a re-entrant thread lock per stripe, shared *)
(* by the threads of a process, and inside it a lock file per key, shared  *)
(* by the processes, which is waited for until a deadline.  The deadline   *)
(* is sized to the client call that the section runs, so time is modelled: *)
(* clients and deadlines count down, a Tick at a time, and a thread that   *)
(* is due acts before the next Tick.  A section that asks a provider over  *)
(* HTTP is not bounded by the client timeout: its runner has a timeout of  *)
(* its own for each exchange with a socket, and retries and pauses.        *)
(*                                                                         *)
(* A caller nests at most one acquire in another: the recorded key again   *)
(* (back-filling an input) or another key (eviction).                      *)
(***************************************************************************)
EXTENDS Naturals, FiniteSets

CONSTANTS
  Thread,         \* the threads that call acquire
  ProcessOf,      \* the process each thread belongs to
  Key,            \* execution keys
  NoKey,          \* no key
  NoThread,       \* the holder of a lock that is free
  Stripe,         \* the stripes of a process
  StripeOf,       \* each process's hash of a key, modulo the stripes
  ClientTimeout,  \* each process's client timeout in ticks, 0 for none
  Margin,         \* _LOCK_WAIT_MARGIN_SECONDS, in ticks
  Ceiling,        \* _UNBOUNDED_CLIENT_WAIT_CEILING_SECONDS, in ticks
  Apis,           \* whether a section may run an API client
  Evictions,      \* whether a caller acquires another key inside a section
  Hangs,          \* whether a thread may get stuck in its client call
  Denials,        \* whether the file system may deny a lock file
  Deaths          \* whether processes die

Process == {ProcessOf[t] : t \in Thread}

ASSUME KeyLockAssumption ==
  /\ NoKey \notin Key
  /\ NoThread \notin Thread
  /\ StripeOf \in [Process -> [Key -> Stripe]]
  /\ ClientTimeout \in [Process -> Nat]
  /\ Margin \in Nat \ {0}
  /\ Ceiling \in Nat \ {0}
  /\ {Apis, Evictions, Hangs, Denials, Deaths} \subseteq BOOLEAN

VARIABLES
  thread,     \* what each thread is doing
  stripe,     \* each process's stripes: the owner and how often it entered
  os,         \* the thread that holds the lock on each key's file
  outlasted   \* history: waiters that have seen the file unlocked meanwhile

vars == <<thread, stripe, os, outlasted>>

\* Defective variant: the wait is not sized to the client call.
LockWaitFixed(process) == Margin

\* lock_wait_for_client_timeout.
LockWait(process) ==
  IF ClientTimeout[process] = 0 THEN Ceiling ELSE ClientTimeout[process] + Margin

Step == {"out", "stripe", "open", "wait", "in", "release"}

ThreadState ==
  [step : Step,
   want : Key \cup {NoKey},    \* the key being acquired or released
   outer : Key \cup {NoKey},   \* the section entered first
   inner : Key \cup {NoKey},   \* the section nested in it
   acquired : SUBSET Key,      \* sections entered with the lock on the file
   left : Nat,                 \* ticks to the deadline of the wait
   work : Nat,                 \* ticks to the timeout of the client call
   api : BOOLEAN,              \* the call is an API client's
   evicting : BOOLEAN,         \* past the client call, evicting other keys
   hung : BOOLEAN]

Outside ==
  [step |-> "out", want |-> NoKey, outer |-> NoKey, inner |-> NoKey, acquired |-> {},
   left |-> 0, work |-> 0, api |-> FALSE, evicting |-> FALSE, hung |-> FALSE]

FreeStripe == [owner |-> NoThread, count |-> 0]

TypeOK ==
  /\ thread \in [Thread -> ThreadState]
  /\ stripe \in [Process -> [Stripe -> [owner : Thread \cup {NoThread}, count : Nat]]]
  /\ os \in [Key -> Thread \cup {NoThread}]
  /\ outlasted \subseteq Thread

Init ==
  /\ thread = [t \in Thread |-> Outside]
  /\ stripe = [pr \in Process |-> [s \in Stripe |-> FreeStripe]]
  /\ os = [k \in Key |-> NoThread]
  /\ outlasted = {}

At(t, step) == thread[t].step = step

\* The sections a thread is inside of.
Sections(t) == {thread[t].outer, thread[t].inner} \ {NoKey}

\* Defective variant: a thread does not remember what it holds.
HeldKeysForgotten(t) == {}

\* _held_keys.
HeldKeys(t) == Sections(t)

WaitersFor(k) == {t \in Thread : At(t, "wait") /\ thread[t].want = k}

StripeFor(t, k) == StripeOf[ProcessOf[t]][k]
StripeOwner(t)  == stripe[ProcessOf[t]][StripeFor(t, thread[t].want)].owner

\* The client timeout of a section, 0 for none.
Timeout(t) == IF thread[t].api THEN 0 ELSE ClientTimeout[ProcessOf[t]]

\* The thread goes into the section it wanted; the client timeout of the
\* outer section starts to run.
Inside(t, got) ==
  LET k == thread[t].want
      entered == [thread[t] EXCEPT !.step = "in", !.want = NoKey, !.left = 0,
                                   !.acquired = @ \cup (IF got THEN {k} ELSE {})]
  IN  IF thread[t].outer = NoKey
      THEN [entered EXCEPT !.outer = k, !.work = Timeout(t)]
      ELSE [entered EXCEPT !.inner = k]

-----------------------------------------------------------------------------
(* acquire.                                                                *)

\* A caller comes to a with statement: the first, or one inside a section.  It
\* evicts other keys when its own client call is over.  Which client it calls is
\* settled outside.
StartAcquire(t) ==
  /\ \E k \in Key, api \in {FALSE, Apis} :
       \/ /\ At(t, "out")
          /\ thread' = [thread EXCEPT ![t].step = "stripe", ![t].want = k, ![t].api = api]
       \/ /\ At(t, "in") /\ thread[t].inner = NoKey /\ ~thread[t].hung
          /\ k # thread[t].outer => Evictions
          /\ thread' = [thread EXCEPT ![t].step = "stripe", ![t].want = k,
                          ![t].work = IF k = thread[t].outer THEN @ ELSE 0,
                          ![t].evicting = @ \/ k # thread[t].outer]
  /\ UNCHANGED <<stripe, os, outlasted>>

\* Defective variant: the threads of a process only meet at the file.
TakeStripeUnguarded(t) ==
  /\ At(t, "stripe")
  /\ thread' = [thread EXCEPT ![t] =
       IF @.want \in HeldKeys(t) THEN Inside(t, FALSE) ELSE [@ EXCEPT !.step = "open"]]
  /\ stripe' = [stripe EXCEPT ![ProcessOf[t]][StripeFor(t, thread[t].want)] =
                  [owner |-> t, count |-> @.count + 1]]
  /\ UNCHANGED <<os, outlasted>>

\* The RLock of the key's stripe, with no deadline.  A key this thread already
\* holds is entered at once.
TakeStripe(t) ==
  /\ At(t, "stripe")
  /\ StripeOwner(t) \in {t, NoThread}
  /\ thread' = [thread EXCEPT ![t] =
       IF @.want \in HeldKeys(t) THEN Inside(t, FALSE) ELSE [@ EXCEPT !.step = "open"]]
  /\ stripe' = [stripe EXCEPT ![ProcessOf[t]][StripeFor(t, thread[t].want)] =
                  [owner |-> t, count |-> @.count + 1]]
  /\ UNCHANGED <<os, outlasted>>

OpenLockFile(t) ==
  /\ At(t, "open")
  /\ thread' = [thread EXCEPT ![t].step = "wait", ![t].left = LockWait(ProcessOf[t])]
  /\ outlasted' = outlasted \ {t}
  /\ UNCHANGED <<stripe, os>>

\* The file cannot be opened: on without it.
OpenDenied(t) ==
  /\ At(t, "open")
  /\ Denials
  /\ thread' = [thread EXCEPT ![t] = Inside(t, FALSE)]
  /\ UNCHANGED <<stripe, os, outlasted>>

\* One try of the retry loop succeeds.
TryLock(t) ==
  /\ At(t, "wait")
  /\ os[thread[t].want] = NoThread
  /\ os' = [os EXCEPT ![thread[t].want] = t]
  /\ thread' = [thread EXCEPT ![t] = Inside(t, TRUE)]
  /\ UNCHANGED <<stripe, outlasted>>

\* A try at the deadline fails: on without the lock on the file.
GiveUp(t) ==
  /\ At(t, "wait")
  /\ os[thread[t].want] # NoThread
  /\ thread[t].left = 0
  /\ thread' = [thread EXCEPT ![t] = Inside(t, FALSE)]
  /\ UNCHANGED <<stripe, os, outlasted>>

-----------------------------------------------------------------------------
(* Leaving a section: the file first, then the stripe.                     *)

Innermost(t) == IF thread[t].inner # NoKey THEN thread[t].inner ELSE thread[t].outer

\* A nested section of a key that an outer one holds.
Nested(t) == thread[t].inner = thread[t].outer

\* The thread without its innermost section.
Without(t, k) ==
  LET left == [thread[t] EXCEPT !.step = "release", !.want = k]
  IN  IF thread[t].inner # NoKey
      THEN [left EXCEPT !.inner = NoKey, !.acquired = IF Nested(t) THEN @ ELSE @ \ {k}]
      ELSE [left EXCEPT !.outer = NoKey, !.acquired = {}, !.work = 0, !.api = FALSE,
                        !.evicting = FALSE]

\* Defective variant: leaving a nested section unlocks the file as well.
LeaveUnlocksNested(t) ==
  /\ At(t, "in") /\ ~thread[t].hung
  /\ LET k == Innermost(t) IN
       /\ thread' = [thread EXCEPT ![t] = Without(t, k)]
       /\ IF k \in thread[t].acquired
          THEN os' = [os EXCEPT ![k] = NoThread] /\ outlasted' = outlasted \cup WaitersFor(k)
          ELSE UNCHANGED <<os, outlasted>>
  /\ UNCHANGED stripe

Leave(t) ==
  /\ At(t, "in") /\ ~thread[t].hung
  /\ LET k == Innermost(t) IN
       /\ thread' = [thread EXCEPT ![t] = Without(t, k)]
       /\ IF k \in thread[t].acquired /\ ~Nested(t)
          THEN os' = [os EXCEPT ![k] = NoThread] /\ outlasted' = outlasted \cup WaitersFor(k)
          ELSE UNCHANGED <<os, outlasted>>
  /\ UNCHANGED stripe

AfterRelease(t) ==
  [thread[t] EXCEPT !.step = IF thread[t].outer = NoKey THEN "out" ELSE "in", !.want = NoKey]

\* Defective variant: the stripe is free as soon as its owner releases it once.
DropStripeAtOnce(t) ==
  /\ At(t, "release")
  /\ stripe' = [stripe EXCEPT ![ProcessOf[t]][StripeFor(t, thread[t].want)] = FreeStripe]
  /\ thread' = [thread EXCEPT ![t] = AfterRelease(t)]
  /\ UNCHANGED <<os, outlasted>>

DropStripe(t) ==
  /\ At(t, "release")
  /\ stripe' = [stripe EXCEPT ![ProcessOf[t]][StripeFor(t, thread[t].want)] =
                  IF @.count = 1 THEN FreeStripe ELSE [owner |-> t, count |-> @.count - 1]]
  /\ thread' = [thread EXCEPT ![t] = AfterRelease(t)]
  /\ UNCHANGED <<os, outlasted>>

-----------------------------------------------------------------------------
(* The world around: a client call that never ends, a process that dies,   *)
(* and time.                                                               *)

Hang(t) ==
  /\ Hangs
  /\ At(t, "in") /\ ~thread[t].evicting /\ ~thread[t].hung
  /\ thread' = [thread EXCEPT ![t].hung = TRUE]
  /\ UNCHANGED <<stripe, os, outlasted>>

\* The operating system unlocks the files of a process that died.
HeldBy(process) == {k \in Key : os[k] # NoThread /\ ProcessOf[os[k]] = process}

Die(process) ==
  /\ Deaths
  /\ thread' = [t \in Thread |-> IF ProcessOf[t] = process THEN Outside ELSE thread[t]]
  /\ stripe' = [stripe EXCEPT ![process] = [s \in Stripe |-> FreeStripe]]
  /\ os' = [k \in Key |-> IF k \in HeldBy(process) THEN NoThread ELSE os[k]]
  /\ outlasted' = outlasted \cup UNION {WaitersFor(k) : k \in HeldBy(process)}

\* A thread that acts before time goes on: a waiter polls more often than once
\* a tick, and a section ends when its client call has reached its timeout.
Due(t) ==
  \/ At(t, "stripe") /\ StripeOwner(t) \in {t, NoThread}
  \/ thread[t].step \in {"open", "release"}
  \/ At(t, "wait") /\ (thread[t].left = 0 \/ os[thread[t].want] = NoThread)
  \/ /\ At(t, "in") /\ ~thread[t].hung
     /\ thread[t].work = 0
     /\ Timeout(t) # 0 \/ thread[t].evicting

\* A countdown stays at zero.
Less(n) == IF n = 0 THEN 0 ELSE n - 1

Tick ==
  /\ \A t \in Thread : ~Due(t)
  /\ thread' = [t \in Thread |-> [thread[t] EXCEPT !.left = Less(@), !.work = Less(@)]]
  /\ UNCHANGED <<stripe, os, outlasted>>

Next ==
  \/ \E t \in Thread :
       \/ StartAcquire(t) \/ TakeStripe(t) \/ OpenLockFile(t) \/ OpenDenied(t)
       \/ TryLock(t) \/ GiveUp(t) \/ Leave(t) \/ DropStripe(t) \/ Hang(t)
  \/ \E process \in Process : Die(process)
  \/ Tick

Spec == Init /\ [][Next]_vars

-----------------------------------------------------------------------------
(* Properties.                                                             *)

\* Two threads inside a section of one key are of different processes, and one
\* of them went in without the lock on the file: a nested section's exit, a
\* denied file or a deadline never lets go of a lock a peer relies on.
Exclusion ==
  \A t, u \in Thread : \A k \in Sections(t) \cap Sections(u) :
    t # u => /\ ProcessOf[t] # ProcessOf[u]
             /\ ~(k \in thread[t].acquired /\ k \in thread[u].acquired)

\* No thread waits for a file it has locked itself, however its sections nest
\* (flock would deny the second descriptor until the deadline).
NoSelfDenial ==
  \A t \in Thread : At(t, "wait") => os[thread[t].want] # t

\* How often a thread has entered a stripe: once for each section, and once for
\* the one it is on its way into or out of.
Entry(t, k, s) == IF k # NoKey /\ StripeFor(t, k) = s THEN 1 ELSE 0
Passing(t) == IF thread[t].step \in {"open", "wait", "release"} THEN thread[t].want ELSE NoKey
Entries(t, s) ==
  Entry(t, thread[t].outer, s) + Entry(t, thread[t].inner, s) + Entry(t, Passing(t), s)

\* Nothing leaks: a file is locked by exactly the thread whose section took it,
\* and a stripe has been entered exactly as often as its owner still uses it.
LocksMatchSections ==
  /\ \A t \in Thread : /\ thread[t].acquired \subseteq Sections(t)
                       /\ \A k \in Key : os[k] = t <=> k \in thread[t].acquired
  /\ \A t \in Thread : \A s \in Stripe :
       LET own == stripe[ProcessOf[t]][s] IN
         /\ Entries(t, s) = (IF own.owner = t THEN own.count ELSE 0)
         /\ own.owner = NoThread <=> own.count = 0

\* What a thread knows at each step; it waits for keys it is not inside of.
StepsFit ==
  \A t \in Thread : LET st == thread[t] IN
    /\ st.step \in {"stripe", "open", "wait", "release"} => st.want \in Key /\ st.inner = NoKey
    /\ st.step \in {"out", "in"} => st.want = NoKey
    /\ st.step = "in" => st.outer # NoKey
    /\ st.step = "out" => st.outer = NoKey
    /\ st.inner # NoKey => st.outer # NoKey
    /\ st.step \in {"open", "wait"} => st.want \notin Sections(t)

\* The inductive invariant behind Exclusion, NoSelfDenial and ImplementsMutex.
KeyLockInv == TypeOK /\ LocksMatchSections /\ StepsFit

GaveUp(t) ==
  At(t, "wait") /\ At(t, "in")' /\ thread[t].want \notin thread'[t].acquired

\* Whoever held the file when a wait began is outwaited, unless it is stuck, has
\* gone on to evict other keys, asks a provider over HTTP (no wait is sized to that), or
\* has a client timeout the wait was not sized to: a longer one, or none on either side.
OutwaitsHolder ==
  [][\A t \in Thread : GaveUp(t) /\ t \notin outlasted =>
       LET h == os[thread[t].want] IN
         \/ thread[h].hung
         \/ thread[h].evicting
         \/ thread[h].api
         \/ ClientTimeout[ProcessOf[h]] \notin 1 .. ClientTimeout[ProcessOf[t]]]_vars

\* "only a genuinely hung/dead peer - already past its own timeout - ever falls
\* through to a duplicate run": a wait that runs out has met a peer that is stuck.
OnlyHungPeersAreOvertaken ==
  [][\A t \in Thread : GaveUp(t) => thread[os[thread[t].want]].hung]_vars

Mutex == INSTANCE KeyMutex WITH
  holder <- os,
  inside <- [t \in Thread |-> Sections(t)]

\* The two levels together are the mutex the use cases are written against.
ImplementsMutex == Mutex!Spec
=============================================================================
