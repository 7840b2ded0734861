------------------------ MODULE ExecutionKeyLock_proofs ------------------------
(***************************************************************************)
(* Proofs about ExecutionKeyLock, for every number of processes, threads,  *)
(* keys and stripes, every hash of keys to stripes and every timeout: the  *)
(* stripes and the lock files together are the mutex of KeyMutex.          *)
(*                                                                         *)
(* The argument: a thread inside a section, or on its way into or out of   *)
(* one, has entered that key's stripe, and a stripe has one owner; a file  *)
(* is locked by the thread whose section took it (LocksMatchSections).     *)
(* That is inductive with what each step knows (StepsFit), and exclusion,  *)
(* the absence of self-denial and the refinement follow from it.  The last *)
(* part is about time: WaitInv compares the clock of each wait with the    *)
(* clock of the client call it waits for.                                  *)
(***************************************************************************)
EXTENDS ExecutionKeyLock, TLAPS

\* The invariant of a thread in state st.
SectionsOf(st) == {st.outer, st.inner} \ {NoKey}
PassingOf(st) == IF st.step \in {"open", "wait", "release"} THEN st.want ELSE NoKey
Uses(t, st, s) == Entry(t, st.outer, s) + Entry(t, st.inner, s) + Entry(t, PassingOf(st), s)

Fits(st) ==
  /\ st.step \in {"stripe", "open", "wait", "release"} => st.want \in Key /\ st.inner = NoKey
  /\ st.step \in {"out", "in"} => st.want = NoKey
  /\ st.step = "in" => st.outer # NoKey
  /\ st.step = "out" => st.outer = NoKey
  /\ st.inner # NoKey => st.outer # NoKey
  /\ st.step \in {"open", "wait"} => st.want \notin SectionsOf(st)
  /\ st.acquired \subseteq SectionsOf(st)

\* How often the owner field of a stripe says that u has entered it.
Owned(own, u) == IF own.owner = u THEN own.count ELSE 0

LEMMA Named ==
  ASSUME NEW t \in Thread
  PROVE  /\ Sections(t) = SectionsOf(thread[t])
         /\ Passing(t) = PassingOf(thread[t])
         /\ \A s : Entries(t, s) = Uses(t, thread[t], s)
BY DEF Sections, SectionsOf, Passing, PassingOf, Entries, Uses

\* KeyLockInv, thread by thread.
LEMMA Unfolded ==
  KeyLockInv <=>
    /\ TypeOK
    /\ \A t \in Thread : Fits(thread[t])
    /\ \A t \in Thread : \A k \in Key : os[k] = t <=> k \in thread[t].acquired
    /\ \A t \in Thread : \A s \in Stripe :
         LET own == stripe[ProcessOf[t]][s] IN
           /\ Uses(t, thread[t], s) = Owned(own, t)
           /\ own.owner = NoThread <=> own.count = 0
BY Named DEF KeyLockInv, LocksMatchSections, StepsFit, Fits, Owned

LEMMA UsesType ==
  ASSUME NEW t, NEW st, NEW s
  PROVE  /\ Uses(t, st, s) \in Nat
         /\ \A k : Entry(t, k, s) \in {0, 1}
         /\ Entry(t, NoKey, s) = 0
BY DEF Uses, Entry

\* KeyLockInv after a step, thread by thread.
LEMMA Refolded ==
  ASSUME TypeOK', \A u \in Thread : Fits(thread'[u]),
         \A u \in Thread : \A k \in Key : os'[k] = u <=> k \in thread'[u].acquired,
         \A u \in Thread : \A s \in Stripe :
           /\ Uses(u, thread'[u], s) = Owned(stripe'[ProcessOf[u]][s], u)
           /\ stripe'[ProcessOf[u]][s].owner = NoThread <=> stripe'[ProcessOf[u]][s].count = 0
  PROVE  KeyLockInv'
<1>1. /\ (\A u \in Thread : Fits(thread[u]))'
      /\ (\A u \in Thread : \A k \in Key : os[k] = u <=> k \in thread[u].acquired)'
      /\ (\A u \in Thread : \A s \in Stripe :
            LET own == stripe[ProcessOf[u]][s] IN
              /\ Uses(u, thread[u], s) = Owned(own, u)
              /\ own.owner = NoThread <=> own.count = 0)'
  BY DEF Fits, Uses, Entry, PassingOf, SectionsOf, Owned, StripeFor
<1>2. /\ (\A u \in Thread : Sections(u) = SectionsOf(thread[u]))'
      /\ (\A u \in Thread : \A s \in Stripe : Entries(u, s) = Uses(u, thread[u], s))'
  BY DEF Sections, SectionsOf, Passing, PassingOf, Entries, Uses
<1>3. LocksMatchSections' /\ StepsFit'
  BY <1>1, <1>2 DEF LocksMatchSections, StepsFit, Fits, Owned
<1> QED BY <1>3 DEF KeyLockInv

\* The step of one thread.
LEMMA ThreadStep ==
  ASSUME KeyLockInv, NEW t \in Thread, NEW st \in ThreadState,
         thread' = [thread EXCEPT ![t] = st], Fits(st), outlasted' \subseteq Thread,
         os' \in [Key -> Thread \cup {NoThread}],
         \A k \in Key : os'[k] = t <=> k \in st.acquired,
         \A u \in Thread \ {t} : \A k \in Key : os'[k] = u <=> os[k] = u,
         stripe' \in [Process -> [Stripe -> [owner : Thread \cup {NoThread}, count : Nat]]],
         \A s \in Stripe : Uses(t, st, s) = Owned(stripe'[ProcessOf[t]][s], t),
         \A u \in Thread \ {t} : \A s \in Stripe :
           Owned(stripe'[ProcessOf[u]][s], u) = Owned(stripe[ProcessOf[u]][s], u),
         \A u \in Thread : \A s \in Stripe :
           stripe'[ProcessOf[u]][s].owner = NoThread <=> stripe'[ProcessOf[u]][s].count = 0
  PROVE  KeyLockInv'
<1> USE KeyLockAssumption, Unfolded
<1>1. TypeOK BY DEF KeyLockInv
<1>2. thread' \in [Thread -> ThreadState] /\ thread'[t] = st
      /\ \A u \in Thread \ {t} : thread'[u] = thread[u]
  BY <1>1 DEF TypeOK
<1>3. TypeOK' BY <1>1, <1>2 DEF TypeOK
<1>4. \A u \in Thread : Fits(thread'[u]) BY <1>2
<1>5. \A u \in Thread : \A k \in Key : os'[k] = u <=> k \in thread'[u].acquired BY <1>2
<1>6. \A u \in Thread : \A s \in Stripe :
        /\ Uses(u, thread'[u], s) = Owned(stripe'[ProcessOf[u]][s], u)
        /\ stripe'[ProcessOf[u]][s].owner = NoThread <=> stripe'[ProcessOf[u]][s].count = 0
  BY <1>2
<1> QED BY <1>3, <1>4, <1>5, <1>6, Refolded

\* A step that enters and leaves no stripe.
LEMMA SameStripes ==
  ASSUME KeyLockInv, NEW t \in Thread, NEW st \in ThreadState,
         thread' = [thread EXCEPT ![t] = st], Fits(st), outlasted' \subseteq Thread,
         os' \in [Key -> Thread \cup {NoThread}],
         \A k \in Key : os'[k] = t <=> k \in st.acquired,
         \A u \in Thread \ {t} : \A k \in Key : os'[k] = u <=> os[k] = u,
         UNCHANGED stripe,
         \A s \in Stripe : Uses(t, st, s) = Uses(t, thread[t], s)
  PROVE  KeyLockInv'
<1>1. TypeOK /\ stripe' = stripe BY DEF KeyLockInv
<1>2. \A u \in Thread : \A s \in Stripe :
        /\ Uses(u, thread[u], s) = Owned(stripe[ProcessOf[u]][s], u)
        /\ stripe[ProcessOf[u]][s].owner = NoThread <=> stripe[ProcessOf[u]][s].count = 0
  BY Unfolded
<1>3. stripe' \in [Process -> [Stripe -> [owner : Thread \cup {NoThread}, count : Nat]]]
  BY <1>1 DEF TypeOK
<1>4. /\ \A s \in Stripe : Uses(t, st, s) = Owned(stripe'[ProcessOf[t]][s], t)
      /\ \A u \in Thread \ {t} : \A s \in Stripe :
           Owned(stripe'[ProcessOf[u]][s], u) = Owned(stripe[ProcessOf[u]][s], u)
      /\ \A u \in Thread : \A s \in Stripe :
           stripe'[ProcessOf[u]][s].owner = NoThread <=> stripe'[ProcessOf[u]][s].count = 0
  BY <1>1, <1>2
<1> QED BY <1>3, <1>4, ThreadStep

\* A step that enters or leaves one stripe, which nobody else owns.
LEMMA OneStripe ==
  ASSUME KeyLockInv, NEW t \in Thread, NEW st \in ThreadState,
         thread' = [thread EXCEPT ![t] = st], Fits(st), os' = os, outlasted' = outlasted,
         st.acquired = thread[t].acquired, NEW s0 \in Stripe,
         stripe' \in [Process -> [Stripe -> [owner : Thread \cup {NoThread}, count : Nat]]],
         \A process \in Process : \A s \in Stripe :
           process # ProcessOf[t] \/ s # s0 => stripe'[process][s] = stripe[process][s],
         \A s \in Stripe \ {s0} : Uses(t, st, s) = Uses(t, thread[t], s),
         Uses(t, st, s0) = Owned(stripe'[ProcessOf[t]][s0], t),
         stripe'[ProcessOf[t]][s0].owner = NoThread <=> stripe'[ProcessOf[t]][s0].count = 0,
         stripe'[ProcessOf[t]][s0].owner \in {t, NoThread},
         stripe[ProcessOf[t]][s0].owner \in {t, NoThread}
  PROVE  KeyLockInv'
<1>1. /\ TypeOK /\ \A k \in Key : os[k] = t <=> k \in thread[t].acquired
      /\ \A u \in Thread : \A s \in Stripe :
           /\ Uses(u, thread[u], s) = Owned(stripe[ProcessOf[u]][s], u)
           /\ stripe[ProcessOf[u]][s].owner = NoThread <=> stripe[ProcessOf[u]][s].count = 0
  BY Unfolded
<1>2. \A u \in Thread : ProcessOf[u] \in Process BY DEF Process
<1>3. \A s \in Stripe : Uses(t, st, s) = Owned(stripe'[ProcessOf[t]][s], t)
  BY <1>1, <1>2
<1>4. ASSUME NEW u \in Thread \ {t}, NEW s \in Stripe
      PROVE  Owned(stripe'[ProcessOf[u]][s], u) = Owned(stripe[ProcessOf[u]][s], u)
  <2>1. CASE s # s0 \/ ProcessOf[u] # ProcessOf[t] BY <1>2, <2>1
  <2>2. CASE s = s0 /\ ProcessOf[u] = ProcessOf[t] BY <2>2, KeyLockAssumption DEF Owned
  <2> QED BY <2>1, <2>2
<1>5. \A u \in Thread : \A s \in Stripe :
        stripe'[ProcessOf[u]][s].owner = NoThread <=> stripe'[ProcessOf[u]][s].count = 0
  <2> SUFFICES ASSUME NEW u \in Thread, NEW s \in Stripe
               PROVE  stripe'[ProcessOf[u]][s].owner = NoThread <=>
                        stripe'[ProcessOf[u]][s].count = 0
    OBVIOUS
  <2>1. CASE s # s0 \/ ProcessOf[u] # ProcessOf[t] BY <1>1, <1>2, <2>1
  <2>2. CASE s = s0 /\ ProcessOf[u] = ProcessOf[t] BY <2>2
  <2> QED BY <2>1, <2>2
<1>6. /\ os' \in [Key -> Thread \cup {NoThread}] /\ outlasted' \subseteq Thread
      /\ \A k \in Key : os'[k] = t <=> k \in st.acquired
  BY <1>1 DEF TypeOK
<1> QED BY <1>3, <1>4, <1>5, <1>6, ThreadStep

\* Going into the section a thread wanted.
LEMMA InsideFacts ==
  ASSUME KeyLockInv, NEW t \in Thread, thread[t].step \in {"stripe", "open", "wait"},
         NEW got \in BOOLEAN, NEW st, st = Inside(t, got)
  PROVE  /\ st \in ThreadState /\ Fits(st)
         /\ st.step = "in"
         /\ st.acquired = thread[t].acquired \cup (IF got THEN {thread[t].want} ELSE {})
         /\ SectionsOf(st) = Sections(t) \cup {thread[t].want}
         /\ \A s : Uses(t, st, s) = Entry(t, thread[t].want, s) +
                     (Entry(t, thread[t].outer, s) + Entry(t, thread[t].inner, s))
<1> USE KeyLockAssumption
<1>1. thread[t] \in ThreadState /\ Fits(thread[t]) /\ Sections(t) = SectionsOf(thread[t])
  BY Unfolded, Named DEF TypeOK
<1>2. thread[t].want \in Key /\ thread[t].inner = NoKey BY <1>1 DEF Fits
<1>3. ProcessOf[t] \in Process /\ Timeout(t) \in Nat BY DEF Process, Timeout
<1> DEFINE k == thread[t].want
           more == IF got THEN {k} ELSE {}
           e == [thread[t] EXCEPT !.step = "in", !.want = NoKey, !.left = 0,
                                  !.acquired = @ \cup more]
           e1 == [e EXCEPT !.outer = k, !.work = Timeout(t)]
           e2 == [e EXCEPT !.inner = k]
<1>4. st = IF thread[t].outer = NoKey THEN e1 ELSE e2 BY DEF Inside
<1>5. more \subseteq Key BY <1>2
<1> HIDE DEF more
<1>6. /\ e \in ThreadState /\ e.step = "in" /\ e.want = NoKey
      /\ e.acquired = thread[t].acquired \cup more
      /\ e.outer = thread[t].outer /\ e.inner = thread[t].inner
  <2>1. e.step \in Step /\ e.want \in Key \cup {NoKey} /\ e.acquired \in SUBSET Key /\ e.left \in Nat
    BY <1>1, <1>5 DEF ThreadState, Step
  <2> QED BY <1>1, <2>1 DEF ThreadState
<1> HIDE DEF e
<1>7. /\ st \in ThreadState /\ st.step = "in" /\ st.want = NoKey
      /\ st.acquired = thread[t].acquired \cup more
      /\ thread[t].outer = NoKey => st.outer = k /\ st.inner = NoKey
      /\ thread[t].outer # NoKey => st.outer = thread[t].outer /\ st.inner = k
  <2>1. CASE thread[t].outer = NoKey
    BY <1>2, <1>3, <1>4, <1>6, <2>1 DEF ThreadState
  <2>2. CASE thread[t].outer # NoKey
    BY <1>2, <1>4, <1>6, <2>2 DEF ThreadState
  <2> QED BY <2>1, <2>2
<1>8. SectionsOf(st) = SectionsOf(thread[t]) \cup {k}
  BY <1>2, <1>7 DEF SectionsOf
<1>9. \A s : Uses(t, st, s) = Entry(t, k, s) +
                (Entry(t, thread[t].outer, s) + Entry(t, thread[t].inner, s))
  BY <1>2, <1>7, UsesType DEF Uses, PassingOf
<1>10. Fits(st) BY <1>1, <1>2, <1>7, <1>8 DEF Fits, more
<1> QED BY <1>1, <1>7, <1>8, <1>9, <1>10 DEF more

-----------------------------------------------------------------------------
(* One lemma per action.                                                   *)

\* What is known of a thread, one fact at a time.
LEMMA OfThread ==
  ASSUME KeyLockInv, NEW t \in Thread
  PROVE  /\ TypeOK
         /\ thread[t] \in ThreadState /\ Fits(thread[t])
         /\ \A k \in Key : os[k] = t <=> k \in thread[t].acquired
         /\ ProcessOf[t] \in Process
         /\ thread[t].outer \in Key \cup {NoKey} /\ thread[t].inner \in Key \cup {NoKey}
         /\ thread[t].want \in Key \cup {NoKey} /\ thread[t].acquired \subseteq Key
         /\ Sections(t) = SectionsOf(thread[t])
BY Unfolded, Named DEF TypeOK, ThreadState, Process

\* A step that neither enters nor leaves anything.
LEMMA QuietStep ==
  ASSUME KeyLockInv, NEW t \in Thread, NEW st \in ThreadState,
         thread' = [thread EXCEPT ![t] = st], Fits(st), outlasted' \subseteq Thread,
         UNCHANGED <<stripe, os>>,
         st.acquired = thread[t].acquired, st.outer = thread[t].outer,
         st.inner = thread[t].inner, PassingOf(st) = PassingOf(thread[t])
  PROVE  KeyLockInv'
<1>1. os' = os /\ stripe' = stripe OBVIOUS
<1>2. os' \in [Key -> Thread \cup {NoThread}] BY <1>1, OfThread DEF TypeOK
<1>3. \A k \in Key : os'[k] = t <=> k \in st.acquired BY <1>1, OfThread
<1>4. \A s \in Stripe : Uses(t, st, s) = Uses(t, thread[t], s) BY DEF Uses
<1> QED BY <1>1, <1>2, <1>3, <1>4, SameStripes

LEMMA StartAcquireStep ==
  ASSUME KeyLockInv, NEW t \in Thread, StartAcquire(t)
  PROVE  KeyLockInv'
<1>0. thread[t] \in ThreadState /\ Fits(thread[t]) /\ TypeOK BY OfThread
<1>1. PICK k \in Key, api \in BOOLEAN :
        \/ /\ At(t, "out")
           /\ thread' = [thread EXCEPT ![t].step = "stripe", ![t].want = k, ![t].api = api]
        \/ /\ At(t, "in") /\ thread[t].inner = NoKey
           /\ thread' = [thread EXCEPT ![t].step = "stripe", ![t].want = k,
                           ![t].work = IF k = thread[t].outer THEN @ ELSE 0,
                           ![t].evicting = @ \/ k # thread[t].outer]
  BY KeyLockAssumption DEF StartAcquire
<1>2. UNCHANGED <<stripe, os>> /\ outlasted' \subseteq Thread BY <1>0 DEF StartAcquire, TypeOK
<1>3. CASE At(t, "out") /\ thread' = [thread EXCEPT ![t].step = "stripe", ![t].want = k, ![t].api = api]
  <2> DEFINE st == [thread[t] EXCEPT !.step = "stripe", !.want = k, !.api = api]
  <2>1. thread' = [thread EXCEPT ![t] = st] BY <1>0, <1>3 DEF TypeOK
  <2>2. /\ st \in ThreadState /\ st.step = "stripe" /\ st.want = k
        /\ st.acquired = thread[t].acquired /\ st.outer = thread[t].outer
        /\ st.inner = thread[t].inner
    <3>1. "stripe" \in Step /\ k \in Key \cup {NoKey} BY DEF Step
    <3> QED BY <1>0, <3>1 DEF ThreadState
  <2> HIDE DEF st
  <2>3. Fits(st) BY <1>0, <1>3, <2>2 DEF At, Fits, SectionsOf
  <2>4. PassingOf(st) = PassingOf(thread[t]) BY <1>3, <2>2 DEF At, PassingOf
  <2> QED BY <1>2, <2>1, <2>2, <2>3, <2>4, QuietStep
<1>4. CASE /\ At(t, "in") /\ thread[t].inner = NoKey
           /\ thread' = [thread EXCEPT ![t].step = "stripe", ![t].want = k,
                           ![t].work = IF k = thread[t].outer THEN @ ELSE 0,
                           ![t].evicting = @ \/ k # thread[t].outer]
  <2> DEFINE ev == thread[t].evicting \/ k # thread[t].outer
             wk == IF k = thread[t].outer THEN thread[t].work ELSE 0
             st == [thread[t] EXCEPT !.step = "stripe", !.want = k, !.work = wk, !.evicting = ev]
  <2>1. thread' = [thread EXCEPT ![t] = st] BY <1>0, <1>4 DEF TypeOK
  <2>2. ev \in BOOLEAN /\ wk \in Nat BY <1>0 DEF ThreadState
  <2> HIDE DEF ev, wk
  <2>3. /\ st \in ThreadState /\ st.step = "stripe" /\ st.want = k
        /\ st.acquired = thread[t].acquired /\ st.outer = thread[t].outer
        /\ st.inner = thread[t].inner
    <3>1. "stripe" \in Step /\ k \in Key \cup {NoKey} BY DEF Step
    <3> QED BY <1>0, <2>2, <3>1 DEF ThreadState
  <2> HIDE DEF st
  <2>4. Fits(st) BY <1>0, <1>4, <2>3 DEF At, Fits, SectionsOf
  <2>5. PassingOf(st) = PassingOf(thread[t]) BY <1>4, <2>3 DEF At, PassingOf
  <2> QED BY <1>2, <2>1, <2>3, <2>4, <2>5, QuietStep
<1> QED BY <1>1, <1>3, <1>4

LEMMA HangStep ==
  ASSUME KeyLockInv, NEW t \in Thread, Hang(t)
  PROVE  KeyLockInv'
<1> USE OfThread
<1> DEFINE st == [thread[t] EXCEPT !.hung = TRUE]
<1>1. thread' = [thread EXCEPT ![t] = st] BY DEF Hang, TypeOK
<1>2. UNCHANGED <<stripe, os>> /\ outlasted' \subseteq Thread BY DEF Hang, TypeOK
<1>3. /\ st \in ThreadState /\ st.step = thread[t].step /\ st.want = thread[t].want
      /\ st.acquired = thread[t].acquired /\ st.outer = thread[t].outer
      /\ st.inner = thread[t].inner
  BY DEF ThreadState
<1> HIDE DEF st
<1>4. Fits(st) /\ PassingOf(st) = PassingOf(thread[t])
  BY <1>3 DEF Fits, SectionsOf, PassingOf
<1> QED BY <1>1, <1>2, <1>3, <1>4, QuietStep

LEMMA OpenLockFileStep ==
  ASSUME KeyLockInv, NEW t \in Thread, OpenLockFile(t)
  PROVE  KeyLockInv'
<1> USE OfThread
<1> DEFINE wt == LockWait(ProcessOf[t])
           st == [thread[t] EXCEPT !.step = "wait", !.left = wt]
<1>1. thread' = [thread EXCEPT ![t] = st] BY DEF OpenLockFile, TypeOK
<1>2. UNCHANGED <<stripe, os>> /\ outlasted' \subseteq Thread BY DEF OpenLockFile, TypeOK
<1>3. wt \in Nat BY KeyLockAssumption DEF LockWait
<1> HIDE DEF wt
<1>4. /\ st \in ThreadState /\ st.step = "wait" /\ st.want = thread[t].want
      /\ st.acquired = thread[t].acquired /\ st.outer = thread[t].outer
      /\ st.inner = thread[t].inner
  BY <1>3 DEF ThreadState, Step
<1> HIDE DEF st
<1>5. thread[t].step = "open" BY DEF OpenLockFile, At
<1>6. Fits(st) /\ PassingOf(st) = PassingOf(thread[t])
  BY <1>4, <1>5 DEF Fits, SectionsOf, PassingOf
<1> QED BY <1>1, <1>2, <1>4, <1>6, QuietStep

\* Into the section from the file's side of the stripe, with or without the file.
LEMMA EnterStep ==
  ASSUME KeyLockInv, NEW t \in Thread, thread[t].step \in {"open", "wait"},
         NEW got \in BOOLEAN, thread' = [thread EXCEPT ![t] = Inside(t, got)],
         UNCHANGED <<stripe, outlasted>>,
         IF got THEN os[thread[t].want] = NoThread /\ os' = [os EXCEPT ![thread[t].want] = t]
                ELSE os' = os
  PROVE  KeyLockInv'
<1>0. /\ TypeOK /\ Fits(thread[t]) /\ os \in [Key -> Thread \cup {NoThread}]
      /\ \A j \in Key : os[j] = t <=> j \in thread[t].acquired
      /\ outlasted \subseteq Thread
  BY OfThread DEF TypeOK
<1> DEFINE k == thread[t].want
<1>1. PICK st : st = Inside(t, got) OBVIOUS
<1>2. /\ st \in ThreadState /\ Fits(st)
      /\ st.acquired = thread[t].acquired \cup (IF got THEN {k} ELSE {})
      /\ \A s : Uses(t, st, s) = Entry(t, k, s) +
                  (Entry(t, thread[t].outer, s) + Entry(t, thread[t].inner, s))
  BY <1>1, InsideFacts
<1>3. k \in Key BY <1>0 DEF Fits
<1>4. \A s \in Stripe : Uses(t, st, s) = Uses(t, thread[t], s)
  <2> SUFFICES ASSUME NEW s \in Stripe PROVE Uses(t, st, s) = Uses(t, thread[t], s) OBVIOUS
  <2>1. /\ Entry(t, k, s) \in Nat /\ Entry(t, thread[t].outer, s) \in Nat
        /\ Entry(t, thread[t].inner, s) \in Nat
    BY DEF Entry
  <2>2. Uses(t, thread[t], s) =
          Entry(t, thread[t].outer, s) + Entry(t, thread[t].inner, s) + Entry(t, k, s)
    BY DEF Uses, PassingOf
  <2>3. Uses(t, st, s) = Entry(t, k, s) +
                           (Entry(t, thread[t].outer, s) + Entry(t, thread[t].inner, s))
    BY <1>2
  <2> QED BY <2>1, <2>2, <2>3
<1>5. os' \in [Key -> Thread \cup {NoThread}] BY <1>0, <1>3
<1>6. \A j \in Key : os'[j] = t <=> j \in st.acquired BY <1>0, <1>2, <1>3
<1>7. \A u \in Thread \ {t} : \A j \in Key : os'[j] = u <=> os[j] = u
  BY <1>0, <1>3, KeyLockAssumption
<1>8. outlasted' \subseteq Thread BY <1>0
<1> QED BY <1>1, <1>2, <1>4, <1>5, <1>6, <1>7, <1>8, SameStripes

LEMMA OpenDeniedStep ==
  ASSUME KeyLockInv, NEW t \in Thread, OpenDenied(t)
  PROVE  KeyLockInv'
BY EnterStep DEF OpenDenied, At

LEMMA TryLockStep ==
  ASSUME KeyLockInv, NEW t \in Thread, TryLock(t)
  PROVE  KeyLockInv'
BY EnterStep DEF TryLock, At

LEMMA GiveUpStep ==
  ASSUME KeyLockInv, NEW t \in Thread, GiveUp(t)
  PROVE  KeyLockInv'
BY EnterStep DEF GiveUp, At

\* What is known of the stripe a thread is going to enter or leave.
LEMMA OfStripe ==
  ASSUME KeyLockInv, NEW t \in Thread, NEW k \in Key
  PROVE  LET own == stripe[ProcessOf[t]][StripeFor(t, k)] IN
           /\ StripeFor(t, k) \in Stripe
           /\ own \in [owner : Thread \cup {NoThread}, count : Nat]
           /\ Uses(t, thread[t], StripeFor(t, k)) = Owned(own, t)
           /\ own.owner = NoThread <=> own.count = 0
<1>1. StripeFor(t, k) \in Stripe BY OfThread, KeyLockAssumption DEF StripeFor
<1> QED BY <1>1, OfThread, Unfolded DEF TypeOK

LEMMA TakeStripeStep ==
  ASSUME KeyLockInv, NEW t \in Thread, TakeStripe(t)
  PROVE  KeyLockInv'
<1>1. /\ thread[t] \in ThreadState /\ Fits(thread[t]) /\ thread[t].step = "stripe"
      /\ ProcessOf[t] \in Process /\ Sections(t) = SectionsOf(thread[t])
  BY OfThread DEF TakeStripe, At
<1>2. PICK k \in Key : k = thread[t].want BY <1>1 DEF Fits
<1> DEFINE s0 == StripeFor(t, k)
           old == stripe[ProcessOf[t]][s0]
           nested == k \in HeldKeys(t)
<1>3. PICK own : own = [owner |-> t, count |-> old.count + 1] OBVIOUS
<1>4. /\ s0 \in Stripe /\ old \in [owner : Thread \cup {NoThread}, count : Nat]
      /\ Uses(t, thread[t], s0) = Owned(old, t)
      /\ old.owner = NoThread <=> old.count = 0
      /\ old.owner \in {t, NoThread}
  BY <1>2, OfStripe DEF TakeStripe, StripeOwner
<1>5. stripe' = [stripe EXCEPT ![ProcessOf[t]][s0] = own]
      /\ UNCHANGED <<os, outlasted>>
  BY OfThread, <1>2, <1>3, <1>4 DEF TakeStripe, TypeOK
<1>6. PICK st \in ThreadState :
        /\ thread' = [thread EXCEPT ![t] = st] /\ Fits(st)
        /\ st.acquired = thread[t].acquired
        /\ \A s : Uses(t, st, s) = Uses(t, thread[t], s) + Entry(t, k, s)
  <2>0. \A s : Uses(t, thread[t], s) =
                 Entry(t, thread[t].outer, s) + Entry(t, thread[t].inner, s)
    <3> SUFFICES ASSUME NEW s
                 PROVE  Uses(t, thread[t], s) =
                          Entry(t, thread[t].outer, s) + Entry(t, thread[t].inner, s)
      OBVIOUS
    <3>1. Entry(t, NoKey, s) = 0 /\ Entry(t, thread[t].outer, s) \in Nat
          /\ Entry(t, thread[t].inner, s) \in Nat
      BY DEF Entry
    <3>2. PassingOf(thread[t]) = NoKey BY <1>1 DEF PassingOf
    <3> QED BY <3>1, <3>2 DEF Uses
  <2>1. CASE nested
    <3>0. PICK got \in BOOLEAN : got = FALSE OBVIOUS
    <3>1. PICK st : st = Inside(t, got) OBVIOUS
    <3>2. thread' = [thread EXCEPT ![t] = st]
      <4>1. thread' = [thread EXCEPT ![t] = Inside(t, FALSE)]
        BY <1>2, <2>1, OfThread DEF TakeStripe, TypeOK
      <4>2. st = Inside(t, FALSE) BY <3>0, <3>1 DEF Inside
      <4> QED BY <4>1, <4>2
    <3>3. /\ st \in ThreadState /\ Fits(st)
          /\ st.acquired = thread[t].acquired \cup (IF got THEN {k} ELSE {})
          /\ \A s : Uses(t, st, s) = Entry(t, k, s) +
                      (Entry(t, thread[t].outer, s) + Entry(t, thread[t].inner, s))
      BY <1>1, <1>2, <3>1, InsideFacts
    <3>4. \A s : Entry(t, k, s) \in Nat /\ Uses(t, thread[t], s) \in Nat BY UsesType DEF Entry
    <3>5. \A s : Uses(t, st, s) = Uses(t, thread[t], s) + Entry(t, k, s)
      BY <2>0, <3>3, <3>4
    <3> QED BY <3>2, <3>0, <3>3, <3>5
  <2>2. CASE ~nested
    <3> DEFINE st == [thread[t] EXCEPT !.step = "open"]
    <3>1. thread' = [thread EXCEPT ![t] = st]
      BY <1>2, <2>2, OfThread DEF TakeStripe, TypeOK
    <3>2. /\ st \in ThreadState /\ st.step = "open" /\ st.want = k
          /\ st.acquired = thread[t].acquired /\ st.outer = thread[t].outer
          /\ st.inner = thread[t].inner
      <4>1. "open" \in Step BY DEF Step
      <4> QED BY <1>1, <1>2, <4>1 DEF ThreadState
    <3> HIDE DEF st
    <3>3. Fits(st) BY <1>1, <2>2, <3>2 DEF Fits, SectionsOf, HeldKeys
    <3>4. \A s : Uses(t, st, s) = Uses(t, thread[t], s) + Entry(t, k, s)
      BY <2>0, <3>2 DEF Uses, PassingOf
    <3> QED BY <3>1, <3>2, <3>3, <3>4
  <2> QED BY <2>1, <2>2
<1>7. Entry(t, k, s0) = 1 /\ \A s \in Stripe \ {s0} : Entry(t, k, s) = 0
  BY KeyLockAssumption DEF Entry
<1>8. own \in [owner : Thread \cup {NoThread}, count : Nat] /\ own.owner = t
      /\ own.count = old.count + 1
  BY <1>3, <1>4
<1>9. t # NoThread BY KeyLockAssumption
<1>10. Uses(t, st, s0) = Owned(own, t)
  BY <1>4, <1>6, <1>7, <1>8, <1>9 DEF Owned
<1>11. \A s \in Stripe \ {s0} : Uses(t, st, s) = Uses(t, thread[t], s)
  BY <1>6, <1>7, UsesType
<1>12. (own.owner = NoThread <=> own.count = 0) /\ own.owner \in {t, NoThread}
  BY <1>4, <1>8, <1>9
<1>13. /\ stripe' \in [Process -> [Stripe -> [owner : Thread \cup {NoThread}, count : Nat]]]
       /\ stripe'[ProcessOf[t]][s0] = own
       /\ \A process \in Process : \A s \in Stripe :
            process # ProcessOf[t] \/ s # s0 => stripe'[process][s] = stripe[process][s]
  <2>1. stripe \in [Process -> [Stripe -> [owner : Thread \cup {NoThread}, count : Nat]]]
    BY OfThread DEF TypeOK
  <2> HIDE DEF s0
  <2> QED BY <1>1, <1>4, <1>5, <1>8, <2>1
<1>14. os' = os /\ outlasted' = outlasted BY <1>5
<1> QED BY <1>4, <1>6, <1>10, <1>11, <1>12, <1>13, <1>14, OneStripe

LEMMA DropStripeStep ==
  ASSUME KeyLockInv, NEW t \in Thread, DropStripe(t)
  PROVE  KeyLockInv'
<1>1. /\ thread[t] \in ThreadState /\ Fits(thread[t]) /\ thread[t].step = "release"
      /\ ProcessOf[t] \in Process /\ Sections(t) = SectionsOf(thread[t])
  BY OfThread DEF DropStripe, At
<1>2. PICK k \in Key : k = thread[t].want BY <1>1 DEF Fits
<1> DEFINE s0 == StripeFor(t, k)
           old == stripe[ProcessOf[t]][s0]
<1>3. PICK own : own = IF old.count = 1 THEN FreeStripe ELSE [owner |-> t, count |-> old.count - 1]
  OBVIOUS
<1>4. PICK st : st = AfterRelease(t) OBVIOUS
<1>5. /\ s0 \in Stripe /\ old \in [owner : Thread \cup {NoThread}, count : Nat]
      /\ Uses(t, thread[t], s0) = Owned(old, t)
      /\ old.owner = NoThread <=> old.count = 0
  BY <1>2, OfStripe
<1>6. stripe' = [stripe EXCEPT ![ProcessOf[t]][s0] = own]
      /\ UNCHANGED <<os, outlasted>> /\ thread' = [thread EXCEPT ![t] = st]
  <2>1. UNCHANGED <<os, outlasted>> /\ thread' = [thread EXCEPT ![t] = st]
    BY <1>4 DEF DropStripe
  <2>2. stripe' = [stripe EXCEPT ![ProcessOf[t]][s0] =
                     IF old.count = 1 THEN FreeStripe ELSE [owner |-> t, count |-> old.count - 1]]
    BY <1>2 DEF DropStripe
  <2> QED BY <1>3, <2>1, <2>2
<1>7. /\ st \in ThreadState /\ st.want = NoKey
      /\ st.step = IF thread[t].outer = NoKey THEN "out" ELSE "in"
      /\ st.acquired = thread[t].acquired /\ st.outer = thread[t].outer
      /\ st.inner = thread[t].inner
  <2>1. "out" \in Step /\ "in" \in Step BY DEF Step
  <2> QED BY <1>1, <1>4, <2>1 DEF AfterRelease, ThreadState
<1>8. Fits(st) BY <1>1, <1>7 DEF Fits, SectionsOf
<1>9. Entry(t, k, s0) = 1 /\ \A s \in Stripe \ {s0} : Entry(t, k, s) = 0
  BY KeyLockAssumption DEF Entry
<1>10. \A s : Uses(t, thread[t], s) = Uses(t, st, s) + Entry(t, k, s)
  <2> SUFFICES ASSUME NEW s
               PROVE  Uses(t, thread[t], s) = Uses(t, st, s) + Entry(t, k, s)
    OBVIOUS
  <2>1. /\ Entry(t, k, s) \in Nat /\ Entry(t, NoKey, s) = 0
        /\ Entry(t, thread[t].outer, s) \in Nat /\ Entry(t, thread[t].inner, s) \in Nat
    BY DEF Entry
  <2>2. PassingOf(thread[t]) = k /\ PassingOf(st) = NoKey BY <1>1, <1>2, <1>7 DEF PassingOf
  <2> QED BY <1>7, <2>1, <2>2 DEF Uses
<1>11. \A s : Uses(t, st, s) \in Nat BY UsesType
<1>12. old.owner = t /\ old.count = Uses(t, st, s0) + 1
  BY <1>5, <1>9, <1>10, <1>11 DEF Owned
<1>13. t # NoThread BY KeyLockAssumption
<1>14. /\ own \in [owner : Thread \cup {NoThread}, count : Nat]
       /\ own.owner = NoThread <=> own.count = 0
       /\ own.owner \in {t, NoThread}
       /\ Uses(t, st, s0) = Owned(own, t)
  <2>1. CASE old.count = 1
    BY <1>3, <1>5, <1>11, <1>12, <1>13, <2>1 DEF Owned, FreeStripe
  <2>2. CASE old.count # 1
    BY <1>3, <1>5, <1>11, <1>12, <1>13, <2>2 DEF Owned
  <2> QED BY <2>1, <2>2
<1>15. \A s \in Stripe \ {s0} : Uses(t, st, s) = Uses(t, thread[t], s)
  BY <1>9, <1>10, <1>11
<1>16. /\ stripe' \in [Process -> [Stripe -> [owner : Thread \cup {NoThread}, count : Nat]]]
       /\ stripe'[ProcessOf[t]][s0] = own
       /\ \A process \in Process : \A s \in Stripe :
            process # ProcessOf[t] \/ s # s0 => stripe'[process][s] = stripe[process][s]
  <2>1. stripe \in [Process -> [Stripe -> [owner : Thread \cup {NoThread}, count : Nat]]]
    BY OfThread DEF TypeOK
  <2> HIDE DEF s0
  <2> QED BY <1>1, <1>5, <1>6, <1>14, <2>1
<1>17. /\ os' = os /\ outlasted' = outlasted /\ s0 \in Stripe
       /\ thread' = [thread EXCEPT ![t] = st] /\ st \in ThreadState
       /\ st.acquired = thread[t].acquired
  BY <1>5, <1>6, <1>7
<1>18. /\ \A s \in Stripe \ {s0} : Uses(t, st, s) = Uses(t, thread[t], s)
       /\ Uses(t, st, s0) = Owned(stripe'[ProcessOf[t]][s0], t)
       /\ stripe'[ProcessOf[t]][s0].owner = NoThread <=> stripe'[ProcessOf[t]][s0].count = 0
       /\ stripe'[ProcessOf[t]][s0].owner \in {t, NoThread}
       /\ stripe[ProcessOf[t]][s0].owner \in {t, NoThread}
  BY <1>12, <1>14, <1>15, <1>16
<1> HIDE DEF s0, old
<1> QED BY <1>8, <1>16, <1>17, <1>18, OneStripe

LEMMA LeaveStep ==
  ASSUME KeyLockInv, NEW t \in Thread, Leave(t)
  PROVE  KeyLockInv'
<1>1. /\ thread[t] \in ThreadState /\ Fits(thread[t]) /\ thread[t].step = "in"
      /\ \A j \in Key : os[j] = t <=> j \in thread[t].acquired
      /\ os \in [Key -> Thread \cup {NoThread}] /\ outlasted \subseteq Thread
  BY OfThread DEF Leave, At, TypeOK
<1>2. /\ thread[t].outer \in Key /\ thread[t].want = NoKey
      /\ thread[t].inner \in Key \cup {NoKey}
      /\ thread[t].acquired \subseteq {thread[t].outer, thread[t].inner} \ {NoKey}
  BY <1>1, OfThread DEF Fits, SectionsOf
<1>3. PICK k \in Key : k = Innermost(t) BY <1>2 DEF Innermost
<1>4. PICK st : st = Without(t, k) OBVIOUS
<1>5. thread' = [thread EXCEPT ![t] = st] /\ stripe' = stripe BY <1>3, <1>4 DEF Leave
<1>6. /\ st \in ThreadState /\ st.step = "release" /\ st.want = k /\ st.inner = NoKey
      /\ st.outer = IF thread[t].inner # NoKey THEN thread[t].outer ELSE NoKey
      /\ st.acquired = IF thread[t].inner # NoKey
                       THEN IF Nested(t) THEN thread[t].acquired ELSE thread[t].acquired \ {k}
                       ELSE {}
  <2> DEFINE left == [thread[t] EXCEPT !.step = "release", !.want = k]
  <2>1. /\ left \in ThreadState /\ left.step = "release" /\ left.want = k
        /\ left.outer = thread[t].outer /\ left.inner = thread[t].inner
        /\ left.acquired = thread[t].acquired
    <3>1. "release" \in Step BY DEF Step
    <3> QED BY <1>1, <3>1 DEF ThreadState
  <2>2. CASE thread[t].inner # NoKey
    <3> DEFINE acq == IF Nested(t) THEN thread[t].acquired ELSE thread[t].acquired \ {k}
    <3>1. st = [left EXCEPT !.inner = NoKey, !.acquired = acq]
      BY <1>4, <2>1, <2>2 DEF Without
    <3>2. acq \subseteq Key BY <1>2, <2>2
    <3> HIDE DEF left, acq
    <3>3. /\ st \in ThreadState /\ st.step = "release" /\ st.want = k /\ st.inner = NoKey
          /\ st.outer = thread[t].outer /\ st.acquired = acq
      BY <2>1, <3>1, <3>2 DEF ThreadState
    <3> QED BY <2>2, <3>3 DEF acq
  <2>3. CASE thread[t].inner = NoKey
    <3>1. st = [left EXCEPT !.outer = NoKey, !.acquired = {}, !.work = 0, !.api = FALSE, !.evicting = FALSE]
      BY <1>4, <2>3 DEF Without
    <3> HIDE DEF left
    <3>2. /\ st \in ThreadState /\ st.step = "release" /\ st.want = k /\ st.inner = NoKey
          /\ st.outer = NoKey /\ st.acquired = {}
      BY <2>1, <2>3, <3>1 DEF ThreadState
    <3> QED BY <2>3, <3>2
  <2> QED BY <2>2, <2>3
<1>7. Fits(st)
  BY <1>1, <1>2, <1>3, <1>6 DEF Fits, SectionsOf, Nested, Innermost
<1>8. \A s \in Stripe : Uses(t, st, s) = Uses(t, thread[t], s)
  <2> SUFFICES ASSUME NEW s \in Stripe PROVE Uses(t, st, s) = Uses(t, thread[t], s) OBVIOUS
  <2>1. /\ Entry(t, k, s) \in Nat /\ Entry(t, NoKey, s) = 0
        /\ Entry(t, thread[t].outer, s) \in Nat /\ Entry(t, thread[t].inner, s) \in Nat
    BY DEF Entry
  <2>2. PassingOf(thread[t]) = NoKey /\ PassingOf(st) = k BY <1>1, <1>6 DEF PassingOf
  <2>3. CASE thread[t].inner # NoKey
    BY <1>3, <1>6, <2>1, <2>2, <2>3 DEF Uses, Innermost
  <2>4. CASE thread[t].inner = NoKey
    BY <1>3, <1>6, <2>1, <2>2, <2>4 DEF Uses, Innermost
  <2> QED BY <2>3, <2>4
<1>9. CASE k \in thread[t].acquired /\ ~Nested(t)
  <2>1. os' = [os EXCEPT ![k] = NoThread] /\ outlasted' = outlasted \cup WaitersFor(k)
    BY <1>3, <1>9 DEF Leave
  <2>2. os' \in [Key -> Thread \cup {NoThread}] /\ outlasted' \subseteq Thread
    BY <1>1, <2>1 DEF WaitersFor
  <2>3. st.acquired = thread[t].acquired \ {k}
    BY <1>2, <1>3, <1>6, <1>9 DEF Innermost
  <2>4. \A j \in Key : os'[j] = t <=> j \in st.acquired
    BY <1>1, <2>1, <2>3, KeyLockAssumption
  <2>5. \A u \in Thread \ {t} : \A j \in Key : os'[j] = u <=> os[j] = u
    BY <1>1, <1>9, <2>1, KeyLockAssumption
  <2> QED BY <1>5, <1>6, <1>7, <1>8, <2>2, <2>4, <2>5, SameStripes
<1>10. CASE ~(k \in thread[t].acquired /\ ~Nested(t))
  <2>1. os' = os /\ outlasted' = outlasted BY <1>3, <1>10 DEF Leave
  <2>2. st.acquired = thread[t].acquired
    BY <1>2, <1>3, <1>6, <1>10 DEF Innermost, Nested
  <2>3. os' \in [Key -> Thread \cup {NoThread}] /\ outlasted' \subseteq Thread
        /\ \A j \in Key : os'[j] = t <=> j \in st.acquired
    BY <1>1, <2>1, <2>2
  <2>4. \A u \in Thread \ {t} : \A j \in Key : os'[j] = u <=> os[j] = u BY <2>1
  <2> QED BY <1>5, <1>6, <1>7, <1>8, <2>3, <2>4, SameStripes
<1> QED BY <1>9, <1>10

\* A thread that is outside has entered nothing.
LEMMA OutsideFits ==
  /\ Outside \in ThreadState /\ Fits(Outside) /\ Outside.acquired = {}
  /\ SectionsOf(Outside) = {}
  /\ \A t, s : Uses(t, Outside, s) = 0
<1>1. Outside \in ThreadState BY DEF Outside, ThreadState, Step
<1>2. Fits(Outside) /\ Outside.acquired = {} /\ SectionsOf(Outside) = {}
  BY DEF Outside, Fits, SectionsOf
<1>3. \A t, s : Uses(t, Outside, s) = 0 BY DEF Uses, Outside, Entry, PassingOf
<1> QED BY <1>1, <1>2, <1>3

LEMMA DieStep ==
  ASSUME KeyLockInv, NEW process \in Process, Die(process)
  PROVE  KeyLockInv'
<1>1. /\ thread \in [Thread -> ThreadState] /\ os \in [Key -> Thread \cup {NoThread}]
      /\ stripe \in [Process -> [Stripe -> [owner : Thread \cup {NoThread}, count : Nat]]]
      /\ outlasted \subseteq Thread
  BY DEF KeyLockInv, TypeOK
<1>2. \A u \in Thread : thread'[u] = IF ProcessOf[u] = process THEN Outside ELSE thread[u]
  BY DEF Die
<1>3. /\ stripe' \in [Process -> [Stripe -> [owner : Thread \cup {NoThread}, count : Nat]]]
      /\ \A s \in Stripe : stripe'[process][s] = FreeStripe
      /\ \A pr \in Process \ {process} : stripe'[pr] = stripe[pr]
  <2>1. FreeStripe \in [owner : Thread \cup {NoThread}, count : Nat] BY DEF FreeStripe
  <2>2. stripe' = [stripe EXCEPT ![process] = [s \in Stripe |-> FreeStripe]] BY DEF Die
  <2> QED BY <1>1, <2>1, <2>2
<1>4. /\ os' \in [Key -> Thread \cup {NoThread}]
      /\ \A k \in Key : os'[k] = IF k \in HeldBy(process) THEN NoThread ELSE os[k]
  BY <1>1 DEF Die
<1>5. outlasted' \subseteq Thread BY <1>1 DEF Die, WaitersFor
<1>6. thread' \in [Thread -> ThreadState] BY <1>1, OutsideFits DEF Die
<1>7. TypeOK' BY <1>3, <1>4, <1>5, <1>6 DEF TypeOK
<1>8. \A u \in Thread : Fits(thread'[u]) BY <1>2, OutsideFits, Unfolded
<1>9. \A u \in Thread : \A k \in Key : os'[k] = u <=> k \in thread'[u].acquired
  <2> SUFFICES ASSUME NEW u \in Thread, NEW k \in Key
               PROVE  os'[k] = u <=> k \in thread'[u].acquired
    OBVIOUS
  <2>1. u # NoThread /\ (os[k] = u <=> k \in thread[u].acquired)
    BY Unfolded, KeyLockAssumption
  <2>2. CASE ProcessOf[u] = process
    BY <1>2, <1>4, <2>1, <2>2, OutsideFits DEF HeldBy
  <2>3. CASE ProcessOf[u] # process
    BY <1>2, <1>4, <2>1, <2>3 DEF HeldBy
  <2> QED BY <2>2, <2>3
<1>10. \A u \in Thread : \A s \in Stripe :
         /\ Uses(u, thread'[u], s) = Owned(stripe'[ProcessOf[u]][s], u)
         /\ stripe'[ProcessOf[u]][s].owner = NoThread <=> stripe'[ProcessOf[u]][s].count = 0
  <2> SUFFICES ASSUME NEW u \in Thread, NEW s \in Stripe
               PROVE  /\ Uses(u, thread'[u], s) = Owned(stripe'[ProcessOf[u]][s], u)
                      /\ stripe'[ProcessOf[u]][s].owner = NoThread <=>
                           stripe'[ProcessOf[u]][s].count = 0
    OBVIOUS
  <2>1. CASE ProcessOf[u] = process
    BY <1>2, <1>3, <2>1, OutsideFits, KeyLockAssumption DEF FreeStripe, Owned
  <2>2. CASE ProcessOf[u] # process
    <3>1. stripe'[ProcessOf[u]] = stripe[ProcessOf[u]] BY <1>3, <2>2, OfThread
    <3>2. thread'[u] = thread[u] BY <1>2, <2>2
    <3> QED BY <3>1, <3>2, Unfolded
  <2> QED BY <2>1, <2>2
<1> QED BY <1>7, <1>8, <1>9, <1>10, Refolded

LEMMA TickStep ==
  ASSUME KeyLockInv, Tick
  PROVE  KeyLockInv'
<1>1. TypeOK BY DEF KeyLockInv
<1>2. UNCHANGED <<stripe, os, outlasted>> BY DEF Tick
<1>3. ASSUME NEW u \in Thread
      PROVE  /\ thread'[u] \in ThreadState /\ Fits(thread'[u])
             /\ thread'[u].acquired = thread[u].acquired
             /\ \A s \in Stripe : Uses(u, thread'[u], s) = Uses(u, thread[u], s)
  <2>1. thread[u] \in ThreadState /\ Fits(thread[u]) BY OfThread
  <2>2. Less(thread[u].left) \in Nat /\ Less(thread[u].work) \in Nat
    BY <2>1 DEF ThreadState, Less
  <2>3. PICK l, w \in Nat : thread'[u] = [thread[u] EXCEPT !.left = l, !.work = w]
    BY <2>2 DEF Tick
  <2>4. /\ thread'[u] \in ThreadState /\ thread'[u].step = thread[u].step
        /\ thread'[u].want = thread[u].want /\ thread'[u].outer = thread[u].outer
        /\ thread'[u].inner = thread[u].inner /\ thread'[u].acquired = thread[u].acquired
    BY <2>1, <2>3 DEF ThreadState
  <2> QED BY <2>1, <2>4 DEF Fits, SectionsOf, Uses, PassingOf
<1>4. thread' \in [Thread -> ThreadState]
  BY <1>3 DEF Tick
<1>5. TypeOK' BY <1>1, <1>2, <1>4 DEF TypeOK
<1>6. /\ \A u \in Thread : \A k \in Key : os[k] = u <=> k \in thread[u].acquired
      /\ \A u \in Thread : \A s \in Stripe :
           /\ Uses(u, thread[u], s) = Owned(stripe[ProcessOf[u]][s], u)
           /\ stripe[ProcessOf[u]][s].owner = NoThread <=> stripe[ProcessOf[u]][s].count = 0
  BY Unfolded
<1> QED BY <1>2, <1>3, <1>5, <1>6, Refolded

-----------------------------------------------------------------------------
(* The invariant, and what follows from it.                                *)

LEMMA InitKeyLock == Init => KeyLockInv
<1> SUFFICES ASSUME Init PROVE KeyLockInv OBVIOUS
<1> USE KeyLockAssumption, OutsideFits
<1>1. /\ \A t \in Thread : thread[t] = Outside
      /\ \A k \in Key : os[k] = NoThread
      /\ \A t \in Thread : \A s \in Stripe : stripe[ProcessOf[t]][s] = FreeStripe
  BY DEF Init, Process
<1>2. TypeOK
  <2>1. FreeStripe \in [owner : Thread \cup {NoThread}, count : Nat] BY DEF FreeStripe
  <2> QED BY <2>1 DEF Init, TypeOK
<1>3. \A t \in Thread : Fits(thread[t]) BY <1>1
<1>4. \A t \in Thread : \A k \in Key : os[k] = t <=> k \in thread[t].acquired BY <1>1
<1>5. \A t \in Thread : \A s \in Stripe :
        /\ Uses(t, thread[t], s) = Owned(stripe[ProcessOf[t]][s], t)
        /\ stripe[ProcessOf[t]][s].owner = NoThread <=> stripe[ProcessOf[t]][s].count = 0
  BY <1>1 DEF Owned, FreeStripe
<1> QED BY <1>2, <1>3, <1>4, <1>5, Unfolded

LEMMA Stutter ==
  ASSUME KeyLockInv, UNCHANGED vars
  PROVE  KeyLockInv'
<1>1. UNCHANGED <<thread, stripe, os, outlasted>> BY DEF vars
<1>2. TypeOK' BY <1>1 DEF KeyLockInv, TypeOK
<1> QED BY <1>1, <1>2, Unfolded, Refolded

LEMMA NextStep ==
  ASSUME KeyLockInv, [Next]_vars
  PROVE  KeyLockInv'
<1>1. CASE UNCHANGED vars BY <1>1, Stutter
<1>2. ASSUME NEW t \in Thread, StartAcquire(t) PROVE KeyLockInv' BY <1>2, StartAcquireStep
<1>3. ASSUME NEW t \in Thread, TakeStripe(t) PROVE KeyLockInv' BY <1>3, TakeStripeStep
<1>4. ASSUME NEW t \in Thread, OpenLockFile(t) PROVE KeyLockInv' BY <1>4, OpenLockFileStep
<1>5. ASSUME NEW t \in Thread, OpenDenied(t) PROVE KeyLockInv' BY <1>5, OpenDeniedStep
<1>6. ASSUME NEW t \in Thread, TryLock(t) PROVE KeyLockInv' BY <1>6, TryLockStep
<1>7. ASSUME NEW t \in Thread, GiveUp(t) PROVE KeyLockInv' BY <1>7, GiveUpStep
<1>8. ASSUME NEW t \in Thread, Leave(t) PROVE KeyLockInv' BY <1>8, LeaveStep
<1>9. ASSUME NEW t \in Thread, DropStripe(t) PROVE KeyLockInv' BY <1>9, DropStripeStep
<1>10. ASSUME NEW t \in Thread, Hang(t) PROVE KeyLockInv' BY <1>10, HangStep
<1>11. ASSUME NEW process \in Process, Die(process) PROVE KeyLockInv' BY <1>11, DieStep
<1>12. CASE Tick BY <1>12, TickStep
<1> QED
  BY <1>1, <1>2, <1>3, <1>4, <1>5, <1>6, <1>7, <1>8, <1>9, <1>10, <1>11, <1>12 DEF Next

\* Nothing leaks, whatever is interrupted: KeyLockInv is inductive.
THEOREM KeyLockInvHolds == Spec => []KeyLockInv
BY InitKeyLock, NextStep, PTL DEF Spec

\* Whoever uses a key owns its stripe.
LEMMA OwnsStripe ==
  ASSUME KeyLockInv, NEW t \in Thread, NEW k \in Key,
         k \in SectionsOf(thread[t]) \/ k = PassingOf(thread[t])
  PROVE  stripe[ProcessOf[t]][StripeFor(t, k)].owner = t
<1> DEFINE s == StripeFor(t, k)
<1>1. /\ Entry(t, k, s) = 1 BY KeyLockAssumption DEF Entry
<1>2. /\ Entry(t, thread[t].outer, s) \in Nat /\ Entry(t, thread[t].inner, s) \in Nat
      /\ Entry(t, PassingOf(thread[t]), s) \in Nat
  BY DEF Entry
<1>3. k \in {thread[t].outer, thread[t].inner, PassingOf(thread[t])} BY DEF SectionsOf
<1>4. Uses(t, thread[t], s) # 0
  <2>1. PICK a, b, c \in Nat : /\ a = Entry(t, thread[t].outer, s)
                               /\ b = Entry(t, thread[t].inner, s)
                               /\ c = Entry(t, PassingOf(thread[t]), s)
    BY <1>2
  <2>2. a = 1 \/ b = 1 \/ c = 1 BY <1>1, <1>3, <2>1
  <2>3. Uses(t, thread[t], s) = a + b + c BY <2>1 DEF Uses
  <2>4. a + b + c # 0 BY <2>2
  <2> QED BY <2>3, <2>4
<1>5. Uses(t, thread[t], s) = Owned(stripe[ProcessOf[t]][s], t) BY OfStripe
<1> QED BY <1>4, <1>5 DEF Owned

\* So no two threads of a process use one key.
LEMMA AloneInProcess ==
  ASSUME KeyLockInv, NEW t \in Thread, NEW u \in Thread \ {t}, NEW k \in Key,
         k \in SectionsOf(thread[t]) \/ k = PassingOf(thread[t]),
         k \in SectionsOf(thread[u])
  PROVE  ProcessOf[u] # ProcessOf[t]
<1> SUFFICES ASSUME ProcessOf[u] = ProcessOf[t] PROVE FALSE OBVIOUS
<1>1. stripe[ProcessOf[t]][StripeFor(t, k)].owner = t BY OwnsStripe
<1>2. stripe[ProcessOf[u]][StripeFor(u, k)].owner = u BY OwnsStripe
<1> QED BY <1>1, <1>2 DEF StripeFor

LEMMA SectionsAreKeys ==
  ASSUME KeyLockInv, NEW t \in Thread
  PROVE  Sections(t) = SectionsOf(thread[t]) /\ SectionsOf(thread[t]) \subseteq Key
BY OfThread DEF SectionsOf

\* Two threads inside a section of one key are of different processes, and at
\* most one of them has the file: acquire excludes as far as it promises to.
THEOREM MutualExclusion == Spec => []Exclusion
<1>1. KeyLockInv => Exclusion
  <2> SUFFICES ASSUME KeyLockInv, NEW t \in Thread, NEW u \in Thread, t # u,
                      NEW k \in Sections(t) \cap Sections(u)
               PROVE  /\ ProcessOf[t] # ProcessOf[u]
                      /\ ~(k \in thread[t].acquired /\ k \in thread[u].acquired)
    BY DEF Exclusion
  <2>1. k \in Key /\ k \in SectionsOf(thread[t]) /\ k \in SectionsOf(thread[u])
    BY SectionsAreKeys
  <2>2. ProcessOf[t] # ProcessOf[u] BY <2>1, AloneInProcess
  <2>3. ~(k \in thread[t].acquired /\ k \in thread[u].acquired)
    BY <2>1, Unfolded
  <2> QED BY <2>2, <2>3
<1> QED BY <1>1, KeyLockInvHolds, PTL

\* A thread never waits for a file that it has locked itself, however its
\* sections nest.
THEOREM NeverSelfDenied == Spec => []NoSelfDenial
<1>1. KeyLockInv => NoSelfDenial
  BY OfThread DEF NoSelfDenial, At, Fits
<1> QED BY <1>1, KeyLockInvHolds, PTL

-----------------------------------------------------------------------------
(* The two levels implement the mutex of the port.                         *)

inside == [t \in Thread |-> Sections(t)]

\* A step of one thread, as the mutex sees it.
LEMMA InsideAfter ==
  ASSUME KeyLockInv, NEW t \in Thread, NEW st, thread' = [thread EXCEPT ![t] = st]
  PROVE  inside' = [inside EXCEPT ![t] = SectionsOf(st)]
<1>1. \A u \in Thread : thread'[u] = IF u = t THEN st ELSE thread[u]
  BY DEF KeyLockInv, TypeOK
<1>2. inside' = [u \in Thread |-> SectionsOf(thread'[u])]
  BY DEF inside, Sections, SectionsOf
<1>3. inside = [u \in Thread |-> SectionsOf(thread[u])]
  BY DEF inside, Sections, SectionsOf
<1> QED BY <1>1, <1>2, <1>3

\* Steps that change no section and no file.
LEMMA MutexStutters ==
  ASSUME \A u \in Thread : SectionsOf(thread'[u]) = SectionsOf(thread[u]), UNCHANGED os
  PROVE  UNCHANGED <<os, inside>>
BY DEF inside, Sections, SectionsOf

\* Going in, from the file's side of the stripe.
LEMMA MutexEnters ==
  ASSUME KeyLockInv, NEW t \in Thread, thread[t].step \in {"open", "wait"},
         NEW got \in BOOLEAN, thread' = [thread EXCEPT ![t] = Inside(t, got)],
         IF got THEN os[thread[t].want] = NoThread /\ os' = [os EXCEPT ![thread[t].want] = t]
                ELSE os' = os
  PROVE  Mutex!Next
<1>1. thread[t].want \in Key /\ thread[t].want \notin SectionsOf(thread[t])
  BY OfThread DEF Fits
<1>2. PICK k \in Key : k = thread[t].want BY <1>1
<1>3. PICK st : st = Inside(t, got) OBVIOUS
<1>4. SectionsOf(st) = SectionsOf(thread[t]) \cup {k}
  BY <1>2, <1>3, InsideFacts, OfThread
<1>5. inside[t] = SectionsOf(thread[t]) BY DEF inside, Sections, SectionsOf
<1>6. inside' = [inside EXCEPT ![t] = @ \cup {k}]
  BY <1>3, <1>4, <1>5, InsideAfter
<1>7. Mutex!Alone(t, k)
  <2> SUFFICES ASSUME NEW u \in Thread \ {t}, ProcessOf[u] = ProcessOf[t]
               PROVE  k \notin inside[u]
    BY DEF Mutex!Alone, Mutex!Peers, inside
  <2>1. k = PassingOf(thread[t]) BY <1>2 DEF PassingOf
  <2>2. inside[u] = SectionsOf(thread[u]) BY DEF inside, Sections, SectionsOf
  <2> QED BY <2>1, <2>2, AloneInProcess
<1>8. k \notin inside[t] BY <1>1, <1>2, <1>5
<1>9. CASE got
  <2>1. Mutex!EnterGuarded(t, k)
    BY <1>2, <1>6, <1>7, <1>8, <1>9 DEF Mutex!EnterGuarded, inside
  <2> QED BY <2>1 DEF Mutex!Next
<1>10. CASE ~got
  <2>1. Mutex!EnterUnguarded(t, k)
    BY <1>2, <1>6, <1>7, <1>8, <1>10 DEF Mutex!EnterUnguarded, inside
  <2> QED BY <2>1 DEF Mutex!Next
<1> QED BY <1>9, <1>10

LEMMA MutexLeaves ==
  ASSUME KeyLockInv, NEW t \in Thread, Leave(t)
  PROVE  Mutex!Next \/ UNCHANGED <<os, inside>>
<1>1. /\ Fits(thread[t]) /\ thread[t].step = "in"
      /\ \A j \in Key : os[j] = t <=> j \in thread[t].acquired
      /\ os \in [Key -> Thread \cup {NoThread}]
      /\ thread[t].outer \in Key \cup {NoKey} /\ thread[t].inner \in Key \cup {NoKey}
  BY OfThread DEF Leave, At, TypeOK
<1>2. thread[t].outer \in Key BY <1>1 DEF Fits
<1>3. PICK k \in Key : k = Innermost(t) BY <1>1, <1>2 DEF Innermost
<1>4. PICK st : st = Without(t, k) OBVIOUS
<1>5. thread' = [thread EXCEPT ![t] = st] BY <1>3, <1>4 DEF Leave
<1>6. st.outer = (IF thread[t].inner # NoKey THEN thread[t].outer ELSE NoKey)
      /\ st.inner = NoKey
  BY <1>4, OfThread DEF Without, ThreadState
<1>7. inside' = [inside EXCEPT ![t] = SectionsOf(st)] BY <1>5, InsideAfter
<1>8. inside[t] = SectionsOf(thread[t]) BY DEF inside, Sections, SectionsOf
<1>9. CASE Nested(t)
  <2>1. SectionsOf(st) = SectionsOf(thread[t])
    BY <1>2, <1>6, <1>9, KeyLockAssumption DEF Nested, SectionsOf
  <2>2. os' = os BY <1>9 DEF Leave
  <2>3. \A u \in Thread : thread'[u] = IF u = t THEN st ELSE thread[u]
    BY <1>5, OfThread DEF TypeOK
  <2> QED BY <2>1, <2>2, <2>3, MutexStutters
<1>10. CASE ~Nested(t)
  <2>1. SectionsOf(st) = SectionsOf(thread[t]) \ {k} /\ k \in SectionsOf(thread[t])
    BY <1>1, <1>2, <1>3, <1>6, <1>10, KeyLockAssumption DEF Nested, Innermost, SectionsOf
  <2>2. os' = [os EXCEPT ![k] = IF @ = t THEN NoThread ELSE @]
    BY <1>1, <1>3, <1>10 DEF Leave
  <2>3. Mutex!Leave(t, k)
    BY <1>7, <1>8, <2>1, <2>2 DEF Mutex!Leave, inside
  <2> QED BY <2>3 DEF Mutex!Next
<1> QED BY <1>9, <1>10

LEMMA MutexStep ==
  ASSUME KeyLockInv, [Next]_vars
  PROVE  Mutex!Next \/ UNCHANGED <<os, inside>>
<1> DEFINE Goal == Mutex!Next \/ UNCHANGED <<os, inside>>
<1>1. CASE UNCHANGED vars BY <1>1 DEF vars, inside, Sections
<1>2. ASSUME NEW t \in Thread, StartAcquire(t) \/ OpenLockFile(t) \/ Hang(t) \/ DropStripe(t)
      PROVE  Goal
  <2>1. thread \in [Thread -> ThreadState] /\ thread[t] \in ThreadState
    BY OfThread DEF TypeOK
  <2>2. \A u \in Thread : thread'[u].outer = thread[u].outer /\ thread'[u].inner = thread[u].inner
    <3>1. CASE StartAcquire(t) BY <2>1, <3>1 DEF StartAcquire, ThreadState
    <3>2. CASE OpenLockFile(t) BY <2>1, <3>2 DEF OpenLockFile, ThreadState
    <3>3. CASE Hang(t) BY <2>1, <3>3 DEF Hang, ThreadState
    <3>4. CASE DropStripe(t) BY <2>1, <3>4 DEF DropStripe, AfterRelease, ThreadState
    <3> QED BY <1>2, <3>1, <3>2, <3>3, <3>4
  <2>3. os' = os BY <1>2 DEF StartAcquire, OpenLockFile, Hang, DropStripe
  <2> QED BY <2>2, <2>3, MutexStutters DEF SectionsOf
<1>3. ASSUME NEW t \in Thread, TakeStripe(t) PROVE Goal
  <2>1. thread \in [Thread -> ThreadState] /\ thread[t] \in ThreadState
    BY OfThread DEF TypeOK
  <2>2. SectionsOf(thread'[t]) = SectionsOf(thread[t])
    <3>1. CASE thread[t].want \in HeldKeys(t)
      <4>1. PICK got \in BOOLEAN : got = FALSE OBVIOUS
      <4>2. PICK st : st = Inside(t, got) OBVIOUS
      <4>3. thread'[t] = Inside(t, FALSE) BY <1>3, <2>1, <3>1 DEF TakeStripe
      <4>4. st = Inside(t, FALSE) BY <4>1, <4>2 DEF Inside
      <4>5. thread[t].step \in {"stripe", "open", "wait"} BY <1>3 DEF TakeStripe, At
      <4>6. SectionsOf(st) = Sections(t) \cup {thread[t].want} BY <4>2, <4>5, InsideFacts
      <4>7. Sections(t) = SectionsOf(thread[t]) BY OfThread
      <4> QED BY <3>1, <4>3, <4>4, <4>6, <4>7 DEF HeldKeys
    <3>2. CASE thread[t].want \notin HeldKeys(t)
      BY <1>3, <2>1, <3>2 DEF TakeStripe, SectionsOf, ThreadState
    <3> QED BY <3>1, <3>2
  <2>3. \A u \in Thread \ {t} : thread'[u] = thread[u] BY <1>3, <2>1 DEF TakeStripe
  <2>4. os' = os BY <1>3 DEF TakeStripe
  <2> QED BY <2>2, <2>3, <2>4, MutexStutters
<1>4. ASSUME NEW t \in Thread, OpenDenied(t) PROVE Goal
  BY <1>4, MutexEnters DEF OpenDenied, At
<1>5. ASSUME NEW t \in Thread, TryLock(t) PROVE Goal
  BY <1>5, MutexEnters DEF TryLock, At
<1>6. ASSUME NEW t \in Thread, GiveUp(t) PROVE Goal
  BY <1>6, MutexEnters DEF GiveUp, At
<1>7. ASSUME NEW t \in Thread, Leave(t) PROVE Goal BY <1>7, MutexLeaves
<1>8. ASSUME NEW process \in Process, Die(process) PROVE Goal
  <2>1. PICK t \in Thread : process = ProcessOf[t] BY DEF Process
  <2>2. inside' = [u \in Thread |-> IF ProcessOf[u] = process THEN {} ELSE inside[u]]
    <3>1. \A u \in Thread : thread'[u] = IF ProcessOf[u] = process THEN Outside ELSE thread[u]
      BY <1>8 DEF Die
    <3>2. inside' = [u \in Thread |-> SectionsOf(thread'[u])]
      BY DEF inside, Sections, SectionsOf
    <3>3. \A u \in Thread : inside[u] = SectionsOf(thread[u])
      BY DEF inside, Sections, SectionsOf
    <3> QED BY <3>1, <3>2, <3>3, OutsideFits
  <2>3. os' = [k \in Key |-> IF os[k] # NoThread /\ ProcessOf[os[k]] = process
                             THEN NoThread ELSE os[k]]
    BY <1>8 DEF Die, HeldBy
  <2>4. Mutex!Die(ProcessOf[t]) BY <2>1, <2>2, <2>3 DEF Mutex!Die, inside
  <2> QED BY <2>4 DEF Mutex!Next
<1>9. CASE Tick
  <2>1. \A u \in Thread : thread'[u].outer = thread[u].outer /\ thread'[u].inner = thread[u].inner
    BY <1>9, OfThread DEF Tick, ThreadState
  <2>2. inside' = inside BY <2>1 DEF inside, Sections
  <2> QED BY <1>9, <2>2 DEF Tick
<1> QED
  BY <1>1, <1>2, <1>3, <1>4, <1>5, <1>6, <1>7, <1>8, <1>9 DEF Next

\* Stripes and lock files together are the mutex the use cases are written
\* against, whatever waits run out, files are denied and processes die.
THEOREM MutexImplemented == Spec => ImplementsMutex
<1>1. Init => Mutex!Init
  <2> SUFFICES ASSUME Init PROVE Mutex!Init OBVIOUS
  <2>1. \A t \in Thread : Sections(t) = {} BY DEF Init, Outside, Sections
  <2> QED BY <2>1 DEF Init, Mutex!Init
<1>2. KeyLockInv /\ [Next]_vars => [Mutex!Next]_<<os, inside>>
  BY MutexStep
<1> QED BY <1>1, <1>2, KeyLockInvHolds, PTL DEF Spec, ImplementsMutex, Mutex!Spec, inside

-----------------------------------------------------------------------------
(* Waits outlast the client call they began behind.                        *)

\* A local client never has more than its timeout to go, and whoever acquires
\* another key inside its section has its client call behind it.
Paced(t, st) ==
  /\ st.work <= ClientTimeout[ProcessOf[t]]
  /\ st.step \in {"stripe", "open", "wait"} /\ st.outer # NoKey /\ st.want # st.outer
       => st.evicting
  /\ st.inner \notin {NoKey, st.outer} => st.evicting

\* A section that no wait of t is sized to.
Unbounded(t, h, st) ==
  st.hung \/ st.evicting \/ st.api \/ ClientTimeout[ProcessOf[h]] \notin 1 .. ClientTimeout[ProcessOf[t]]

\* A waiter that has not seen the file unlocked has the whole of its wait left
\* if the file is free, and a margin more than the holder's client otherwise.
Ahead(t) ==
  At(t, "wait") /\ t \notin outlasted =>
    LET h == os[thread[t].want] IN
      IF h = NoThread THEN thread[t].left = LockWait(ProcessOf[t])
      ELSE Unbounded(t, h, thread[h]) \/ thread[h].work + Margin <= thread[t].left

WaitInv == KeyLockInv /\ \A t \in Thread : Paced(t, thread[t]) /\ Ahead(t)

\* The step of one thread, as the waiters see it.
LEMMA PacedStep ==
  ASSUME WaitInv, KeyLockInv', NEW t \in Thread,
         \A u \in Thread \ {t} : thread'[u] = thread[u], Paced(t, thread'[t]),
         \A u \in Thread \ {t} : u \notin outlasted' => u \notin outlasted,
         \A k \in Key : os[k] = t /\ os'[k] = t =>
           /\ thread[t].hung => thread'[t].hung
           /\ thread[t].api => thread'[t].api
           /\ thread[t].evicting => thread'[t].evicting
           /\ thread'[t].evicting \/ thread'[t].work <= thread[t].work,
         \A k \in Key : os'[k] # os[k] =>
           \/ os'[k] = NoThread /\ WaitersFor(k) \subseteq outlasted'
           \/ os[k] = NoThread /\ os'[k] = t,
         Ahead(t)'
  PROVE  WaitInv'
<1>1. /\ thread \in [Thread -> ThreadState] /\ os \in [Key -> Thread \cup {NoThread}]
      /\ os' \in [Key -> Thread \cup {NoThread}]
  BY DEF WaitInv, KeyLockInv, TypeOK
<1>2. thread'[t] \in ThreadState BY DEF KeyLockInv, TypeOK
<1>3. \A u \in Thread : Paced(u, thread'[u]) BY <1>2 DEF WaitInv
<1>4. ASSUME NEW u \in Thread \ {t}, thread'[u].step = "wait", u \notin outlasted'
      PROVE  LET h == os'[thread'[u].want] IN
               IF h = NoThread THEN thread'[u].left = LockWait(ProcessOf[u])
               ELSE \/ Unbounded(u, h, thread'[h])
                    \/ thread'[h].work + Margin <= thread'[u].left
  <2>1. thread'[u] = thread[u] /\ thread[u].step = "wait" /\ u \notin outlasted
    BY <1>2, <1>4
  <2>2. PICK k \in Key : k = thread[u].want
    BY <2>1, OfThread DEF Fits, WaitInv
  <2>3. IF os[k] = NoThread THEN thread[u].left = LockWait(ProcessOf[u])
        ELSE \/ Unbounded(u, os[k], thread[os[k]])
             \/ thread[os[k]].work + Margin <= thread[u].left
    BY <2>1, <2>2 DEF WaitInv, Ahead, At
  <2>4. u \in WaitersFor(k) BY <2>1, <2>2 DEF WaitersFor, At
  <2>5. CASE os'[k] = os[k] /\ os[k] # t BY <1>1, <1>2, <2>1, <2>2, <2>3, <2>5
  <2>6. CASE os'[k] = t /\ os[k] = t
    <3>1. /\ thread[t].hung => thread'[t].hung
          /\ thread[t].api => thread'[t].api
          /\ thread[t].evicting => thread'[t].evicting
          /\ thread'[t].evicting \/ thread'[t].work <= thread[t].work
      BY <2>6
    <3>2. Unbounded(u, t, thread[t]) => Unbounded(u, t, thread'[t])
      BY <3>1 DEF Unbounded
    <3>3. thread'[t].work \in Nat /\ thread[t].work \in Nat /\ thread[u].left \in Nat /\ Margin \in Nat
      BY <1>1, <1>2, KeyLockAssumption DEF ThreadState
    <3>4. thread[t].work + Margin <= thread[u].left =>
            thread'[t].evicting \/ thread'[t].work + Margin <= thread[u].left
      BY <3>1, <3>3
    <3>5. thread'[t].evicting => Unbounded(u, t, thread'[t]) BY DEF Unbounded
    <3>6. t # NoThread BY KeyLockAssumption
    <3> QED BY <1>2, <2>1, <2>2, <2>3, <2>6, <3>2, <3>4, <3>5, <3>6
  <2>7. CASE os'[k] = t /\ os[k] = NoThread
    <3>1. thread[u].left = LockWait(ProcessOf[u]) BY <2>3, <2>7
    <3>2. ClientTimeout[ProcessOf[u]] \in Nat /\ ClientTimeout[ProcessOf[t]] \in Nat
          /\ Margin \in Nat /\ thread'[t].work \in Nat
      BY <1>2, KeyLockAssumption DEF ThreadState, Process
    <3>3. thread'[t].work <= ClientTimeout[ProcessOf[t]] BY DEF Paced
    <3>4. Unbounded(u, t, thread'[t]) \/ thread'[t].work + Margin <= thread[u].left
      BY <3>1, <3>2, <3>3 DEF Unbounded, LockWait
    <3>5. t # NoThread BY KeyLockAssumption
    <3> QED BY <1>2, <2>1, <2>2, <2>7, <3>4, <3>5
  <2>8. os'[k] # os[k] => os[k] = NoThread /\ os'[k] = t BY <1>4, <2>4
  <2> QED BY <2>5, <2>6, <2>7, <2>8
<1>5. (\A u \in Thread : Ahead(u))'
  BY <1>4 DEF Ahead, At, Unbounded, LockWait
<1>6. (\A u \in Thread : Paced(u, thread[u]))' BY <1>3 DEF Paced
<1> QED BY <1>5, <1>6 DEF WaitInv

\* What is known of a step of one thread.
LEMMA OfWaiter ==
  ASSUME WaitInv, NEW t \in Thread
  PROVE  /\ KeyLockInv /\ thread \in [Thread -> ThreadState]
         /\ thread[t] \in ThreadState /\ Fits(thread[t]) /\ Paced(t, thread[t])
         /\ thread[t].work \in Nat /\ ClientTimeout[ProcessOf[t]] \in Nat /\ Margin \in Nat
         /\ ClientTimeout[ProcessOf[t]] <= ClientTimeout[ProcessOf[t]]
         /\ \A k \in Key : os[k] = t => k \in SectionsOf(thread[t])
<1>1. KeyLockInv /\ Paced(t, thread[t]) BY DEF WaitInv
<1>2. /\ thread \in [Thread -> ThreadState] /\ thread[t] \in ThreadState /\ Fits(thread[t])
      /\ \A k \in Key : os[k] = t => k \in SectionsOf(thread[t])
  BY <1>1, OfThread DEF TypeOK, Fits
<1>3. thread[t].work \in Nat BY <1>2 DEF ThreadState
<1>4. ClientTimeout[ProcessOf[t]] \in Nat /\ Margin \in Nat
  BY KeyLockAssumption DEF Process
<1> QED BY <1>1, <1>2, <1>3, <1>4

\* Steps that leave the files, the holders' clocks and the waits alone.
LEMMA UnhurriedStep ==
  ASSUME WaitInv, KeyLockInv', NEW t \in Thread,
         \A u \in Thread \ {t} : thread'[u] = thread[u], Paced(t, thread'[t]),
         UNCHANGED <<os, outlasted>>,
         thread[t].hung => thread'[t].hung, thread[t].evicting => thread'[t].evicting,
         (thread[t].api => thread'[t].api) \/ SectionsOf(thread[t]) = {},
         thread'[t].evicting \/ thread'[t].work = thread[t].work
           \/ SectionsOf(thread[t]) = {},
         ~At(t, "wait")'
  PROVE  WaitInv'
<1>1. os' = os /\ outlasted' = outlasted OBVIOUS
<1>2. thread[t].work <= thread[t].work BY OfWaiter
<1>3. \A k \in Key : os[k] = t /\ os'[k] = t =>
           /\ thread[t].hung => thread'[t].hung
           /\ thread[t].api => thread'[t].api
           /\ thread[t].evicting => thread'[t].evicting
           /\ thread'[t].evicting \/ thread'[t].work <= thread[t].work
  BY <1>2, OfWaiter
<1>4. Ahead(t)' BY DEF Ahead
<1> QED BY <1>1, <1>3, <1>4, PacedStep

LEMMA StartAcquirePaced ==
  ASSUME WaitInv, KeyLockInv', NEW t \in Thread, StartAcquire(t)
  PROVE  WaitInv'
<1>1. thread \in [Thread -> ThreadState] /\ thread[t] \in ThreadState /\ Paced(t, thread[t])
      /\ Fits(thread[t]) /\ ClientTimeout[ProcessOf[t]] \in Nat
  BY OfWaiter
<1>2. PICK k \in Key, api \in BOOLEAN :
        \/ /\ At(t, "out")
           /\ thread' = [thread EXCEPT ![t].step = "stripe", ![t].want = k, ![t].api = api]
        \/ /\ At(t, "in") /\ thread[t].inner = NoKey
           /\ thread' = [thread EXCEPT ![t].step = "stripe", ![t].want = k,
                           ![t].work = IF k = thread[t].outer THEN @ ELSE 0,
                           ![t].evicting = @ \/ k # thread[t].outer]
  BY KeyLockAssumption DEF StartAcquire
<1>3. /\ \A u \in Thread \ {t} : thread'[u] = thread[u]
      /\ thread'[t].step = "stripe" /\ thread'[t].want = k
      /\ thread'[t].outer = thread[t].outer /\ thread'[t].inner = thread[t].inner
      /\ thread'[t].hung = thread[t].hung
  BY <1>1, <1>2 DEF ThreadState
<1>4. /\ thread[t].evicting => thread'[t].evicting
      /\ thread'[t].api = thread[t].api \/ (thread[t].outer = NoKey /\ thread[t].inner = NoKey)
      /\ \/ /\ thread[t].outer = NoKey /\ thread[t].inner = NoKey
            /\ thread'[t].work = thread[t].work
         \/ /\ thread[t].inner = NoKey
            /\ k = thread[t].outer => thread'[t].work = thread[t].work
            /\ k # thread[t].outer => thread'[t].evicting /\ thread'[t].work = 0
  <2>1. CASE At(t, "out") /\ thread' = [thread EXCEPT ![t].step = "stripe", ![t].want = k, ![t].api = api]
    BY <1>1, <2>1 DEF ThreadState, Fits, At
  <2>2. CASE /\ At(t, "in") /\ thread[t].inner = NoKey
             /\ thread' = [thread EXCEPT ![t].step = "stripe", ![t].want = k,
                             ![t].work = IF k = thread[t].outer THEN @ ELSE 0,
                             ![t].evicting = @ \/ k # thread[t].outer]
    BY <1>1, <2>2 DEF ThreadState
  <2> QED BY <1>2, <2>1, <2>2
<1>5. Paced(t, thread'[t])
  <2>1. thread'[t].work <= ClientTimeout[ProcessOf[t]]
    <3>1. thread'[t].work = thread[t].work \/ thread'[t].work = 0 BY <1>4
    <3>2. 0 <= ClientTimeout[ProcessOf[t]] BY <1>1
    <3> QED BY <1>1, <3>1, <3>2 DEF Paced
  <2>2. thread'[t].outer # NoKey /\ thread'[t].want # thread'[t].outer => thread'[t].evicting
    BY <1>3, <1>4
  <2>3. thread'[t].inner = NoKey BY <1>3, <1>4
  <2> QED BY <2>1, <2>2, <2>3 DEF Paced
<1>6. UNCHANGED <<os, outlasted>> /\ ~At(t, "wait")' BY <1>3 DEF StartAcquire, At
<1>7. /\ thread[t].evicting => thread'[t].evicting
      /\ thread'[t].evicting \/ thread'[t].work = thread[t].work
      /\ (thread[t].api => thread'[t].api) \/ SectionsOf(thread[t]) = {}
  BY <1>4 DEF SectionsOf
<1> QED BY <1>3, <1>5, <1>6, <1>7, UnhurriedStep

LEMMA HangPaced ==
  ASSUME WaitInv, KeyLockInv', NEW t \in Thread, Hang(t)
  PROVE  WaitInv'
<1>1. thread \in [Thread -> ThreadState] /\ thread[t] \in ThreadState /\ Paced(t, thread[t])
  BY OfWaiter
<1>2. /\ \A u \in Thread \ {t} : thread'[u] = thread[u]
      /\ thread'[t].step = "in" /\ thread'[t].want = thread[t].want
      /\ thread'[t].outer = thread[t].outer /\ thread'[t].inner = thread[t].inner
      /\ thread'[t].hung /\ thread'[t].work = thread[t].work
      /\ thread'[t].evicting = thread[t].evicting /\ thread'[t].api = thread[t].api
  BY <1>1 DEF Hang, At, ThreadState
<1>3. Paced(t, thread'[t]) BY <1>1, <1>2 DEF Paced
<1>4. UNCHANGED <<os, outlasted>> /\ ~At(t, "wait")' BY <1>2 DEF Hang, At
<1> QED BY <1>2, <1>3, <1>4, UnhurriedStep

LEMMA DropStripePaced ==
  ASSUME WaitInv, KeyLockInv', NEW t \in Thread, DropStripe(t)
  PROVE  WaitInv'
<1>1. thread \in [Thread -> ThreadState] /\ thread[t] \in ThreadState /\ Paced(t, thread[t])
  BY OfWaiter
<1>2. thread' = [thread EXCEPT ![t] = AfterRelease(t)] BY DEF DropStripe
<1>3. /\ \A u \in Thread \ {t} : thread'[u] = thread[u]
      /\ thread'[t].step \in {"out", "in"}
      /\ thread'[t].outer = thread[t].outer /\ thread'[t].inner = thread[t].inner
      /\ thread'[t].hung = thread[t].hung /\ thread'[t].work = thread[t].work
      /\ thread'[t].evicting = thread[t].evicting /\ thread'[t].api = thread[t].api
  BY <1>1, <1>2 DEF AfterRelease, ThreadState
<1>4. Paced(t, thread'[t]) BY <1>1, <1>3 DEF Paced
<1>5. UNCHANGED <<os, outlasted>> /\ ~At(t, "wait")' BY <1>3 DEF DropStripe, At
<1> QED BY <1>3, <1>4, <1>5, UnhurriedStep

LEMMA OpenLockFilePaced ==
  ASSUME WaitInv, KeyLockInv', NEW t \in Thread, OpenLockFile(t)
  PROVE  WaitInv'
<1>1. thread \in [Thread -> ThreadState] /\ thread[t] \in ThreadState /\ Paced(t, thread[t])
      /\ Fits(thread[t]) /\ thread[t].step = "open" /\ thread[t].want \in Key
  BY OfWaiter DEF OpenLockFile, At, Fits
<1>2. /\ \A u \in Thread \ {t} : thread'[u] = thread[u]
      /\ thread'[t].step = "wait" /\ thread'[t].want = thread[t].want
      /\ thread'[t].outer = thread[t].outer /\ thread'[t].inner = thread[t].inner
      /\ thread'[t].hung = thread[t].hung /\ thread'[t].work = thread[t].work
      /\ thread'[t].evicting = thread[t].evicting /\ thread'[t].api = thread[t].api
      /\ thread'[t].left = LockWait(ProcessOf[t])
  BY <1>1 DEF OpenLockFile, ThreadState
<1>3. Paced(t, thread'[t]) BY <1>1, <1>2 DEF Paced
<1>4. os' = os /\ \A u \in Thread \ {t} : u \notin outlasted' => u \notin outlasted
  BY DEF OpenLockFile
<1>5. PICK h \in Thread \cup {NoThread} : h = os[thread[t].want]
  BY <1>1, OfThread DEF WaitInv, TypeOK
<1>6. h # NoThread =>
        Unbounded(t, h, thread'[h]) \/ thread'[h].work + Margin <= thread'[t].left
  <2> SUFFICES ASSUME h \in Thread,
                      ClientTimeout[ProcessOf[h]] \in 1 .. ClientTimeout[ProcessOf[t]]
               PROVE  thread'[h].work + Margin <= thread'[t].left
    BY <1>5 DEF Unbounded
  <2>1. thread'[h].work = thread[h].work BY <1>2
  <2>2. /\ thread[h].work \in Nat /\ thread[h].work <= ClientTimeout[ProcessOf[h]]
        /\ ClientTimeout[ProcessOf[h]] \in Nat /\ ClientTimeout[ProcessOf[t]] \in Nat
        /\ Margin \in Nat
    BY OfWaiter DEF Paced
  <2>3. LockWait(ProcessOf[t]) = ClientTimeout[ProcessOf[t]] + Margin BY <2>2 DEF LockWait
  <2> QED BY <1>2, <2>1, <2>2, <2>3
<1>7. Ahead(t)'
  <2>1. os'[thread'[t].want] = h BY <1>2, <1>4, <1>5
  <2> QED BY <1>2, <1>6, <2>1 DEF Ahead, Unbounded, LockWait
<1>8. thread[t].work <= thread[t].work BY OfWaiter
<1> QED BY <1>2, <1>3, <1>4, <1>7, <1>8, PacedStep

\* The clocks of a thread that goes in.
LEMMA InsideClocks ==
  ASSUME WaitInv, NEW t \in Thread, thread[t].step \in {"stripe", "open", "wait"},
         NEW got \in BOOLEAN, NEW st, st = Inside(t, got)
  PROVE  /\ Paced(t, st) /\ st.step = "in"
         /\ st.hung = thread[t].hung /\ st.evicting = thread[t].evicting /\ st.api = thread[t].api
         /\ st.work = thread[t].work \/ SectionsOf(thread[t]) = {}
<1>1. /\ thread[t] \in ThreadState /\ Paced(t, thread[t]) /\ Fits(thread[t])
      /\ ClientTimeout[ProcessOf[t]] \in Nat
      /\ ClientTimeout[ProcessOf[t]] <= ClientTimeout[ProcessOf[t]]
  BY OfWaiter
<1>2. thread[t].want \in Key /\ thread[t].inner = NoKey BY <1>1 DEF Fits
<1> DEFINE k == thread[t].want
           more == IF got THEN {k} ELSE {}
           e == [thread[t] EXCEPT !.step = "in", !.want = NoKey, !.left = 0,
                                  !.acquired = @ \cup more]
           e1 == [e EXCEPT !.outer = k, !.work = Timeout(t)]
           e2 == [e EXCEPT !.inner = k]
<1>3. st = IF thread[t].outer = NoKey THEN e1 ELSE e2 BY DEF Inside
<1>4. e \in ThreadState /\ e.step = "in" /\ e.outer = thread[t].outer
      /\ e.inner = thread[t].inner /\ e.work = thread[t].work
      /\ e.hung = thread[t].hung /\ e.evicting = thread[t].evicting /\ e.api = thread[t].api
  <2>1. more \subseteq Key /\ "in" \in Step BY <1>2 DEF Step
  <2> HIDE DEF more
  <2> QED BY <1>1, <2>1 DEF ThreadState
<1> HIDE DEF e
<1>5. CASE thread[t].outer = NoKey
  <2>1. /\ st.step = "in" /\ st.outer = k /\ st.inner = NoKey
        /\ st.work = Timeout(t)
        /\ st.hung = thread[t].hung /\ st.evicting = thread[t].evicting /\ st.api = thread[t].api
    BY <1>2, <1>3, <1>4, <1>5 DEF ThreadState
  <2>2. SectionsOf(thread[t]) = {} BY <1>2, <1>5 DEF SectionsOf
  <2>3. Timeout(t) <= ClientTimeout[ProcessOf[t]] BY <1>1 DEF Timeout
  <2> QED BY <1>1, <2>1, <2>2, <2>3 DEF Paced
<1>6. CASE thread[t].outer # NoKey
  <2>1. /\ st.step = "in" /\ st.outer = thread[t].outer /\ st.inner = k
        /\ st.work = thread[t].work
        /\ st.hung = thread[t].hung /\ st.evicting = thread[t].evicting /\ st.api = thread[t].api
    BY <1>2, <1>3, <1>4, <1>6 DEF ThreadState
  <2> QED BY <1>1, <1>6, <2>1 DEF Paced
<1> QED BY <1>5, <1>6

LEMMA EnterPaced ==
  ASSUME WaitInv, KeyLockInv', NEW t \in Thread,
         thread[t].step \in {"stripe", "open", "wait"},
         NEW got \in BOOLEAN, thread' = [thread EXCEPT ![t] = Inside(t, got)],
         outlasted' = outlasted,
         IF got THEN os[thread[t].want] = NoThread /\ os' = [os EXCEPT ![thread[t].want] = t]
                ELSE os' = os
  PROVE  WaitInv'
<1>1. /\ KeyLockInv /\ thread \in [Thread -> ThreadState] /\ thread[t].work <= thread[t].work
      /\ thread[t].want \in Key /\ os \in [Key -> Thread \cup {NoThread}]
      /\ \A k \in Key : os[k] = t => k \in SectionsOf(thread[t])
  BY OfWaiter DEF Fits, WaitInv, KeyLockInv, TypeOK
<1>2. PICK st : st = Inside(t, got) OBVIOUS
<1>3. /\ thread'[t] = st /\ \A u \in Thread \ {t} : thread'[u] = thread[u] BY <1>1, <1>2
<1>4. /\ Paced(t, st) /\ st.step = "in"
      /\ st.hung = thread[t].hung /\ st.evicting = thread[t].evicting /\ st.api = thread[t].api
      /\ st.work = thread[t].work \/ SectionsOf(thread[t]) = {}
  BY <1>2, InsideClocks
<1>5. Paced(t, thread'[t]) BY <1>3, <1>4
<1>6. \A k \in Key : os[k] = t /\ os'[k] = t =>
        /\ thread[t].hung => thread'[t].hung
        /\ thread[t].api => thread'[t].api
        /\ thread[t].evicting => thread'[t].evicting
        /\ thread'[t].evicting \/ thread'[t].work <= thread[t].work
  BY <1>1, <1>3, <1>4
<1>7. \A k \in Key : os'[k] # os[k] => os[k] = NoThread /\ os'[k] = t BY <1>1
<1>8. Ahead(t)' BY <1>3, <1>4 DEF Ahead, At
<1> QED BY <1>3, <1>5, <1>6, <1>7, <1>8, PacedStep

LEMMA TakeStripePaced ==
  ASSUME WaitInv, KeyLockInv', NEW t \in Thread, TakeStripe(t)
  PROVE  WaitInv'
<1>1. /\ thread \in [Thread -> ThreadState] /\ thread[t] \in ThreadState
      /\ Paced(t, thread[t]) /\ thread[t].step = "stripe"
  BY OfWaiter DEF TakeStripe, At
<1>2. UNCHANGED <<os, outlasted>> BY DEF TakeStripe
<1>3. CASE thread[t].want \in HeldKeys(t)
  <2>1. thread' = [thread EXCEPT ![t] = Inside(t, FALSE)]
    BY <1>1, <1>3 DEF TakeStripe
  <2> QED BY <1>1, <1>2, <2>1, EnterPaced
<1>4. CASE thread[t].want \notin HeldKeys(t)
  <2>1. thread' = [thread EXCEPT ![t] = [thread[t] EXCEPT !.step = "open"]]
    BY <1>1, <1>4 DEF TakeStripe
  <2>2. /\ \A u \in Thread \ {t} : thread'[u] = thread[u]
        /\ thread'[t].step = "open" /\ thread'[t].want = thread[t].want
        /\ thread'[t].outer = thread[t].outer /\ thread'[t].inner = thread[t].inner
        /\ thread'[t].hung = thread[t].hung /\ thread'[t].work = thread[t].work
        /\ thread'[t].evicting = thread[t].evicting /\ thread'[t].api = thread[t].api
    BY <1>1, <2>1 DEF ThreadState
  <2>3. Paced(t, thread'[t]) BY <1>1, <2>2 DEF Paced
  <2>4. ~At(t, "wait")' BY <2>2 DEF At
  <2> QED BY <1>2, <2>2, <2>3, <2>4, UnhurriedStep
<1> QED BY <1>3, <1>4

LEMMA LeavePaced ==
  ASSUME WaitInv, KeyLockInv', NEW t \in Thread, Leave(t)
  PROVE  WaitInv'
<1>1. /\ KeyLockInv /\ thread \in [Thread -> ThreadState] /\ thread[t] \in ThreadState
      /\ Paced(t, thread[t]) /\ Fits(thread[t]) /\ thread[t].work <= thread[t].work
      /\ ClientTimeout[ProcessOf[t]] \in Nat /\ 0 <= ClientTimeout[ProcessOf[t]]
      /\ thread[t].step = "in" /\ os \in [Key -> Thread \cup {NoThread}]
      /\ outlasted \subseteq Thread
      /\ thread[t].inner \in Key \cup {NoKey} /\ thread[t].outer \in Key
  BY OfWaiter, OfThread DEF Leave, At, Fits, WaitInv, TypeOK
<1>2. PICK k \in Key : k = Innermost(t) BY <1>1 DEF Innermost
<1>3. thread' = [thread EXCEPT ![t] = Without(t, k)] BY <1>2 DEF Leave
<1>4. /\ \A u \in Thread \ {t} : thread'[u] = thread[u]
      /\ thread'[t].step = "release" /\ thread'[t].inner = NoKey
      /\ thread'[t].hung = thread[t].hung
  BY <1>1, <1>3 DEF Without, ThreadState
<1>5. \/ /\ thread'[t].work = thread[t].work /\ thread'[t].evicting = thread[t].evicting
         /\ thread'[t].api = thread[t].api
      \/ /\ thread'[t].work = 0 /\ thread'[t].acquired = {}
  BY <1>1, <1>3 DEF Without, ThreadState
<1>6. Paced(t, thread'[t]) BY <1>1, <1>4, <1>5 DEF Paced
<1>7. \A j \in Key : os'[j] = t <=> j \in thread'[t].acquired
  BY DEF KeyLockInv, LocksMatchSections
<1>8. \A j \in Key : os[j] = t /\ os'[j] = t =>
        /\ thread[t].hung => thread'[t].hung
        /\ thread[t].api => thread'[t].api
        /\ thread[t].evicting => thread'[t].evicting
        /\ thread'[t].evicting \/ thread'[t].work <= thread[t].work
  BY <1>1, <1>4, <1>5, <1>7
<1>9. \/ os' = [os EXCEPT ![k] = NoThread] /\ outlasted' = outlasted \cup WaitersFor(k)
      \/ os' = os /\ outlasted' = outlasted
  BY <1>2 DEF Leave
<1>10. /\ \A j \in Key : os'[j] # os[j] => os'[j] = NoThread /\ WaitersFor(j) \subseteq outlasted'
       /\ \A u \in Thread \ {t} : u \notin outlasted' => u \notin outlasted
  BY <1>1, <1>9
<1>11. Ahead(t)' BY <1>4 DEF Ahead, At
<1> QED BY <1>4, <1>6, <1>8, <1>10, <1>11, PacedStep

LEMMA DiePaced ==
  ASSUME WaitInv, KeyLockInv', NEW process \in Process, Die(process)
  PROVE  WaitInv'
<1>1. /\ KeyLockInv /\ thread \in [Thread -> ThreadState]
      /\ os \in [Key -> Thread \cup {NoThread}]
  BY DEF WaitInv, KeyLockInv, TypeOK
<1>2. \A u \in Thread : thread'[u] = IF ProcessOf[u] = process THEN Outside ELSE thread[u]
  BY DEF Die
<1>3. /\ \A k \in Key : os'[k] = IF k \in HeldBy(process) THEN NoThread ELSE os[k]
      /\ outlasted' = outlasted \cup UNION {WaitersFor(k) : k \in HeldBy(process)}
  BY DEF Die
<1>4. ASSUME NEW u \in Thread PROVE Paced(u, thread'[u])
  <2>1. CASE ProcessOf[u] = process
    <3>1. ClientTimeout[ProcessOf[u]] \in Nat /\ 0 <= ClientTimeout[ProcessOf[u]]
      BY OfWaiter
    <3> QED BY <1>2, <2>1, <3>1 DEF Paced, Outside
  <2>2. CASE ProcessOf[u] # process BY <1>2, <2>2 DEF WaitInv
  <2> QED BY <2>1, <2>2
<1>5. ASSUME NEW u \in Thread, thread'[u].step = "wait", u \notin outlasted'
      PROVE  LET h == os'[thread'[u].want] IN
               IF h = NoThread THEN thread'[u].left = LockWait(ProcessOf[u])
               ELSE \/ Unbounded(u, h, thread'[h])
                    \/ thread'[h].work + Margin <= thread'[u].left
  <2>1. thread'[u] = thread[u] /\ thread[u].step = "wait" /\ u \notin outlasted
    BY <1>2, <1>3, <1>5 DEF Outside
  <2>2. PICK k \in Key : k = thread[u].want BY <2>1, OfWaiter DEF Fits
  <2>3. u \in WaitersFor(k) BY <2>1, <2>2 DEF WaitersFor, At
  <2>4. k \notin HeldBy(process)
    <3> SUFFICES ASSUME k \in HeldBy(process) PROVE FALSE OBVIOUS
    <3> QED BY <1>3, <1>5, <2>3
  <2>5. os'[k] = os[k] BY <1>3, <2>4
  <2>6. os[k] # NoThread => os[k] \in Thread /\ thread'[os[k]] = thread[os[k]]
    BY <1>1, <1>2, <2>4 DEF HeldBy
  <2>7. IF os[k] = NoThread THEN thread[u].left = LockWait(ProcessOf[u])
        ELSE \/ Unbounded(u, os[k], thread[os[k]])
             \/ thread[os[k]].work + Margin <= thread[u].left
    BY <2>1, <2>2 DEF WaitInv, Ahead, At
  <2> QED BY <2>1, <2>2, <2>5, <2>6, <2>7
<1>6. (\A u \in Thread : Ahead(u))' BY <1>5 DEF Ahead, At, Unbounded, LockWait
<1>7. (\A u \in Thread : Paced(u, thread[u]))' BY <1>4 DEF Paced
<1> QED BY <1>6, <1>7 DEF WaitInv

\* A holder whose client call is at its timeout acts before time goes on.
LEMMA HolderIsDue ==
  ASSUME WaitInv, NEW h \in Thread, NEW k \in Key, os[k] = h,
         ~thread[h].hung, ~thread[h].evicting, ~thread[h].api,
         ClientTimeout[ProcessOf[h]] # 0, thread[h].work = 0
  PROVE  Due(h)
<1>1. /\ KeyLockInv /\ thread[h] \in ThreadState /\ Fits(thread[h]) /\ Paced(h, thread[h])
      /\ k \in SectionsOf(thread[h])
  BY OfWaiter
<1>2. thread[h].outer # NoKey BY <1>1 DEF Fits, SectionsOf
<1>3. thread[h].step \in Step BY <1>1 DEF ThreadState
<1>4. CASE thread[h].step = "out" BY <1>1, <1>2, <1>4 DEF Fits
<1>5. CASE thread[h].step = "in" BY <1>5 DEF Due, At, Timeout
<1>6. CASE thread[h].step \in {"open", "release"} BY <1>6 DEF Due
<1>7. CASE thread[h].step = "stripe"
  <2>1. PICK j \in Key : j = thread[h].want BY <1>1, <1>7 DEF Fits
  <2>2. j \in SectionsOf(thread[h])
    BY <1>1, <1>2, <1>7, <2>1 DEF Paced, SectionsOf
  <2>3. stripe[ProcessOf[h]][StripeFor(h, j)].owner = h BY <1>1, <2>2, OwnsStripe
  <2>4. StripeOwner(h) \in {h, NoThread} BY <2>1, <2>3 DEF StripeOwner
  <2> QED BY <1>7, <2>4 DEF Due, At
<1>8. CASE thread[h].step = "wait"
  BY <1>1, <1>2, <1>8 DEF Paced, Fits, SectionsOf
<1> QED BY <1>3, <1>4, <1>5, <1>6, <1>7, <1>8 DEF Step

LEMMA TickPaced ==
  ASSUME WaitInv, KeyLockInv', Tick
  PROVE  WaitInv'
<1>1. /\ os \in [Key -> Thread \cup {NoThread}] /\ os' = os /\ outlasted' = outlasted
  BY DEF WaitInv, KeyLockInv, TypeOK, Tick
<1>2. ASSUME NEW u \in Thread
      PROVE  /\ thread'[u].step = thread[u].step /\ thread'[u].want = thread[u].want
             /\ thread'[u].outer = thread[u].outer /\ thread'[u].inner = thread[u].inner
             /\ thread'[u].hung = thread[u].hung /\ thread'[u].evicting = thread[u].evicting
             /\ thread'[u].api = thread[u].api
             /\ thread'[u].left = Less(thread[u].left)
             /\ thread'[u].work = Less(thread[u].work)
             /\ thread[u].left \in Nat /\ thread[u].work \in Nat
  BY OfWaiter DEF Tick, ThreadState
<1>3. ASSUME NEW u \in Thread PROVE Paced(u, thread'[u])
  <2>1. Paced(u, thread[u]) /\ ClientTimeout[ProcessOf[u]] \in Nat BY OfWaiter
  <2>2. thread'[u].work <= ClientTimeout[ProcessOf[u]]
    BY <1>2, <2>1 DEF Paced, Less
  <2> QED BY <1>2, <2>1, <2>2 DEF Paced
<1>4. ASSUME NEW u \in Thread, thread'[u].step = "wait", u \notin outlasted'
      PROVE  LET h == os'[thread'[u].want] IN
               IF h = NoThread THEN thread'[u].left = LockWait(ProcessOf[u])
               ELSE \/ Unbounded(u, h, thread'[h])
                    \/ thread'[h].work + Margin <= thread'[u].left
  <2>1. thread[u].step = "wait" /\ u \notin outlasted BY <1>1, <1>2, <1>4
  <2>2. PICK k \in Key : k = thread[u].want BY <2>1, OfWaiter DEF Fits
  <2>3. thread[u].left # 0 /\ os[k] # NoThread
    BY <2>1, <2>2 DEF Tick, Due, At
  <2>4. PICK h \in Thread : h = os[k] BY <1>1, <2>3
  <2>5. Unbounded(u, h, thread[h]) \/ thread[h].work + Margin <= thread[u].left
    BY <2>1, <2>2, <2>3, <2>4 DEF WaitInv, Ahead, At
  <2>6. CASE Unbounded(u, h, thread[h])
    <3>1. Unbounded(u, h, thread'[h]) BY <1>2, <2>6 DEF Unbounded
    <3> QED BY <1>1, <1>2, <2>2, <2>3, <2>4, <3>1
  <2>7. CASE ~Unbounded(u, h, thread[h])
    <3>1. thread[h].work # 0
      <4>1. ClientTimeout[ProcessOf[h]] # 0 BY <2>7 DEF Unbounded
      <4>2. ~Due(h) BY DEF Tick
      <4> QED BY <2>4, <2>7, <4>1, <4>2, HolderIsDue DEF Unbounded
    <3>2. Margin \in Nat BY KeyLockAssumption
    <3>3. thread'[h].work + Margin <= thread'[u].left
      BY <1>2, <2>3, <2>5, <2>7, <3>1, <3>2 DEF Less
    <3> QED BY <1>1, <1>2, <2>2, <2>3, <2>4, <3>3
  <2> QED BY <2>6, <2>7
<1>5. (\A u \in Thread : Ahead(u))' BY <1>4 DEF Ahead, At, Unbounded, LockWait
<1>6. (\A u \in Thread : Paced(u, thread[u]))' BY <1>3 DEF Paced
<1> QED BY <1>5, <1>6 DEF WaitInv

LEMMA InitWait == Init => WaitInv
<1> SUFFICES ASSUME Init PROVE WaitInv OBVIOUS
<1>1. KeyLockInv BY InitKeyLock
<1>2. \A t \in Thread : thread[t] = Outside BY DEF Init
<1>3. \A t \in Thread : Ahead(t) BY <1>2 DEF Ahead, At, Outside
<1>4. \A t \in Thread : ClientTimeout[ProcessOf[t]] \in Nat
  BY KeyLockAssumption DEF Process
<1>5. \A t \in Thread : Paced(t, thread[t]) BY <1>2, <1>4 DEF Paced, Outside
<1> QED BY <1>1, <1>3, <1>5 DEF WaitInv

LEMMA WaitStep ==
  ASSUME WaitInv, [Next]_vars
  PROVE  WaitInv'
<1>1. KeyLockInv' BY NextStep DEF WaitInv
<1>2. CASE UNCHANGED vars
  <2>1. UNCHANGED <<thread, stripe, os, outlasted>> BY <1>2 DEF vars
  <2> QED BY <1>1, <2>1 DEF WaitInv, Paced, Ahead, At, Unbounded, LockWait
<1>3. ASSUME NEW t \in Thread, StartAcquire(t) PROVE WaitInv' BY <1>1, <1>3, StartAcquirePaced
<1>4. ASSUME NEW t \in Thread, TakeStripe(t) PROVE WaitInv' BY <1>1, <1>4, TakeStripePaced
<1>5. ASSUME NEW t \in Thread, OpenLockFile(t) PROVE WaitInv' BY <1>1, <1>5, OpenLockFilePaced
<1>6. ASSUME NEW t \in Thread, OpenDenied(t) PROVE WaitInv'
  BY <1>1, <1>6, EnterPaced DEF OpenDenied, At
<1>7. ASSUME NEW t \in Thread, TryLock(t) PROVE WaitInv'
  BY <1>1, <1>7, EnterPaced DEF TryLock, At
<1>8. ASSUME NEW t \in Thread, GiveUp(t) PROVE WaitInv'
  BY <1>1, <1>8, EnterPaced DEF GiveUp, At
<1>9. ASSUME NEW t \in Thread, Leave(t) PROVE WaitInv' BY <1>1, <1>9, LeavePaced
<1>10. ASSUME NEW t \in Thread, DropStripe(t) PROVE WaitInv' BY <1>1, <1>10, DropStripePaced
<1>11. ASSUME NEW t \in Thread, Hang(t) PROVE WaitInv' BY <1>1, <1>11, HangPaced
<1>12. ASSUME NEW process \in Process, Die(process) PROVE WaitInv' BY <1>1, <1>12, DiePaced
<1>13. CASE Tick BY <1>1, <1>13, TickPaced
<1> QED
  BY <1>2, <1>3, <1>4, <1>5, <1>6, <1>7, <1>8, <1>9, <1>10, <1>11, <1>12, <1>13 DEF Next

\* The one way to go in without the file that was waited for.
LEMMA OnlyGiveUp ==
  ASSUME KeyLockInv, Next, NEW t \in Thread, GaveUp(t)
  PROVE  GiveUp(t)
<1>1. /\ thread \in [Thread -> ThreadState] /\ thread[t].step = "wait"
      /\ thread'[t].step = "in" /\ thread[t].want \notin thread'[t].acquired
  BY DEF GaveUp, At, KeyLockInv, TypeOK
<1>2. ASSUME NEW u \in Thread \ {t},
             \/ StartAcquire(u) \/ TakeStripe(u) \/ OpenLockFile(u) \/ OpenDenied(u)
             \/ TryLock(u) \/ GiveUp(u) \/ Leave(u) \/ DropStripe(u) \/ Hang(u)
      PROVE  FALSE
  <2>1. thread'[t] = thread[t]
    BY <1>1, <1>2 DEF StartAcquire, TakeStripe, OpenLockFile, OpenDenied, TryLock, GiveUp,
                      Leave, DropStripe, Hang
  <2> QED BY <1>1, <2>1
<1>3. ASSUME NEW process \in Process, Die(process) PROVE FALSE
  BY <1>1, <1>3 DEF Die, Outside
<1>4. CASE Tick
  <2>1. thread'[t].step = thread[t].step BY <1>1, <1>4 DEF Tick, ThreadState
  <2> QED BY <1>1, <2>1
<1>5. CASE TryLock(t)
  <2>1. PICK got \in BOOLEAN : got = TRUE OBVIOUS
  <2>2. PICK st : st = Inside(t, got) OBVIOUS
  <2>3. thread[t].want \in st.acquired
    <3>1. st.acquired = thread[t].acquired \cup (IF got THEN {thread[t].want} ELSE {})
      BY <1>1, <2>2, InsideFacts
    <3> QED BY <2>1, <3>1
  <2>4. st = Inside(t, TRUE) BY <2>1, <2>2 DEF Inside
  <2>5. thread'[t] = st BY <1>1, <1>5, <2>4 DEF TryLock
  <2> QED BY <1>1, <2>3, <2>5
<1>6. ~StartAcquire(t) /\ ~TakeStripe(t) /\ ~OpenLockFile(t) /\ ~OpenDenied(t)
      /\ ~Leave(t) /\ ~DropStripe(t) /\ ~Hang(t)
  BY <1>1 DEF StartAcquire, TakeStripe, OpenLockFile, OpenDenied, Leave, DropStripe, Hang, At
<1> QED BY <1>2, <1>3, <1>4, <1>5, <1>6 DEF Next

\* A waiter that gives up has outwaited the client call of whoever held the file
\* when the wait began, whatever the timeouts are: only a stuck peer, one that has
\* gone on to evict, one that asks a provider over HTTP, or one whose timeout the wait
\* was not sized to is overtaken, unless the file was unlocked meanwhile.
THEOREM WaitsOutlast == Spec => OutwaitsHolder
<1> DEFINE Outwaits == \A t \in Thread : GaveUp(t) /\ t \notin outlasted =>
                         LET h == os[thread[t].want] IN
                           \/ thread[h].hung
                           \/ thread[h].evicting
                           \/ thread[h].api
                           \/ ClientTimeout[ProcessOf[h]] \notin 1 .. ClientTimeout[ProcessOf[t]]
<1>1. WaitInv /\ [Next]_vars => [Outwaits]_vars
  <2> SUFFICES ASSUME WaitInv, Next, NEW t \in Thread, GaveUp(t), t \notin outlasted
               PROVE  Unbounded(t, os[thread[t].want], thread[os[thread[t].want]])
    BY DEF Unbounded
  <2>1. KeyLockInv /\ thread[t].want \in Key /\ os \in [Key -> Thread \cup {NoThread}]
    BY OfWaiter DEF WaitInv, KeyLockInv, TypeOK, GaveUp, At, Fits
  <2>2. /\ At(t, "wait") /\ os[thread[t].want] # NoThread /\ thread[t].left = 0
    BY <2>1, OnlyGiveUp DEF GiveUp
  <2>3. PICK h \in Thread : h = os[thread[t].want] BY <2>1, <2>2
  <2>4. Unbounded(t, h, thread[h]) \/ thread[h].work + Margin <= 0
    BY <2>2, <2>3 DEF WaitInv, Ahead
  <2>5. thread[h].work \in Nat /\ Margin \in Nat \ {0} BY OfWaiter, KeyLockAssumption
  <2> QED BY <2>3, <2>4, <2>5
<1>2. Spec => []WaitInv BY InitWait, WaitStep, PTL DEF Spec
<1> QED BY <1>1, <1>2, PTL DEF Spec, OutwaitsHolder
=============================================================================
