------------------------------ MODULE QuotaEviction ------------------------------
(***************************************************************************)
(* Eviction: a sweep reads how much is stored, then the entries with their *)
(* sizes, then the last accesses, each in a statement of its own, and then *)
(* purges its victims one by one under their keys' locks, while other      *)
(* processes record, hit and purge entries.  The daemon sweeps again and   *)
(* again, for the quota and for age; a run that recorded something sweeps  *)
(* for the quota once.                                                     *)
(***************************************************************************)
EXTENDS Integers, FiniteSets, FiniteSetsExt

CONSTANTS
  Entry,          \* execution keys
  SizeOf,         \* bytes of the documents of each
  MaxBytes,       \* the quota
  MaxAge,         \* seconds since the last access
  MaxSeconds,     \* bound on the clock
  MaxRecordings   \* bound on what is recorded

ASSUME QuotaAssumption ==
  /\ IsFiniteSet(Entry) /\ SizeOf \in [Entry -> Nat \ {0}]
  /\ MaxBytes \in Nat /\ MaxAge \in Nat /\ MaxSeconds \in Nat /\ MaxRecordings \in Nat

VARIABLES
  second,         \* the clock, at the resolution of the journal
  stored,         \* the current executions: bytes (0: none) and second of creation
  lastAccess,     \* the journal: second of the latest event of each key (-1: none)
  recordings,     \* how many recordings there were
  sweep,          \* each sweeper, and what it has read
  loopTask        \* the daemon's task: on, or cancelled

quotaVars == <<second, stored, lastAccess, recordings, sweep, loopTask>>

Sweeper == {"loop", "run"}
Second  == 0..MaxSeconds
Empty   == [bytes |-> 0, created |-> 0]

\* grown, touched and evicted are history: what was recorded since the sweep read the
\* total, whether anything else changed, and when what it has purged was last used.
Asleep == [at |-> "asleep", running |-> 0, left |-> {}, cutoff |-> 0,
           grown |-> 0, touched |-> FALSE, evicted |-> {}]

SweepAt == {"asleep", "total", "sizes", "order", "evict", "met", "age", "age_order",
            "stale", "dead", "off"}

QuotaTypeOK ==
  /\ second \in Second /\ recordings \in 0..MaxRecordings
  /\ stored \in [Entry -> [bytes : Nat, created : Second]]
  /\ lastAccess \in [Entry -> Second \cup {-1}]
  /\ loopTask \in {"on", "cancelled"}
  /\ \A s \in Sweeper : /\ sweep[s].at \in SweepAt /\ sweep[s].running \in Int
                        /\ sweep[s].cutoff \in Int /\ sweep[s].grown \in Nat

QuotaInit ==
  /\ second = 0 /\ recordings = 0 /\ loopTask = "on"
  /\ stored = [k \in Entry |-> Empty] /\ lastAccess = [k \in Entry |-> -1]
  /\ sweep = [s \in Sweeper |-> Asleep]

Current     == {k \in Entry : stored[k].bytes > 0}
LastUse(k)  == IF lastAccess[k] >= 0 THEN lastAccess[k] ELSE stored[k].created
StoredBytes == MapThenSumSet(LAMBDA k : stored[k].bytes, Entry)

-----------------------------------------------------------------------------
(* The other processes.                                                    *)

\* What a sweep that has read the total did not see.
ForQuota(w)        == w.at \in {"sizes", "order", "evict", "met"}
Touched(w)         == IF ForQuota(w) THEN [w EXCEPT !.touched = TRUE] ELSE w
Grown(w, bytes)    == IF ForQuota(w) THEN [Touched(w) EXCEPT !.grown = @ + bytes] ELSE w

\* A run is saved and journaled (the journal swallows its failures); a process that has
\* the quota sweeps before it returns its answer.
RecordEntry(k) ==
  /\ recordings < MaxRecordings /\ recordings' = recordings + 1
  /\ \E told \in BOOLEAN, sweeps \in BOOLEAN :
       /\ stored' = [stored EXCEPT ![k] = [bytes |-> SizeOf[k], created |-> second]]
       /\ lastAccess' = [lastAccess EXCEPT ![k] = IF told THEN second ELSE @]
       /\ sweeps => sweep["run"].at = "asleep"
       /\ sweep' = [s \in Sweeper |-> IF sweeps /\ s = "run" THEN [Asleep EXCEPT !.at = "total"]
                                                             ELSE Grown(sweep[s], SizeOf[k])]
  /\ UNCHANGED <<second, loopTask>>

HitEntry(k) ==
  /\ k \in Current /\ lastAccess' = [lastAccess EXCEPT ![k] = second]
  /\ sweep' = [s \in Sweeper |-> Touched(sweep[s])]
  /\ UNCHANGED <<second, stored, recordings, loopTask>>

\* A soft purge by the user; the key's events stay.
PurgeEntry(k) ==
  /\ k \in Current /\ stored' = [stored EXCEPT ![k] = Empty]
  /\ sweep' = [s \in Sweeper |-> Touched(sweep[s])]
  /\ UNCHANGED <<second, lastAccess, recordings, loopTask>>

Tick == second < MaxSeconds /\ second' = second + 1
        /\ UNCHANGED <<stored, lastAccess, recordings, sweep, loopTask>>

-----------------------------------------------------------------------------
(* A sweep.                                                                *)

SweepGoes(s, w) == sweep' = [sweep EXCEPT ![s] = w]
ReadsOnly       == UNCHANGED <<second, stored, lastAccess, recordings, loopTask>>

\* After the quota the loop sweeps for age and writes its statistics.
Rest(s)  == IF s = "loop" /\ loopTask = "cancelled" THEN [Asleep EXCEPT !.at = "off"] ELSE Asleep

WakeUp ==
  /\ sweep["loop"].at = "asleep" /\ loopTask = "on"
  /\ SweepGoes("loop", [Asleep EXCEPT !.at = "total"]) /\ ReadsOnly

\* (mutant) the quota is one entry too generous
OverQuotaByMore(bytes) == bytes > MaxBytes + 1
OverQuota(bytes) == bytes > MaxBytes

ReadTotal(s) ==
  /\ sweep[s].at = "total"
  /\ SweepGoes(s, [Asleep EXCEPT !.at = IF OverQuota(StoredBytes) THEN "sizes" ELSE "met",
                                 !.running = IF OverQuota(StoredBytes) THEN StoredBytes ELSE 0])
  /\ ReadsOnly

SeenEntries == {[key |-> k, bytes |-> stored[k].bytes, age |-> stored[k].created] : k \in Current}
ReadSizes(s) ==
  /\ sweep[s].at = "sizes" /\ SweepGoes(s, [sweep[s] EXCEPT !.at = "order", !.left = SeenEntries])
  /\ ReadsOnly

\* By last access, or by creation for a key without one; by creation altogether if the
\* journal cannot be read.
\* (mutant) always by creation
ByCreation(e) == e
ByAccess(e) == IF lastAccess[e.key] >= 0 THEN [e EXCEPT !.age = lastAccess[e.key]] ELSE e
Ordered(left) == {ByAccess(e) : e \in left}

ReadAccesses(s) ==
  /\ sweep[s].at = "order"
  /\ \/ SweepGoes(s, [sweep[s] EXCEPT !.at = "evict", !.left = Ordered(@)])
     \/ SweepGoes(s, [sweep[s] EXCEPT !.at = "evict", !.touched = TRUE])
  /\ ReadsOnly

\* A soft purge of one key.
Purge(s, e) ==
  /\ stored' = [stored EXCEPT ![e.key] = Empty]
  /\ UNCHANGED <<second, lastAccess, recordings, loopTask>>
OthersTouched(s, w) == sweep' = [t \in Sweeper |-> IF t = s THEN w ELSE Touched(sweep[t])]

EvictNext(s) ==
  /\ sweep[s].at = "evict" /\ OverQuota(sweep[s].running)
  /\ \E e \in sweep[s].left :
       /\ \A f \in sweep[s].left : e.age <= f.age
       /\ OthersTouched(s, [sweep[s] EXCEPT !.left = @ \ {e}, !.running = @ - e.bytes,
                                            !.evicted = @ \cup {LastUse(e.key)}])
       /\ Purge(s, e)

QuotaMet(s) ==
  /\ sweep[s].at = "evict" /\ (sweep[s].left = {} \/ ~OverQuota(sweep[s].running))
  /\ SweepGoes(s, [sweep[s] EXCEPT !.at = "met", !.running = 0, !.left = {}]) /\ ReadsOnly

EndOfRun ==
  /\ sweep["run"].at = "met" /\ SweepGoes("run", Asleep) /\ ReadsOnly

\* The loop goes on with the entries that were not used for too long.
StartAge ==
  /\ sweep["loop"].at = "met"
  /\ SweepGoes("loop", [Asleep EXCEPT !.at = "age_order", !.cutoff = second - MaxAge, !.left = SeenEntries])
  /\ ReadsOnly

ReadAges ==
  /\ sweep["loop"].at = "age_order"
  /\ \E readable \in BOOLEAN :
       LET seen == IF readable THEN Ordered(sweep["loop"].left) ELSE sweep["loop"].left
       IN  SweepGoes("loop", [sweep["loop"] EXCEPT
             !.at = "stale", !.left = {e \in seen : e.age < sweep["loop"].cutoff}])
  /\ ReadsOnly

PurgeStale ==
  /\ sweep["loop"].at = "stale"
  /\ \E e \in sweep["loop"].left :
       OthersTouched("loop", [sweep["loop"] EXCEPT !.left = @ \ {e}]) /\ Purge("loop", e)

EndOfSweep ==
  /\ sweep["loop"].at = "stale" /\ sweep["loop"].left = {}
  /\ SweepGoes("loop", Rest("loop")) /\ ReadsOnly

\* A statement fails, or a key's lock cannot be had in time: the run's call fails with
\* it, and the daemon's task ends for good.
Raises(s) ==
  /\ sweep[s].at \notin {"asleep", "met", "dead", "off"}
  /\ SweepGoes(s, IF s = "loop" THEN [Asleep EXCEPT !.at = "dead"] ELSE Asleep)
  /\ ReadsOnly

\* The daemon stops: a task that sleeps ends, a sweep under way runs out in its thread.
CancelLoop ==
  /\ loopTask = "on" /\ loopTask' = "cancelled"
  /\ sweep' = [sweep EXCEPT !["loop"] = IF @.at = "asleep" THEN [Asleep EXCEPT !.at = "off"] ELSE @]
  /\ UNCHANGED <<second, stored, lastAccess, recordings>>

LoopStep == \/ WakeUp \/ ReadTotal("loop") \/ ReadSizes("loop") \/ ReadAccesses("loop")
            \/ EvictNext("loop") \/ QuotaMet("loop") \/ StartAge \/ ReadAges
            \/ PurgeStale \/ EndOfSweep
RunStep  == \/ ReadTotal("run") \/ ReadSizes("run") \/ ReadAccesses("run")
            \/ EvictNext("run") \/ QuotaMet("run") \/ EndOfRun

QuotaNext ==
  \/ \E k \in Entry : RecordEntry(k) \/ HitEntry(k) \/ PurgeEntry(k)
  \/ Tick \/ LoopStep \/ RunStep \/ (\E s \in Sweeper : Raises(s)) \/ CancelLoop

\* The event loop and its executor run.
QuotaFairness == WF_quotaVars(LoopStep)
QuotaSpec == QuotaInit /\ [][QuotaNext]_quotaVars /\ QuotaFairness

-----------------------------------------------------------------------------
(* Properties.                                                             *)

\* A sweep that comes to its end leaves no more than the quota and what was recorded
\* since it read the total, whatever was purged, replaced or swept in between.
QuotaIsMet == \A s \in Sweeper : sweep[s].at = "met" => StoredBytes <= MaxBytes + sweep[s].grown

\* A sweep nobody disturbed, with a journal it could read, has purged nothing that was
\* used later than an entry it left.
LeastRecentlyUsed ==
  \A s \in Sweeper : sweep[s].at = "met" /\ ~sweep[s].touched =>
    \A used \in sweep[s].evicted, k \in Current : used <= LastUse(k)

\* A sweep removes enough, and the entries nobody has used for longest.
EvictionIsRight == QuotaIsMet /\ LeastRecentlyUsed

\* A recording during a sweep may leave the store over its quota when the sweep is done;
\* with the next ones, whoever sweeps beside it, the daemon brings it under once nothing
\* more is recorded, unless one of its sweeps has failed or it was told to stop.
EvictionCatchesUp ==
  StoredBytes > MaxBytes ~> \/ StoredBytes <= MaxBytes \/ sweep["loop"].at \in {"dead", "off"}
=============================================================================
