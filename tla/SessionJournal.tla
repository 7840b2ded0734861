------------------------------ MODULE SessionJournal ------------------------------
(***************************************************************************)
(* The call journal and what is made of it: every call leaves one event    *)
(* under its session, sessions carry tags, a report adds up the events of  *)
(* a session (or of every session with a tag) and prices them with the     *)
(* usage of the executions stored now, and a purge takes what a session    *)
(* touched.  Events and executions are read in statements of their own.    *)
(***************************************************************************)
EXTENDS Naturals, FiniteSets, FiniteSetsExt

CONSTANTS
  Session,        \* session ids
  Key,            \* execution keys
  Usage,          \* what runs of a key may report of their tokens (0: nothing)
  MaxCalls        \* bound on the calls

ASSUME JournalAssumption == IsFiniteSet(Key) /\ Usage \subseteq Nat /\ MaxCalls \in Nat

VARIABLES
  current,        \* keys with a current execution
  usage,          \* what the latest of each key's current executions reported
  awaiting,       \* keys with a run whose documents are not all stored
  events,         \* the journal: how many events of each kind
  tagged,         \* sessions that carry the tag
  calls,          \* how many calls there were
  truth,          \* (history) what each session paid and saved, and whether the
                  \* journal can tell it
  report,         \* the report under way
  purge           \* the purge under way

journalVars == <<current, usage, awaiting, events, tagged, calls, truth, report, purge>>

Event    == {"hit", "record", "run", "miss", "would_hit", "would_miss"}
Executed == {"record", "run", "would_hit", "would_miss"}

Untouched == [paid |-> 0, saved |-> 0, told |-> TRUE]
Untold    == [paid |-> 0, saved |-> 0, told |-> FALSE]
NoReport  == [at |-> "none", todo |-> {}, priced |-> {}, price |-> [k \in Key |-> 0],
              rows |-> [r \in Key \X Event |-> 0], truth |-> Untouched, failed |-> 0]
NoPurge   == [at |-> "none", hard |-> FALSE, sessions |-> {}, keys |-> {}, all |-> {},
              doing |-> {}, quiet |-> TRUE]

JournalTypeOK ==
  /\ current \subseteq Key /\ awaiting \subseteq Key /\ usage \in [Key -> Nat]
  /\ events \in [Session \X Key \X Event -> 0..MaxCalls] /\ tagged \subseteq Session
  /\ calls \in 0..MaxCalls
  /\ \A s \in Session : truth[s].paid \in Nat /\ truth[s].saved \in Nat /\ truth[s].told \in BOOLEAN
  /\ report.at \in {"none", "events", "usage", "awaiting", "ready"}
  /\ report.todo \subseteq Session /\ report.priced \subseteq Key
  /\ report.price \in [Key -> Nat]
  /\ purge.at \in {"none", "sessions", "rows", "events", "done"}
  /\ purge.sessions \subseteq Session /\ purge.keys \cup purge.all \subseteq Key

JournalInit ==
  /\ current = {} /\ awaiting = {} /\ tagged = {} /\ calls = 0
  /\ events = [r \in Session \X Key \X Event |-> 0] /\ usage = [k \in Key |-> 0]
  /\ truth = [s \in Session |-> Untouched]
  /\ report = NoReport /\ purge = NoPurge

-----------------------------------------------------------------------------
(* Calls.                                                                  *)

\* A failed write is swallowed, and history no longer adds up.
Journal(s, k, event, told) ==
  events' = [events EXCEPT ![<<s, k, event>>] = IF told THEN @ + 1 ELSE @]

Together(x, y) == IF x.told /\ y.told
              THEN [paid |-> x.paid + y.paid, saved |-> x.saved + y.saved, told |-> TRUE]
              ELSE Untold

\* What the provider reports for a run, and what a hit did not cost again.
Learn(s, paid, saved, told) ==
  truth' = [truth EXCEPT ![s] = Together(@, [paid |-> paid, saved |-> saved, told |-> told])]

BeginCall == /\ calls < MaxCalls /\ calls' = calls + 1
             /\ purge' = [purge EXCEPT !.quiet = @ /\ purge.at \in {"none", "sessions"}]
             /\ UNCHANGED tagged

\* A stored answer, online or offline.
Hit(s, k) ==
  /\ k \in current /\ BeginCall
  /\ \E told \in BOOLEAN : Journal(s, k, "hit", told) /\ Learn(s, 0, usage[k], told)
  /\ UNCHANGED <<current, usage, awaiting, report>>

\* Offline without a stored answer: nothing ran.
Miss(s, k) ==
  /\ BeginCall
  /\ \E told \in BOOLEAN : Journal(s, k, "miss", told) /\ Learn(s, 0, 0, TRUE)
  /\ UNCHANGED <<current, usage, awaiting, report>>

KeysOf(s)  == {k \in Key : \E e \in Event : events[<<s, k, e>>] > 0}
Seen(rows) == {k \in Key : \E e \in Event : rows[<<k, e>>] > 0}

\* An execution of k that used u becomes the current one.  If the one before used
\* something else, events of k so far will be priced with what they did not cost.
Supersedes(k, u) ==
  /\ current' = current \cup {k} /\ awaiting' = awaiting \ {k} /\ usage' = [usage EXCEPT ![k] = u]
  /\ report' = IF k \in current /\ usage[k] # u /\ k \in Seen(report.rows) \ report.priced
               THEN [report EXCEPT !.truth = Untold] ELSE report
After(s, k, u) == IF k \in current /\ usage[k] # u /\ k \in KeysOf(s) THEN Untold ELSE truth[s]

\* A run that is stored supersedes the stored one; a call that finds an answer runs only
\* when it refreshes.  A purge of the key holds its lock throughout.
Record(s, k) ==
  /\ k \notin purge.doing /\ BeginCall
  /\ \E told \in BOOLEAN, u \in Usage :
       /\ Journal(s, k, "record", told) /\ Supersedes(k, u)
       /\ truth' = [t \in Session |->
            IF t = s THEN Together(After(t, k, u), [paid |-> u, saved |-> 0, told |-> told])
            ELSE After(t, k, u)]

\* A repair finds the documents of an earlier run stored after all, and promotes it.
RepairAwaiting(k) ==
  /\ k \in awaiting
  /\ \E u \in Usage : Supersedes(k, u) /\ truth' = [t \in Session |-> After(t, k, u)]
  /\ UNCHANGED <<events, tagged, calls, purge>>

\* A run that is not stored: the call is not cacheable, it failed (and may have reported
\* nothing), or some of its documents could not be written.
RunUnstored(s, k) ==
  /\ BeginCall
  /\ \E told, stays \in BOOLEAN :
       /\ Journal(s, k, "run", told) /\ Learn(s, 0, 0, FALSE)
       /\ awaiting' = IF stays THEN awaiting \cup {k} ELSE awaiting
  /\ UNCHANGED <<current, usage, report>>

\* At METER depth every call runs and none is stored.
Meter(s, k) ==
  /\ BeginCall
  /\ \E told \in BOOLEAN : /\ Journal(s, k, IF k \in current THEN "would_hit" ELSE "would_miss", told)
                           /\ Learn(s, 0, 0, FALSE)
  /\ UNCHANGED <<current, usage, awaiting, report>>

\* Bound: tagging, reports and purges one at a time; calls go on beside each of them.
AtRest == report.at = "none" /\ purge.at = "none"

\* session tag --add / --remove, both idempotent.
TagSession(s) ==
  /\ AtRest /\ tagged' = tagged \cup {s}
  /\ UNCHANGED <<current, usage, awaiting, events, calls, truth, report, purge>>
UntagSession(s) ==
  /\ AtRest /\ tagged' = tagged \ {s}
  /\ UNCHANGED <<current, usage, awaiting, events, calls, truth, report, purge>>

-----------------------------------------------------------------------------
(* Reports.                                                                *)

Reads == UNCHANGED <<current, usage, awaiting, events, tagged, calls, truth, purge>>

\* For one session, or for every session with the tag.
StartReport ==
  /\ AtRest
  /\ \E sessions \in {tagged} \cup {{s} : s \in Session} :
       report' = [NoReport EXCEPT !.at = "events", !.todo = sessions]
  /\ Reads

\* The rows of one session after the other.
ReadEvents(s) ==
  /\ report.at = "events" /\ s \in report.todo
  /\ report' = [report EXCEPT
       !.todo = @ \ {s},
       !.rows = [r \in Key \X Event |-> @[r] + events[<<s, r[1], r[2]>>]],
       !.truth = Together(@, truth[s])]
  /\ Reads

EventsRead ==
  /\ report.at = "events" /\ report.todo = {} /\ report' = [report EXCEPT !.at = "usage"]
  /\ Reads

\* The usage of the execution that is current now, key by key.
PriceKey(k) ==
  /\ report.at = "usage" /\ k \in Seen(report.rows) \ report.priced
  /\ report' = [report EXCEPT !.priced = @ \cup {k},
                              !.price[k] = IF k \in current THEN usage[k] ELSE 0]
  /\ Reads

CountAwaiting ==
  /\ report.at = "usage" /\ Seen(report.rows) \subseteq report.priced
  /\ report' = [report EXCEPT !.at = "ready",
                              !.failed = Cardinality(Seen(report.rows) \cap awaiting)]
  /\ Reads
EndReport == report.at = "ready" /\ report' = NoReport /\ Reads

\* build_session_report: all events of a key at the one price that was read for it.
Tokens(rows, price, kinds) == MapThenSumSet(LAMBDA r : rows[r] * price[r[1]], Key \X kinds)
\* (mutant) a hit is counted as a call that ran
SpentWithHits(rep) == Tokens(rep.rows, rep.price, Executed \cup {"hit"})
Spent(rep) == Tokens(rep.rows, rep.price, Executed)
Saved(rep) == Tokens(rep.rows, rep.price, {"hit"})

-----------------------------------------------------------------------------
(* Purges of what a session touched.                                       *)

Purges == UNCHANGED <<usage, tagged, calls, report>>

\* By session, or by the sessions with the tag.
StartPurge ==
  /\ AtRest
  /\ \E hard \in BOOLEAN, sessions \in {tagged} \cup {{s} : s \in Session} :
       purge' = [NoPurge EXCEPT !.at = "sessions", !.hard = hard, !.sessions = sessions]
  /\ UNCHANGED <<current, awaiting, events, truth>> /\ Purges

CollectKeys(s) ==
  /\ purge.at = "sessions" /\ s \in purge.sessions
  /\ purge' = [purge EXCEPT !.sessions = @ \ {s}, !.keys = @ \cup KeysOf(s),
                            !.all = @ \cup KeysOf(s)]
  /\ UNCHANGED <<current, awaiting, events, truth>> /\ Purges
KeysCollected ==
  /\ purge.at = "sessions" /\ purge.sessions = {} /\ purge' = [purge EXCEPT !.at = "rows"]
  /\ UNCHANGED <<current, awaiting, events, truth>> /\ Purges

\* Sessions whose report no longer finds what it prices.
Losing(k) == truth' = [s \in Session |-> IF k \in KeysOf(s) THEN Untold ELSE truth[s]]

\* One key after the other: its rows, and in a hard purge then its events.
PurgeRows(k) ==
  /\ purge.at = "rows" /\ k \in purge.keys
  /\ current' = current \ {k} /\ Losing(k)
  /\ IF purge.hard
     THEN awaiting' = awaiting \ {k} /\ purge' = [purge EXCEPT !.at = "events", !.keys = @ \ {k},
                                                                !.doing = {k}]
     ELSE UNCHANGED awaiting /\ purge' = [purge EXCEPT !.keys = @ \ {k}]
  /\ UNCHANGED events /\ Purges

WithoutEvents(k)    == [r \in DOMAIN events |-> IF r[2] = k THEN 0 ELSE events[r]]

\* A failure is swallowed.
PurgeEvents(k) ==
  /\ purge.at = "events" /\ k \in purge.doing
  /\ \/ events' = WithoutEvents(k) /\ purge' = [purge EXCEPT !.at = "rows", !.doing = {}]
     \/ UNCHANGED events /\ purge' = [purge EXCEPT !.at = "rows", !.doing = {}, !.quiet = FALSE]
  /\ UNCHANGED <<current, awaiting>> /\ Losing(k) /\ Purges

PurgeDone ==
  /\ purge.at = "rows" /\ purge.keys = {} /\ purge' = [purge EXCEPT !.at = "done"]
  /\ UNCHANGED <<current, awaiting, events, truth>> /\ Purges
EndPurge ==
  /\ purge.at = "done" /\ purge' = NoPurge
  /\ UNCHANGED <<current, awaiting, events, truth>> /\ Purges

JournalNext ==
  \/ \E s \in Session, k \in Key : Hit(s, k) \/ Miss(s, k) \/ Record(s, k) \/ RunUnstored(s, k) \/ Meter(s, k)
  \/ \E s \in Session : TagSession(s) \/ UntagSession(s) \/ ReadEvents(s) \/ CollectKeys(s)
  \/ \E k \in Key : RepairAwaiting(k) \/ PriceKey(k) \/ PurgeRows(k) \/ PurgeEvents(k)
  \/ StartReport \/ EventsRead \/ CountAwaiting \/ EndReport
  \/ StartPurge \/ KeysCollected \/ PurgeDone \/ EndPurge

JournalSpec == JournalInit /\ [][JournalNext]_journalVars

-----------------------------------------------------------------------------
(* Properties.                                                             *)

\* As long as every call of the sessions was a hit, a miss or a stored run, every event
\* was journaled and nothing of theirs was purged, the report says what they paid and
\* what they saved, whatever is called beside it, with one exception: once a key is
\* recorded anew with another usage, before the report has priced it, the older events
\* of the key are priced with the newer run (build_session_report).
TheReportIsTrue ==
  report.at = "ready" /\ report.truth.told =>
    /\ Spent(report) = report.truth.paid
    /\ Saved(report) = report.truth.saved

\* After a hard purge nothing of what its sessions touched is left, of other sessions
\* neither, if no call came in between and the journal could be written.
HardPurgeForgets ==
  purge.at = "done" /\ purge.hard /\ purge.quiet =>
    /\ purge.all \cap (current \cup awaiting) = {}
    /\ \A r \in DOMAIN events : r[2] \in purge.all => events[r] = 0

\* What the journal tells of a session is true, until it is told to forget.
JournalIsHonest == TheReportIsTrue /\ HardPurgeForgets
=============================================================================
