------------------------------ MODULE StoreQueries ------------------------------
(***************************************************************************)
(* The commands that tell what is stored: list, tags, export, inspect,     *)
(* check and stats.  Each asks several statements, one by one and without  *)
(* a lock or a transaction around them, while calls record, label and      *)
(* back-fill executions and purges take them away.                         *)
(***************************************************************************)
EXTENDS Naturals, FiniteSets

CONSTANTS
  CallKey,        \* execution keys
  JsonInput,      \* those of calls whose input is parsed again on the way out
  MaxRows,        \* bound on the executions of a key
  MaxChanges      \* bound on what happens to the store

ASSUME QueryAssumption ==
  /\ IsFiniteSet(CallKey) /\ JsonInput \subseteq CallKey
  /\ MaxRows \in Nat \ {0} /\ MaxChanges \in Nat

Label == {"keep", "drop"}
Part  == {"in", "out"}
Row   == CallKey \X (1..MaxRows)

VARIABLES
  newest,         \* the current execution of each key (0: none)
  made,           \* how many executions each key has had
  identified,     \* the keys that have an identity row
  labels,         \* the tags of each execution
  documents,      \* the artifact rows: an execution and a part
  intact,         \* those marked STORED
  files,          \* the blobs
  keyLock,        \* what the holder of each key's lock is doing
  changes,
  query           \* the command under way

queryVars == <<newest, made, identified, labels, documents, intact, files, keyLock, changes, query>>
rowVars   == <<newest, made, identified, labels, documents, intact, files, keyLock, changes>>

\* barred, recorded, purged, filled and quiet are history: the executions that had a tag to
\* exclude when an export began, those recorded and the keys purged since, the executions
\* back-filled (ever), whether nothing has happened since.
NoQuery == [kind |-> "none", at |-> "over", include |-> {}, exclude |-> {}, within |-> CallKey,
            todo |-> {}, key |-> 0, row |-> 0, tagsOf |-> 0, tags |-> {}, parts |-> {}, whole |-> {},
            lines |-> {}, skipped |-> {}, found |-> {}, shown |-> {}, bytes |-> 0, outcome |-> "none",
            barred |-> {}, recorded |-> {}, purged |-> {}, filled |-> {}, quiet |-> TRUE]

\* Bound: the store begins with a labelled execution of each key of text, with its input or
\* not.
Stocked == (CallKey \ JsonInput) \X {1}
QueriesInit ==
  /\ made = [k \in CallKey |-> IF k \in JsonInput THEN 0 ELSE 1] /\ newest = made
  /\ identified = CallKey \ JsonInput /\ labels = [r \in Row |-> IF r \in Stocked THEN {"keep"} ELSE {}]
  /\ documents \in {Stocked \X {"out"}, Stocked \X Part} /\ intact = documents /\ files = documents
  /\ keyLock = [k \in CallKey |-> "free"] /\ changes = 0 /\ query = NoQuery

-----------------------------------------------------------------------------
(* What happens to the store meanwhile.                                    *)

\* Bound: a command that is over is forgotten before anything else happens.
InTime == query.at # "over" \/ query.kind = "none"
Happen(k, lock) ==
  /\ InTime
  /\ keyLock' = [keyLock EXCEPT ![k] = lock]
  /\ query' = [query EXCEPT !.quiet = FALSE]
Count == InTime /\ changes < MaxChanges /\ changes' = changes + 1

CurrentRow(k) == <<k, newest[k]>>
Shown(k)   == newest[k] > 0

\* A run is current once all its documents are stored; the one before it no longer is.
RecordRow(k) ==
  /\ Count /\ keyLock[k] = "free" /\ made[k] < MaxRows
  /\ made' = [made EXCEPT ![k] = @ + 1] /\ newest' = [newest EXCEPT ![k] = made[k] + 1]
  /\ \E parts \in {{"out"}, Part} :
       LET new == {<<k, made[k] + 1>>} \X parts
       IN documents' = documents \cup new /\ intact' = intact \cup new /\ files' = files \cup new
  /\ identified' = identified \cup {k}
  /\ query' = [query EXCEPT !.quiet = FALSE, 
                            !.recorded = IF query.kind = "export" THEN @ \cup {<<k, made[k] + 1>>} ELSE {}]
  /\ UNCHANGED <<labels, keyLock>>

\* Tags go to the execution that is current, without the key's lock when a hit brings them.
AddTag(k, label) ==
  /\ Count /\ Shown(k) /\ label \notin labels[CurrentRow(k)]
  /\ labels' = [labels EXCEPT ![CurrentRow(k)] = @ \cup {label}]
  /\ Happen(k, keyLock[k]) /\ UNCHANGED <<newest, made, identified, documents, intact, files>>

\* A hit that wants its input kept: the rows first, then the blob, then the mark.
FillRow(k) ==
  /\ Count /\ keyLock[k] = "free" /\ Shown(k) /\ <<CurrentRow(k), "in">> \notin documents
  /\ documents' = documents \cup {<<CurrentRow(k), "in">>}
  /\ keyLock' = [keyLock EXCEPT ![k] = "put"]
  /\ query' = [query EXCEPT !.quiet = FALSE, !.filled = @ \cup {CurrentRow(k)}]
  /\ UNCHANGED <<newest, made, identified, labels, intact, files>>
PutInput(k) ==
  /\ keyLock[k] = "put"
  /\ \/ files' = files \cup {<<CurrentRow(k), "in">>} /\ Happen(k, "mark")
     \/ UNCHANGED files /\ Happen(k, "free")
  /\ UNCHANGED <<newest, made, identified, labels, documents, intact, changes>>
MarkInput(k) ==
  /\ keyLock[k] = "mark" /\ Happen(k, "free")
  /\ intact' \in {intact, intact \cup {<<CurrentRow(k), "in">>}}
  /\ UNCHANGED <<newest, made, identified, labels, documents, files, changes>>

OfKey(k, docs) == {d \in docs : d[1][1] = k}

\* The rows in one transaction, then blob after blob.  A hard purge forgets tags and identity.
PurgeKey(k) ==
  /\ Count /\ keyLock[k] = "free" /\ k \in identified
  /\ newest' = [newest EXCEPT ![k] = 0]
  /\ documents' = documents \ OfKey(k, documents) /\ intact' = intact \ OfKey(k, intact)
  /\ \/ UNCHANGED <<identified, labels>>
     \/ /\ identified' = identified \ {k}
        /\ labels' = [r \in Row |-> IF r[1] = k THEN {} ELSE labels[r]]
  /\ keyLock' = [keyLock EXCEPT ![k] = IF OfKey(k, files) = {} THEN "free" ELSE "purge"]
  /\ query' = [query EXCEPT !.quiet = FALSE, !.purged = @ \cup {k}]
  /\ UNCHANGED <<made, files>>
PurgeFile(d) ==
  /\ keyLock[d[1][1]] = "purge" /\ files' = files \ {d}
  /\ Happen(d[1][1], IF OfKey(d[1][1], files) = {d} THEN "free" ELSE "purge")
  /\ UNCHANGED <<newest, made, identified, labels, documents, intact, changes>>

-----------------------------------------------------------------------------
(* The commands.                                                           *)

Becomes(changed) == query' = changed /\ UNCHANGED rowVars
EndsAs(outcome) == [query EXCEPT !.at = "over", !.outcome = outcome]
\* The next key; what was read of this one is forgotten.
OnWith(lines, skipped) ==
  [query EXCEPT !.at = "next", !.key = 0, !.row = 0, !.tagsOf = 0, !.tags = {}, !.parts = {}, !.whole = {},
                !.lines = lines, !.skipped = skipped]

Begin(kind, at) == [NoQuery EXCEPT !.kind = kind, !.at = at, !.filled = query.filled]
Free == query.kind = "none"
ForgetQuery == query.kind # "none" /\ query.at = "over" /\ Becomes([NoQuery EXCEPT !.filled = query.filled])

\* list and export take tags to include and to exclude; list also those of sessions, whose
\* keys the journal names (none, when it cannot be read).  tags counts the tags of what list
\* lists.
TagCounts == [label \in Label |-> Cardinality({line \in query.lines : label \in line.tags})]
Filters == {[include |-> {}, exclude |-> {}], [include |-> {"keep"}, exclude |-> {"drop"}]}
StartList ==
  /\ Free /\ \E f \in Filters, journaled \in {{}, CallKey} :
       /\ f.include = {} \/ journaled = CallKey
       /\ Becomes([Begin("list", "summaries") EXCEPT !.include = f.include, !.exclude = f.exclude,
                                                  !.within = journaled])
StartExport ==
  /\ Free /\ \E f \in Filters :
       Becomes([Begin("export", "summaries") EXCEPT !.include = f.include, !.exclude = f.exclude,
                                                !.barred = {r \in Row : labels[r] \cap f.exclude # {}}])
StartStats == Free /\ Becomes(Begin("stats", "summaries"))
\* inspect asks for the keys with a prefix, check for the one key of its call.
StartInspect ==
  Free /\ \E keys \in SUBSET CallKey : Becomes([Begin("inspect", "match") EXCEPT !.within = keys])
StartCheck ==
  Free /\ \E k \in CallKey : Becomes([Begin("check", "match") EXCEPT !.within = {k}])

Summaries == {k \in CallKey : Shown(k)}

Summarise ==
  /\ query.at = "summaries"
  /\ Becomes([query EXCEPT !.todo = IF query.kind = "stats" THEN {} ELSE Summaries,
                       !.shown = IF query.kind = "stats" THEN Summaries ELSE {},
                       !.at = IF query.kind = "stats" THEN "total" ELSE "next"])

\* stats: the bytes of the documents of what is current by now.
TotalStoredBytes ==
  /\ query.at = "total"
  /\ Becomes([EndsAs("done") EXCEPT !.bytes = Cardinality({d \in documents : d[1] = CurrentRow(d[1][1])})])

\* tags_for: the current execution, then its tags.
NextSummary(k) ==
  /\ query.at = "next" /\ k \in query.todo
  /\ Becomes([query EXCEPT !.at = "tags", !.todo = @ \ {k}, !.key = k, !.tagsOf = newest[k]])
NoMoreSummaries == query.at = "next" /\ query.todo = {} /\ Becomes(EndsAs("done"))

\* (mutant) a tag to include wins over one to exclude
IncludeWins(tags) == query.include \cap tags # {} \/ (query.include = {} /\ query.exclude \cap tags = {})
Passes(tags) == (query.include = {} \/ query.include \cap tags # {}) /\ query.exclude \cap tags = {}

TagsFor ==
  /\ query.at = "tags"
  /\ LET tags == IF query.tagsOf = 0 THEN {} ELSE labels[<<query.key, query.tagsOf>>]
         line == [key |-> query.key, tags |-> tags, tagsOf |-> query.tagsOf,
                  row |-> 0, whole |-> {}]
     IN Becomes(IF ~Passes(tags) \/ query.key \notin query.within THEN OnWith(query.lines, query.skipped)
            ELSE IF query.kind = "export" THEN [query EXCEPT !.at = "find", !.tags = tags]
            ELSE OnWith(query.lines \cup {line}, query.skipped))

Skip == OnWith(query.lines, query.skipped \cup {query.key})

\* find_current: the row, then its artifacts and identity.
FindRow ==
  /\ query.at = "find"
  /\ Becomes(IF Shown(query.key) THEN [query EXCEPT !.at = "load", !.row = newest[query.key]] ELSE Skip)

PartsOf(row) == {p \in Part : <<row, p>> \in documents}

LoadRow ==
  /\ query.at = "load"
  /\ LET parts == PartsOf(<<query.key, query.row>>)
     IN Becomes(IF query.key \notin identified THEN EndsAs("corrupt")
            ELSE IF "in" \notin parts THEN Skip
            ELSE [query EXCEPT !.at = "blobs", !.parts = parts, !.whole = {}])

\* Every document's blob, the output's first, of any status; one that is not there reads as empty, which does
\* not parse where parsing is asked for.
CompleteLine == [key |-> query.key, tags |-> query.tags, tagsOf |-> query.tagsOf, row |-> query.row,
         whole |-> query.whole]
ReadPart(part) ==
  /\ query.at = "blobs" /\ part \in query.parts /\ (part = "out" \/ "out" \notin query.parts)
  /\ LET there == <<<<query.key, query.row>>, part>> \in files
     IN Becomes(IF ~there /\ part = "in" /\ query.key \in JsonInput THEN EndsAs("crashed")
            ELSE [query EXCEPT !.parts = @ \ {part}, !.whole = IF there THEN @ \cup {part} ELSE @])
ExportLine ==
  /\ query.at = "blobs" /\ query.parts = {}
  /\ Becomes(OnWith(query.lines \cup {CompleteLine}, query.skipped))

Match ==
  /\ query.at = "match"
  /\ Becomes([query EXCEPT !.at = "matched", !.found = {CurrentRow(k) : k \in {k \in query.within : Shown(k)}},
                       !.todo = {k \in query.within : Shown(k)}])
LoadMatch(row) ==
  /\ query.at = "matched" /\ row \in query.found
  /\ Becomes(IF row[1] \notin identified THEN EndsAs("corrupt")
         ELSE [query EXCEPT !.found = @ \ {row},
                 !.shown = @ \cup {[row |-> row, part |-> p, intact |-> <<row, p>> \in intact,
                                    there |-> <<row, p>> \in files] : p \in PartsOf(row)}])
ShowMatch ==
  /\ query.at = "matched" /\ query.found = {}
  /\ Becomes(EndsAs(CASE query.todo = {} -> "none" [] Cardinality(query.todo) > 1 -> "ambiguous"
                [] OTHER -> "done"))

QueriesNext ==
  \/ \E k \in CallKey : RecordRow(k) \/ FillRow(k) \/ PutInput(k) \/ MarkInput(k) \/ PurgeKey(k)
  \/ \E k \in CallKey, label \in Label : AddTag(k, label)
  \/ \E d \in files : PurgeFile(d)
  \/ StartList \/ StartExport \/ StartStats \/ StartInspect \/ StartCheck
  \/ Summarise \/ TotalStoredBytes \/ NoMoreSummaries \/ TagsFor \/ FindRow \/ LoadRow
  \/ \E k \in CallKey : NextSummary(k)
  \/ \E part \in Part : ReadPart(part)
  \/ ForgetQuery \/ ExportLine \/ Match \/ ShowMatch
  \/ \E row \in query.found : LoadMatch(row)

QueriesSpec == QueriesInit /\ [][QueriesNext]_queryVars

-----------------------------------------------------------------------------
(* Properties.                                                             *)

QueriesTypeOK ==
  /\ newest \in [CallKey -> 0..MaxRows] /\ made \in [CallKey -> 0..MaxRows]
  /\ identified \subseteq CallKey /\ labels \in [Row -> SUBSET Label]
  /\ documents \subseteq Row \X Part /\ intact \subseteq documents /\ files \subseteq Row \X Part
  /\ keyLock \in [CallKey -> {"free", "put", "mark", "purge"}] /\ changes \in 0..MaxChanges
  /\ query.kind \in {"none", "list", "export", "stats", "inspect", "check"}
  /\ query.at \in {"over", "summaries", "total", "next", "tags", "find", "load", "blobs", "match", "matched"}
  /\ query.outcome \in {"none", "done", "ambiguous", "corrupt", "crashed"}

Exported == IF query.kind = "export" THEN query.lines ELSE {}

\* Curation is the user's, by tags, and a tag to exclude wins (data-handling.md): what has
\* such a tag when the export begins is not exported, whatever happens while it goes on,
\* and a record is the execution whose tags were looked at, or one recorded since.
ExportHonoursTags ==
  \A line \in Exported :
    /\ <<line.key, line.row>> \notin query.barred
    /\ line.row = line.tagsOf \/ <<line.key, line.row>> \in query.recorded

\* A record has all of its input and output but where a purge took the key meanwhile or
\* its input came later, by a back-fill; nothing else that callers do to the store makes
\* export fail (a token that is missing, a disk that does not answer are not callers).
ExportIsWhole ==
  /\ \A line \in Exported : \/ line.whole = Part \/ line.key \in query.purged
                            \/ line.whole = {"out"} /\ <<line.key, line.row>> \in query.filled
  /\ query.outcome = "crashed" =>
       \E k \in JsonInput : k \in query.purged \/ \E r \in query.filled : r[1] = k
  /\ query.outcome = "corrupt" => query.purged # {}

\* What inspect and check show as stored is there, unless it is being purged.
ShownIsThere ==
  query.kind \in {"inspect", "check"} =>
    \A doc \in query.shown : doc.intact => doc.there \/ doc.row[1] \in query.purged

\* A command beside which nothing happens tells what is there: no execution is left out,
\* told twice or told with another's tags, and only what has no input is skipped.
Tagged(k) == /\ query.include # {} => \E label \in query.include : label \in labels[CurrentRow(k)]
             /\ \A label \in query.exclude : label \notin labels[CurrentRow(k)]
QuietQueriesAgree ==
  query.quiet /\ query.outcome = "done" =>
    LET there == {k \in Summaries : Tagged(k)} \cap IF query.kind = "list" THEN query.within ELSE CallKey
        full  == {k \in there : <<CurrentRow(k), "in">> \in documents}
    IN CASE query.kind = "export"  -> /\ {line.key : line \in query.lines} = full
                                      /\ query.skipped = there \ full
         [] query.kind = "list"    ->
              /\ {<<line.key, line.tags>> : line \in query.lines} = {<<k, labels[CurrentRow(k)]>> : k \in there}
              /\ \A label \in Label : TagCounts[label] = Cardinality({k \in there : label \in labels[CurrentRow(k)]})
         [] query.kind \in {"inspect", "check"} -> {doc.row[1] : doc \in query.shown} = Summaries \cap query.within
         [] OTHER                  -> query.bytes >= Cardinality(query.shown)

\* What the commands tell of the store is so.
QueriesTellTheStore == ExportHonoursTags /\ ExportIsWhole /\ ShownIsThere /\ QuietQueriesAgree
=============================================================================
