----------------------------- MODULE CallIdentity -----------------------------
(***************************************************************************)
(* Which calls are the same call.  A call is reduced to an identity whose  *)
(* texts and declared files are fingerprinted, the identity to a key, and  *)
(* whatever is stored under that key is served.  The files are fingerprint-*)
(* ed before the client reads them, and their owner may edit them at any   *)
(* time.  How one key is recorded once is RecordReplay's matter: here a    *)
(* caller that misses holds its key until it is done.                      *)
(***************************************************************************)
EXTENDS Naturals, Sequences, FiniteSets

CONSTANTS
  Caller,
  CallsMade,        \* the calls that are made
  Document,       \* input files
  MaxEdits        \* bound: edits of input files

\* A folder a call may scan: the parts of its name between commas, for the key joins the
\* names of the folders with commas, in their order.
Folders == <<<<"docs">>, <<"docs", "src">>, <<"src">>>>
Folder  == {Folders[i] : i \in DOMAIN Folders}

Kind == {"local_managed", "local_passthrough", "api", "api_passthrough"}

\* A call, as far as the calls that are made differ: "" is an empty argument and an empty
\* system prompt, native the arguments of a passthrough or the body of a relayed request,
\* cwd where a passthrough's client runs, headers what a relay forwards upstream.
Calls == [kind : Kind, model : STRING, system : {"none", "", "terse"}, documents : SUBSET Document,
          folders : SUBSET Folder, scan_trust : BOOLEAN, args : Seq(STRING), grants : SUBSET {"net", "read"},
          native : Seq(STRING), cwd : STRING, headers : SUBSET STRING, meter : BOOLEAN]

ASSUME IdentityAssumption == CallsMade \subseteq Calls /\ MaxEdits \in Nat

VARIABLES
  edition,        \* of each input file
  caller,         \* each caller: what it does next, its call, and the editions it found
  entries         \* by key: the stored identity, the call behind it and the editions its
                  \* client read

identityVars == <<edition, caller, entries>>

NoCall == [at |-> "idle", call |-> "none", found |-> <<>>, outcome |-> "none", served |-> "none"]

IdentityTypeOK ==
  /\ edition \in [Document -> 0..MaxEdits]
  /\ \A c \in Caller :
       /\ caller[c].at \in {"idle", "fingerprint", "keyed", "run", "over"}
       /\ caller[c].outcome \in {"none", "refused", "hit", "recorded", "bypassed",
                                 "probed_hit", "probed_miss", "probed_non_cacheable"}
       /\ caller[c].at # "idle" => caller[c].call \in CallsMade
       /\ DOMAIN caller[c].found \subseteq Document
  /\ \A key \in DOMAIN entries : entries[key].call \in CallsMade

IdentityInit ==
  /\ edition = [d \in Document |-> 0] /\ caller = [c \in Caller |-> NoCall] /\ entries = <<>>

-----------------------------------------------------------------------------
(* The identity and its key.                                               *)

\* Arguments are joined before they are hashed: none at all read like one empty argument.
FingerprintArguments(args) == IF args = <<>> THEN <<"">> ELSE args

\* An optional text is left out of the identity when it is empty.
Optional(name, text) == IF text \in {"none", ""} THEN {} ELSE {<<name, text>>}

\* (mutant) a declared file enters the key by its name alone
FileNames(found) == {<<"file", d>> : d \in DOMAIN found}
FileFingerprints(found) == {<<"file", d, found[d]>> : d \in DOMAIN found}

Managed(call, found) ==
  [kind |-> "local_managed", model |-> call.model, files |-> FileFingerprints(found),
   args |-> IF call.args = <<>> THEN <<>> ELSE FingerprintArguments(call.args),
   system |-> Optional("system", call.system), grants |-> call.grants, folders |-> call.folders]

BuildIdentity(call, found) ==
  CASE call.kind = "local_managed" -> Managed(call, found)
    [] call.kind = "api" ->
         [kind |-> call.kind, model |-> call.model, system |-> Optional("system", call.system)]
    [] call.kind = "local_passthrough" -> [kind |-> call.kind, native |-> FingerprintArguments(call.native)]
    [] call.kind = "api_passthrough" -> [kind |-> call.kind, native |-> call.native]

\* The key hashes pairs of a name and a text, in the order of the names; a set of folders
\* is one text.
JoinFolders(folders) ==
  LET part(i) == IF Folders[i] \in folders THEN Folders[i] ELSE <<>>
  IN  part(1) \o part(2) \o part(3)
GenerateKey(identity) ==
  IF identity.kind # "local_managed" THEN identity
  ELSE [identity EXCEPT !.folders = JoinFolders(@)]

\* The identity is stored as text, its sets as lists, and read back field by field.
Elements(list) == {list[i] : i \in DOMAIN list}
Jsonable(set)  == CHOOSE list \in [1..Cardinality(set) -> set] : Elements(list) = set
Serialize(identity) ==
  IF identity.kind # "local_managed" THEN identity
  ELSE [identity EXCEPT !.folders = Jsonable(@), !.grants = Jsonable(@)]
Deserialize(row) ==
  IF row.kind # "local_managed" THEN row
  ELSE [row EXCEPT !.folders = Elements(@), !.grants = Elements(@)]

\* A call that scans folders cannot be keyed by what they hold, unless its caller vouches
\* for them.
IsUncacheable(call) == call.kind = "local_managed" /\ call.folders # {} /\ ~call.scan_trust

-----------------------------------------------------------------------------

KeyOf(c) == GenerateKey(BuildIdentity(caller[c].call, caller[c].found))

Change(c, changes) == caller' = [caller EXCEPT ![c] = changes]
End(c, outcome)  == Change(c, [caller[c] EXCEPT !.at = "over", !.outcome = outcome])

MakeCall(c) ==
  /\ caller[c].at = "idle"
  /\ \E call \in CallsMade : Change(c, [NoCall EXCEPT !.at = "fingerprint", !.call = call])
  /\ UNCHANGED <<edition, entries>>

\* The declared files one by one; one that is not there refuses the call.
ToFingerprint(c) ==
  (IF caller[c].call.kind = "local_managed" THEN caller[c].call.documents ELSE {})
    \ DOMAIN caller[c].found
Fingerprint(c) ==
  /\ caller[c].at = "fingerprint"
  /\ IF ToFingerprint(c) = {} THEN Change(c, [caller[c] EXCEPT !.at = "keyed"])
     ELSE \E d \in ToFingerprint(c) :
            \/ Change(c, [caller[c] EXCEPT !.found = [x \in DOMAIN @ \cup {d} |-> IF x = d THEN edition[d] ELSE @[x]]])
            \/ End(c, "refused")
  /\ UNCHANGED <<edition, entries>>

\* A forecast takes the same way to the key and changes nothing.
ProbeKey(c) ==
  /\ caller[c].at = "keyed" /\ caller[c].call.kind = "local_managed"
  /\ End(c, IF IsUncacheable(caller[c].call) THEN "probed_non_cacheable"
            ELSE IF KeyOf(c) \in DOMAIN entries THEN "probed_hit" ELSE "probed_miss")
  /\ UNCHANGED <<edition, entries>>

Bypasses(c) == IsUncacheable(caller[c].call) \/ caller[c].call.meter

ServeStored(c) ==
  /\ caller[c].at = "keyed" /\ ~Bypasses(c) /\ KeyOf(c) \in DOMAIN entries
  /\ Change(c, [caller[c] EXCEPT !.at = "over", !.outcome = "hit", !.served = entries[KeyOf(c)]])
  /\ UNCHANGED <<edition, entries>>

StartRun(c) ==
  /\ caller[c].at = "keyed"
  /\ \/ Bypasses(c)
     \/ /\ KeyOf(c) \notin DOMAIN entries
        /\ \A other \in Caller : caller[other].at = "run" /\ ~Bypasses(other) => KeyOf(other) # KeyOf(c)
  /\ Change(c, [caller[c] EXCEPT !.at = "run"])
  /\ UNCHANGED <<edition, entries>>

\* The client reads the files as they are now.
EntryOf(c) ==
  LET found == caller[c].found
  IN  [row |-> Serialize(BuildIdentity(caller[c].call, found)), call |-> caller[c].call,
       read |-> [d \in DOMAIN found |-> edition[d]], edited |-> \E d \in DOMAIN found : edition[d] # found[d]]
Run(c) ==
  /\ caller[c].at = "run"
  /\ IF Bypasses(c)
       THEN End(c, "bypassed") /\ UNCHANGED entries
       ELSE /\ End(c, "recorded")
            /\ entries' = [key \in DOMAIN entries \cup {KeyOf(c)} |->
                             IF key = KeyOf(c) THEN EntryOf(c) ELSE entries[key]]
  /\ UNCHANGED edition

Edit(d) ==
  /\ edition[d] < MaxEdits /\ edition' = [edition EXCEPT ![d] = @ + 1]
  /\ UNCHANGED <<caller, entries>>

IdentityNext ==
  \/ \E c \in Caller : MakeCall(c) \/ Fingerprint(c) \/ ProbeKey(c) \/ ServeStored(c) \/ StartRun(c) \/ Run(c)
  \/ \E d \in Document : Edit(d)

IdentitySpec == IdentityInit /\ [][IdentityNext]_identityVars

-----------------------------------------------------------------------------
(* Properties.                                                             *)

\* What a client makes of a call: all that its kind ever shows it.
Meaning(call) ==
  CASE call.kind = "local_managed" ->
         [kind |-> call.kind, model |-> call.model, system |-> Optional("system", call.system),
          documents |-> call.documents, folders |-> call.folders, args |-> call.args, grants |-> call.grants]
    [] call.kind = "api" ->
         [kind |-> call.kind, model |-> call.model, system |-> Optional("system", call.system)]
    [] call.kind = "local_passthrough" -> [kind |-> call.kind, native |-> call.native, cwd |-> call.cwd]
    [] call.kind = "api_passthrough" ->
         [kind |-> call.kind, native |-> call.native, headers |-> call.headers]

\* Four pairs of calls share a key although they differ: folders whose names hold a comma,
\* a passthrough without arguments with one whose argument is empty, a passthrough with
\* the same in another directory, and a relayed body with the same under other headers.
Confusable(a, b) ==
  \/ /\ a.kind = "local_managed" /\ a.folders # b.folders
     /\ Meaning([a EXCEPT !.folders = {}]) = Meaning([b EXCEPT !.folders = {}])
     /\ UNION {Elements(f) : f \in a.folders} = UNION {Elements(f) : f \in b.folders}
  \/ /\ a.kind = "local_passthrough" /\ b.kind = "local_passthrough"
     /\ {a.native, b.native} = {<<>>, <<"">>} \/ (a.native = b.native /\ a.cwd # b.cwd)
  \/ /\ a.kind = "api_passthrough" /\ b.kind = "api_passthrough"
     /\ a.native = b.native /\ a.headers # b.headers

\* Whoever is served gets the answer of a call that means the same, from a client that
\* read the very editions this caller has just fingerprinted, unless the recording
\* caller's files were edited between their fingerprint and the run
\* (managed_call_identity.py: "prefer a miss to a wrong hit"); but for the confusions above.
AnswerFitsTheCall ==
  \A c \in Caller : caller[c].outcome = "hit" =>
    LET served == caller[c].served
    IN /\ Meaning(served.call) = Meaning(caller[c].call) \/ Confusable(served.call, caller[c].call)
       /\ served.read = caller[c].found \/ served.edited
       /\ served.call.kind = "local_managed" /\ served.call.folders # {} => served.call.scan_trust

\* What is stored of an identity is enough to find its key again, whatever becomes of the
\* call (identity_codec.py: a dropped field corrupts the key).
KeySurvivesStorage == \A key \in DOMAIN entries : GenerateKey(Deserialize(entries[key].row)) = key

\* A stored answer is found by the calls it answers and by no other.
HitsAreSound == AnswerFitsTheCall /\ KeySurvivesStorage
=============================================================================
