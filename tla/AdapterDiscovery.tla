---------------------------- MODULE AdapterDiscovery ----------------------------
(***************************************************************************)
(* Which adapter answers for a client's name.  Adapters are plugins that   *)
(* other packages bring along: each process scans the installed ones, lets *)
(* the bundled ones and the whitelisted ones in, and lists, selects and    *)
(* constructs from those.  Packages may be installed and removed while a   *)
(* process, the daemon above all, goes on.                                 *)
(***************************************************************************)
EXTENDS Naturals, Sequences, FiniteSets

CONSTANTS
  Bundled,        \* the adapters of the distribution that is trusted
  ThirdParty,     \* those other packages bring
  Fake,           \* one an embedding program registers itself
  MaxPips         \* bound: packages installed or removed in the life of a process

Plugin == Bundled \cup ThirdParty

\* An adapter: the name of its entry point, the id and the client it claims, where it runs,
\* its place among the adapters of one client (priority, then id), and what becomes of
\* loading it.
Adapters == [name : STRING, id : STRING, client : STRING, boundary : {"local_cli", "api"}, rank : Nat,
             loads : {"ok", "broken", "other contract", "no descriptor"}]

\* "none" stands for no client, and no adapter serves one of that name.
ASSUME DiscoveryAssumption ==
  /\ Plugin \cup {Fake} \subseteq Adapters /\ Bundled \cap ThirdParty = {} /\ MaxPips \in Nat
  /\ Bundled \cap {Fake} = {} /\ ThirdParty \cap {Fake} = {}
  /\ IsFiniteSet(Bundled) /\ \A p \in Plugin \cup {Fake} : p.client # "none"

VARIABLES
  installed,      \* the plugins, in the order of their entry points
  pips,
  process,        \* what runs, see NoProcess
  imported        \* the plugins whose code has run in it

discoveryVars == <<installed, pips, process, imported>>

\* A catalog is scanned when it is first asked; the default one serves for the process.
Unscanned == [scanned |-> FALSE, classes |-> <<>>]

NoProcess == [driver |-> "none", whitelist |-> {}, registry |-> <<>>, default |-> Unscanned,
              at |-> "over", client |-> "none", kind |-> "none", listed |-> <<>>,
              wired |-> <<>>, outcome |-> "none"]

AdaptersIn(list) == {list[i] : i \in DOMAIN list}

\* What is left of a list when only the adapters of a set are kept.
Sieve(list, set) ==
  LET kept[i \in 0..Len(list)] ==
        IF i = 0 THEN <<>> ELSE IF list[i] \in set THEN Append(kept[i - 1], list[i]) ELSE kept[i - 1]
  IN  kept[Len(list)]

\* The bundled adapters in some order.
Shipped == CHOOSE list \in [1..Cardinality(Bundled) -> Bundled] : AdaptersIn(list) = Bundled

DiscoveryInit ==
  /\ installed = Shipped /\ pips = 0 /\ process = NoProcess /\ imported = {}

-----------------------------------------------------------------------------
(* The scan.                                                               *)

\* (mutant) a whitelist opens the gate to every plugin
AnyWhitelist(p, whitelist) == p \in Bundled \/ whitelist # {}
\* Asked before the plugin's code is imported.
IsAllowedToLoad(p, whitelist) == p \in Bundled \/ p.name \in whitelist

Ids(classes) == {classes[i].id : i \in DOMAIN classes}

\* The scan stops at the first plugin that claims an id another has claimed; what was found
\* before it stays with the catalog.
Admitted(i, whitelist) == IsAllowedToLoad(installed[i], whitelist)
Vetted(i, whitelist)   == Admitted(i, whitelist) /\ installed[i].loads = "ok"
Duplicate(whitelist, catalog) ==
  {i \in DOMAIN installed : Vetted(i, whitelist) /\ installed[i].id \in Ids(catalog.classes) \cup
     {installed[k].id : k \in {k \in 1..(i - 1) : Vetted(k, whitelist)}}}
Reached(whitelist, catalog) ==
  {i \in DOMAIN installed : \A d \in Duplicate(whitelist, catalog) : i <= d}
Found(whitelist, catalog) ==
  {installed[i] : i \in {i \in Reached(whitelist, catalog) \ Duplicate(whitelist, catalog) : Vetted(i, whitelist)}}

Loads(whitelist, catalog) ==
  IF catalog.scanned THEN {} ELSE {installed[i] : i \in {i \in Reached(whitelist, catalog) : Admitted(i, whitelist)}}

\* A catalog whose scan raised is scanned again, with what it kept, when it is next asked.
Scan(whitelist, catalog) ==
  IF catalog.scanned THEN catalog
  ELSE [scanned |-> Duplicate(whitelist, catalog) = {},
        classes |-> catalog.classes \o Sieve(installed, Found(whitelist, catalog))]

\* No whitelist: the default catalog.  With one, a catalog of this question's own.
Catalog == IF process.whitelist = {} THEN process.default ELSE Unscanned
Scanned == Scan(process.whitelist, Catalog)
Kept    == IF process.whitelist = {} THEN Scanned ELSE process.default

\* The registry's adapters come last, and are passed over where an id is taken.
Merged(catalog) ==
  catalog.classes \o
    Sieve(process.registry, {p \in AdaptersIn(process.registry) : p.id \notin Ids(catalog.classes)})

ListAdapters == Merged(Scanned)

FindByClientName(listing, client) == Sieve(listing, {p \in AdaptersIn(listing) : p.client = client})

SupportedModes(p) == IF p.boundary = "api" THEN {"api"} ELSE {"local_managed", "local_passthrough"}
PrimaryMode(p)    == IF p.boundary = "api" THEN "api" ELSE "local_managed"

\* The entry points first, then the registry.
Resolve(id) ==
  LET list == IF id \in Ids(Scanned.classes) THEN Scanned.classes ELSE process.registry
  IN  CHOOSE p \in AdaptersIn(list) : p.id = id

-----------------------------------------------------------------------------
(* A process.                                                              *)

Consult(changes) ==
  /\ imported' = imported \cup Loads(process.whitelist, Catalog)
  /\ process' = [changes EXCEPT !.default = Kept]
  /\ UNCHANGED <<installed, pips>>

Conflict == ~Scanned.scanned
Raise(outcome) == [process EXCEPT !.at = "over", !.outcome = outcome]

Client == {p.client : p \in Plugin \cup {Fake}}
SomeWhitelists == {{}} \cup {{p.name} : p \in ThirdParty} \cup {{p.name : p \in ThirdParty}}

\* The command line for one client, the daemon for all.  Only a program that embeds the
\* cache has a registry.
Start ==
  /\ process.at = "over" /\ process.driver = "none"
  /\ \E driver \in {"cli", "daemon"}, whitelist \in SomeWhitelists, registry \in {<<>>, <<Fake>>} :
       process' = [NoProcess EXCEPT !.driver = driver, !.whitelist = whitelist, !.registry = registry,
                                    !.at = IF driver = "cli" THEN "ask" ELSE "wire all"]
  /\ imported' = {} /\ UNCHANGED <<installed, pips>>

\* A command that is over ends its process; the daemon's is ended when it is up.
Stop ==
  /\ process.driver # "none" /\ process.at \in {"over", "up"} /\ process' = NoProcess /\ imported' = {}
  /\ UNCHANGED <<installed, pips>>

\* The kind of a call is that of the first adapter with the client's name.
ExecutionKindFor(client) ==
  LET found == FindByClientName(ListAdapters, client)
  IN IF found = <<>> THEN "none" ELSE PrimaryMode(found[1])

AskKind ==
  /\ process.at = "ask"
  /\ \E client \in Client :
       Consult(IF Conflict THEN Raise("conflict")
                ELSE IF ExecutionKindFor(client) = "none" THEN Raise("unknown")
                ELSE [process EXCEPT !.at = "wire", !.client = client, !.kind = ExecutionKindFor(client)])

\* Among the adapters of the client and the mode, the one of the highest rank.
Select(listing, client, mode) ==
  {p \in AdaptersIn(FindByClientName(listing, client)) :
     /\ mode \in SupportedModes(p)
     /\ \A q \in AdaptersIn(FindByClientName(listing, client)) : mode \in SupportedModes(q) => q.rank <= p.rank}

\* The plugins are looked at once more, for the runner.
WireOne ==
  /\ process.at = "wire"
  /\ LET best == Select(ListAdapters, process.client, process.kind)
     IN Consult(
          IF Conflict THEN Raise("conflict")
          ELSE IF FindByClientName(ListAdapters, process.client) = <<>> THEN Raise("unknown")
          ELSE IF best = {} THEN Raise("unsupported")
          ELSE [process EXCEPT !.at = "over", !.outcome = "runs", !.listed = ListAdapters,
                  !.wired = <<Resolve((CHOOSE p \in best : TRUE).id)>>])

\* The daemon wires every adapter as it starts; of two with one name, the last.
WireAll ==
  /\ process.at = "wire all"
  /\ Consult(IF Conflict THEN Raise("conflict")
              ELSE [process EXCEPT !.at = "up", !.listed = ListAdapters,
                      !.wired = [i \in DOMAIN ListAdapters |-> Resolve(ListAdapters[i].id)]])

\* A request: its kind from the plugins as they are now, its runner from those of the start.
RunRequest ==
  /\ process.driver = "daemon" /\ process.at \in {"up", "ran"}
  /\ \E client \in Client :
       LET runners == FindByClientName(process.wired, client)
           outcome == IF Conflict THEN "conflict"
                      ELSE IF ExecutionKindFor(client) = "none" \/ runners = <<>> THEN "unknown"
                      ELSE IF ExecutionKindFor(client) \in SupportedModes(runners[Len(runners)]) THEN "runs"
                      ELSE "unsupported"
       IN Consult([process EXCEPT !.at = "ran", !.client = client, !.outcome = outcome,
                                   !.kind = IF Conflict THEN "none" ELSE ExecutionKindFor(client)])
RequestEnds ==
  /\ process.at = "ran"
  /\ process' = [process EXCEPT !.at = "up", !.client = "none", !.kind = "none", !.outcome = "none"]
  /\ UNCHANGED <<installed, pips, imported>>

\* doctor: every local adapter there is, looked up once more without the whitelist.
LocalNames == {p.client : p \in {p \in AdaptersIn(ListAdapters) : "local_managed" \in SupportedModes(p)}}

ProbeAll ==
  /\ process.at = "ask"
  /\ imported' = imported \cup Loads(process.whitelist, Catalog) \cup Loads({}, process.default)
  /\ LET default == Scan({}, process.default)
         known   == {p.client : p \in {p \in AdaptersIn(Merged(default)) : "local_managed" \in SupportedModes(p)}}
     IN process' = [process EXCEPT !.at = "over", !.default = default, !.listed = ListAdapters,
                      !.outcome = IF Conflict \/ ~default.scanned THEN "conflict"
                                  ELSE IF LocalNames \subseteq known THEN "probed" ELSE "unknown"]
  /\ UNCHANGED <<installed, pips>>

\* models: a local client of that name relays its own listing.
ListLocalModels ==
  /\ process.at = "ask"
  /\ \E client \in Client, said \in {"absent", "no listing", "failed", "listed"} :
       Consult(IF Conflict THEN Raise("conflict")
                ELSE IF client \in LocalNames THEN Raise(said)
                ELSE [process EXCEPT !.at = "ask provider", !.client = client])

\* Where there is none the plugins are looked at again, for a provider.
ListApiModels ==
  /\ process.at = "ask provider"
  /\ \E said \in {"no listing", "failed", "listed"} :
       Consult(IF Conflict THEN Raise("conflict")
                ELSE IF FindByClientName(ListAdapters, process.client) = <<>> THEN Raise("absent")
                ELSE Raise(said))

Pip ==
  /\ pips < MaxPips /\ pips' = pips + 1
  /\ \E p \in Plugin :
       installed' = IF p \in AdaptersIn(installed) THEN Sieve(installed, Plugin \ {p})
                    ELSE Append(installed, p)
  /\ UNCHANGED <<process, imported>>

DiscoveryNext ==
  \/ Start \/ Stop \/ AskKind \/ WireOne \/ WireAll \/ RunRequest \/ RequestEnds
  \/ ProbeAll \/ ListLocalModels \/ ListApiModels \/ Pip

DiscoverySpec == DiscoveryInit /\ [][DiscoveryNext]_discoveryVars

-----------------------------------------------------------------------------
(* Properties.                                                             *)

DiscoveryTypeOK ==
  /\ AdaptersIn(installed) \subseteq Plugin /\ imported \subseteq Plugin /\ pips \in 0..MaxPips
  /\ process.driver \in {"none", "cli", "daemon"}
  /\ process.at \in {"ask", "ask provider", "wire", "wire all", "up", "ran", "over"}
  /\ AdaptersIn(process.listed) \subseteq Plugin \cup {Fake} /\ AdaptersIn(process.wired) \subseteq Plugin \cup {Fake}
  /\ process.outcome \in {"none", "conflict", "unknown", "unsupported", "runs", "probed",
                          "absent", "no listing", "failed", "listed"}

Runner == IF process.driver = "cli" THEN process.wired[1]
          ELSE LET runners == FindByClientName(process.wired, process.client)
               IN  runners[Len(runners)]

\* No code of a third party's package runs unless it is named in the whitelist, whatever is
\* listed, resolved or probed, and however often (entrypoint_adapter_resolver.py: "resolving
\* one adapter can no longer run the import-time code of every installed plugin").
OnlyVettedCodeRuns ==
  \A p \in imported : p \in Bundled \/ p.name \in process.whitelist

\* What is constructed for an id is what was listed under it, and no listing has two.
ListedIsResolved ==
  /\ \A i, k \in DOMAIN process.listed : process.listed[i].id = process.listed[k].id => i = k
  /\ AdaptersIn(process.wired) \subseteq AdaptersIn(process.listed)

\* The adapter a call runs with is one of the client's that can run it, and the one that
\* selection ranks first, but in a daemon where several share the client's name.
RunnerServesTheCall ==
  process.outcome = "runs" =>
    /\ Runner.client = process.client /\ process.kind \in SupportedModes(Runner)
    /\ \/ Runner \in Select(process.listed, process.client, process.kind)
       \/ process.driver = "daemon" /\ Len(FindByClientName(process.listed, process.client)) > 1

\* doctor comes to an end unless a third party's local adapter is whitelisted: that one it
\* lists but cannot look up.
DoctorEnds ==
  process.outcome = "unknown" /\ process.client = "none" /\ process.listed # <<>> =>
    \E p \in AdaptersIn(process.listed) \cap ThirdParty : p.name \in process.whitelist

\* A name leads to one adapter, and to one that may be run.
NamesLeadToVettedAdapters == OnlyVettedCodeRuns /\ ListedIsResolved /\ RunnerServesTheCall /\ DoctorEnds
=============================================================================
