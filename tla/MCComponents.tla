----------------------------- MODULE MCComponents -----------------------------
(***************************************************************************)
(* The components that share no variable with one another, in one run for  *)
(* TLC: `focus` picks the component a behaviour is about, and the others   *)
(* stay as they begin.                                                     *)
(***************************************************************************)
EXTENDS StoreEncryption, SchemaMigration, DetachedJobs, ClientProcess, HttpRetry,
        DaemonJobs, QuotaEviction, SessionJournal, RunCommand, ClientDialects,
        CallIdentity, Gateway, AdapterDiscovery, StoreQueries

CONSTANTS b1, b2, q1, q2, w1, w2, j1, j2, p1

VARIABLE focus

\* A build that ships one migration file, and the next one, which ships two.
OldAndNew == [p \in Build |-> IF p = b1 THEN 1 ELSE 2]

\* A small entry and a large one.
OneAndTwo == [k \in Entry |-> IF k = w1 THEN 1 ELSE 2]

\* Callers who open no door, one of them, or all.
SomeGrants == {{}, {"net"}, {"web-search"}, GRANTS}

\* Calls that differ in one respect, in pairs that are taken for the same and not.
PlainCall == [kind |-> "local_managed", model |-> "m", system |-> "none", documents |-> {}, folders |-> {},
              scan_trust |-> FALSE, args |-> <<>>, grants |-> {}, native |-> <<>>,
              cwd |-> "home", headers |-> {}, meter |-> FALSE]
SomeCalls ==
  {[PlainCall EXCEPT !.documents = {p1}], [PlainCall EXCEPT !.documents = {p1}, !.system = ""],
   [PlainCall EXCEPT !.grants = {"net"}], [PlainCall EXCEPT !.args = <<"">>],
   [PlainCall EXCEPT !.folders = {<<"docs">>, <<"src">>}, !.scan_trust = TRUE],
   [PlainCall EXCEPT !.folders = {<<"docs", "src">>}, !.scan_trust = TRUE],
   [PlainCall EXCEPT !.folders = {<<"docs">>}],
   [PlainCall EXCEPT !.folders = {<<"docs">>}, !.scan_trust = TRUE],
   [PlainCall EXCEPT !.kind = "api"], [PlainCall EXCEPT !.kind = "api_passthrough", !.native = <<"body">>],
   [PlainCall EXCEPT !.kind = "api_passthrough", !.native = <<"body">>, !.headers = {"beta"}],
   [PlainCall EXCEPT !.kind = "local_passthrough"],
   [PlainCall EXCEPT !.kind = "local_passthrough", !.cwd = "project"],
   [PlainCall EXCEPT !.kind = "local_passthrough", !.native = <<"">>]}

\* A local client and a provider that are bundled; a plugin with a client of its own, one
\* that claims a bundled id, one that claims a bundled client, one of another contract.
Declared(name, serves, id, boundary, rank, loads) ==
  [name |-> name, client |-> serves, id |-> id, boundary |-> boundary, rank |-> rank, loads |-> loads]
TwoBundled == {Declared("claude", "claude", "claude.cli", "local_cli", 0, "ok"),
               Declared("openai", "openai", "openai.api", "api", 0, "ok")}
FourOthers == {Declared("acme", "acme", "acme.cli", "local_cli", 0, "ok"),
               Declared("twin", "claude", "claude.cli", "local_cli", 0, "ok"),
               Declared("rival", "claude", "claude.api", "api", 1, "ok"),
               Declared("old", "old", "old.cli", "local_cli", 0, "other contract")}
FakeClaude == Declared("fake", "claude", "claude.cli", "local_cli", 0, "ok")

Component == {"encryption", "schema", "jobs", "client", "http", "daemon", "quota",
              "journal", "command", "dialect", "identity", "gateway", "discovery",
              "queries"}

Init ==
  /\ focus \in Component
  /\ EncInit /\ SchemaInit /\ JobsInit /\ ClientInit /\ HttpInit
  /\ RegistryInit /\ QuotaInit /\ JournalInit /\ CommandInit
  /\ DialectInit /\ IdentityInit /\ GatewayInit /\ DiscoveryInit /\ QueriesInit
  \* Only the component a behaviour is about begins in all of its ways.
  /\ focus = "schema" \/ (pragma = 0 /\ ~versionTable)
  /\ focus = "http" \/ api = "stub-api"
  /\ focus = "queries" \/ documents = Stocked \X {"out"}

Others(component) ==
  /\ focus = component /\ UNCHANGED focus
  /\ component = "encryption" \/ UNCHANGED encVars
  /\ component = "schema"     \/ UNCHANGED schemaVars
  /\ component = "jobs"       \/ UNCHANGED jobVars
  /\ component = "client"     \/ UNCHANGED clientVars
  /\ component = "http"       \/ UNCHANGED httpVars
  /\ component = "daemon"     \/ UNCHANGED registryVars
  /\ component = "quota"      \/ UNCHANGED quotaVars
  /\ component = "journal"    \/ UNCHANGED journalVars
  /\ component = "command"    \/ UNCHANGED cmdVars
  /\ component = "dialect"    \/ UNCHANGED dialectVars
  /\ component = "identity"   \/ UNCHANGED identityVars
  /\ component = "gateway"    \/ UNCHANGED gatewayVars
  /\ component = "discovery"  \/ UNCHANGED discoveryVars
  /\ component = "queries"    \/ UNCHANGED queryVars

Next ==
  \/ Others("encryption") /\ EncNext
  \/ Others("schema")     /\ SchemaNext
  \/ Others("jobs")       /\ JobsNext
  \/ Others("client")     /\ ClientNext
  \/ Others("http")       /\ HttpNext
  \/ Others("daemon")     /\ RegistryNext
  \/ Others("quota")      /\ QuotaNext
  \/ Others("journal")    /\ JournalNext
  \/ Others("command")    /\ CommandNext
  \/ Others("dialect")    /\ DialectNext
  \/ Others("identity")   /\ IdentityNext
  \/ Others("gateway")    /\ GatewayNext
  \/ Others("discovery")  /\ DiscoveryNext
  \/ Others("queries")    /\ QueriesNext

vars == <<focus, encVars, schemaVars, jobVars, clientVars, httpVars, registryVars,
          quotaVars, journalVars, cmdVars, dialectVars, identityVars, gatewayVars,
          discoveryVars, queryVars>>

\* The fairness of each component, in the behaviours that are about it.
Fairness ==
  /\ WF_jobVars(focus = "jobs" /\ WorkerStep)
  /\ \A r \in Reader : WF_jobVars(focus = "jobs" /\ ReaderStep(r))
  /\ WF_clientVars(focus = "client" /\ CallStep)
  /\ WF_clientVars(focus = "client" /\ ObeyTerm)
  /\ WF_registryVars(focus = "daemon" /\ TakeJob)
  /\ \A j \in Job : WF_registryVars(focus = "daemon" /\ PoolStep(j))
  /\ WF_quotaVars(focus = "quota" /\ LoopStep)

Spec == Init /\ [][Next]_vars /\ Fairness

\* Each component's type invariant, where the component has moved.
TypeOK ==
  CASE focus = "encryption" -> EncTypeOK
    [] focus = "schema"     -> SchemaTypeOK
    [] focus = "jobs"       -> JobsTypeOK
    [] focus = "client"     -> ClientTypeOK
    [] focus = "http"       -> HttpTypeOK
    [] focus = "daemon"     -> RegistryTypeOK
    [] focus = "quota"      -> QuotaTypeOK
    [] focus = "journal"    -> JournalTypeOK
    [] focus = "command"    -> CommandTypeOK
    [] focus = "dialect"    -> DialectTypeOK
    [] focus = "identity"   -> IdentityTypeOK
    [] focus = "gateway"    -> GatewayTypeOK
    [] focus = "discovery"  -> DiscoveryTypeOK
    [] focus = "queries"    -> QueriesTypeOK
=============================================================================
