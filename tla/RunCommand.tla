------------------------------ MODULE RunCommand ------------------------------
(***************************************************************************)
(* gmlcache run: the settings are resolved from flags, the environment and *)
(* the config file, the resolved call is executed at once or written down  *)
(* for a detached worker that executes it later, and what came of it is    *)
(* told by the exit code.  The config file may be edited in between.       *)
(***************************************************************************)
EXTENDS Naturals

VARIABLES
  args,           \* the command line
  env,            \* GMLCACHE_MODE ("bad": it, or GMLCACHE_TIMEOUT, is refused)
  configFile,     \* the config file
  cmdAt,          \* what the command does next
  spec,           \* the resolved call
  entry,          \* whether the store holds a current execution of the call
  clientRan,      \* whether the real client was started
  exitCode,       \* of the command, or of the worker
  askedOffline    \* history: the user's settings asked for a call without the client

cmdVars == <<args, env, configFile, cmdAt, spec, entry, clientRan, exitCode, askedOffline>>

Mode    == {"cache", "offline", "refresh"}
\* A value may be missing, empty, one that is refused (as an empty mode in the file is),
\* or a good one.
EnvMode  == {"unset", "empty", "bad", "cache", "offline"}
FileMode == {"unset", "bad", "offline", "refresh"}
FileNum  == {"unset", "empty", "bad"}

Args == [mode : {"unset", "cache"}, offline : BOOLEAN, force : BOOLEAN, detach : BOOLEAN]
\* A value may hold a lone %, under a key that validate reads as well (mode, a number) or
\* under one that only loading reads (store, log_file, adapters, an executable).
Percent == {"none", "checked", "unchecked"}
File == [kind : {"plain"}, mode : FileMode, number : FileNum,
         adapters : {"unset", "empty", "others"}, percent : Percent]
\* No file, or one that is not INI.
NoFile == [kind |-> "missing", mode |-> "unset", number |-> "unset", adapters |-> "unset",
           percent |-> "none"]
Broken == [NoFile EXCEPT !.kind = "broken"]

NoSpec == [mode |-> "none", known |-> FALSE]

CommandTypeOK ==
  /\ args \in Args /\ configFile \in File \cup {NoFile, Broken}
  /\ env \in EnvMode
  /\ cmdAt \in {"idle", "resolve", "submitted", "execute", "over"}
  /\ spec.mode \in Mode \cup {"none"} /\ spec.known \in BOOLEAN
  /\ entry \in BOOLEAN /\ clientRan \in BOOLEAN /\ askedOffline \in BOOLEAN
  /\ exitCode \in {"none", "0", "1", "3", "4", "124", "130", "client's"}

-----------------------------------------------------------------------------
(* The config file.                                                        *)

\* load: a value that is refused stops every command; an empty number counts as none.
Refused(f)  == \/ f.kind = "broken" \/ f.mode = "bad" \/ f.number = "bad"
               \/ f.adapters = "empty"
\* ConfigParser interpolates each value it hands out, and nobody handles what it raises.
LoadRaises(f) == f.percent # "none"

\* config validate: errors, and what it does not look at (adapters, an unchecked %); it
\* raises itself where a % is under a key it reads.
ValidateRaises(f) == f.percent = "checked"
Errors(f) == IF f.kind = "broken" THEN {"file"}
             ELSE (IF f.mode = "bad" THEN {"mode"} ELSE {})
                  \cup (IF f.number \in {"empty", "bad"} THEN {"number"} ELSE {})

-----------------------------------------------------------------------------
(* Resolution.                                                             *)

\* The environment is refused even where a flag would win.
EnvRefused == env = "bad"

\* First of flag, environment, file, default; an empty variable counts as unset.
\* (mutant) an empty variable counts
PickEmpty(flag, variable, inFile, default) ==
  IF flag # "unset" THEN flag ELSE IF variable # "unset" THEN variable
  ELSE IF inFile # "unset" THEN inFile ELSE default
Pick(flag, variable, inFile, default) ==
  IF flag # "unset" THEN flag ELSE IF variable \notin {"unset", "empty"} THEN variable
  ELSE IF inFile # "unset" THEN inFile ELSE default

\* --offline wins over --force, and both over every layer of the mode.
\* (mutant) the layers win over --offline
LayersFirst == IF args.force THEN "refresh" ELSE Pick(args.mode, env, configFile.mode, "cache")
CacheMode   == IF args.offline THEN "offline" ELSE IF args.force THEN "refresh"
               ELSE Pick(args.mode, env, configFile.mode, "cache")

\* A plugin is known only if the file opts it in; a bundled client always is.
Resolved == {[mode |-> CacheMode, known |-> known] :
               known \in {TRUE, configFile.adapters = "others"}}

CommandInit ==
  /\ args = [mode |-> "unset", offline |-> FALSE, force |-> FALSE, detach |-> FALSE]
  /\ env = "unset" /\ configFile = NoFile
  /\ cmdAt = "idle" /\ spec = NoSpec /\ entry = FALSE
  /\ clientRan = FALSE /\ exitCode = "none" /\ askedOffline = FALSE

\* The command line, the environment and the file it meets, and what is stored.
Invoke ==
  /\ cmdAt = "idle" /\ cmdAt' = "resolve" /\ args' \in Args
  /\ env' \in EnvMode /\ configFile' \in File \cup {NoFile, Broken}
  /\ entry' \in BOOLEAN
  /\ askedOffline' =
       \/ args'.offline
       \/ /\ ~args'.force /\ args'.mode = "unset"
          /\ env' = "offline" \/ (env' \in {"unset", "empty"} /\ configFile'.mode = "offline")
  /\ UNCHANGED <<spec, clientRan, exitCode>>

ExitWith(code) == cmdAt' = "over" /\ exitCode' = code

\* No prompt, or a file that raises (1), or settings that are refused (4).
RefuseCommand ==
  /\ cmdAt = "resolve"
  /\ \/ ExitWith("1")
     \/ (Refused(configFile) \/ EnvRefused) /\ ExitWith("4")
  /\ UNCHANGED <<args, env, configFile, spec, entry, clientRan, askedOffline>>

\* A detached job is written down with everything resolved (its id is told with exit 0);
\* an encrypted store wants its token first.
ResolveCommand ==
  /\ cmdAt = "resolve" /\ ~Refused(configFile) /\ ~LoadRaises(configFile) /\ ~EnvRefused
  /\ spec' \in Resolved
  /\ \/ cmdAt' = (IF args.detach THEN "submitted" ELSE "execute") /\ UNCHANGED exitCode
     \/ args.detach /\ ExitWith("4")
  /\ UNCHANGED <<args, env, configFile, entry, clientRan, askedOffline>>

\* The worker reads the spec, not the settings.
\* (mutant) it resolves the mode again
ResolvedAgain == spec' = [spec EXCEPT !.mode = CacheMode]
AsSubmitted   == spec' = spec
StartSubmitted ==
  /\ cmdAt = "submitted" /\ AsSubmitted /\ cmdAt' = "execute"
  /\ UNCHANGED <<args, env, configFile, entry, clientRan, exitCode, askedOffline>>

\* Meanwhile the file is edited, and other calls record or purge the same entry.
EditConfig ==
  /\ cmdAt = "submitted" /\ configFile.kind = "plain"
  /\ \E m \in FileMode : configFile' = [configFile EXCEPT !.mode = m]
  /\ UNCHANGED <<args, env, cmdAt, spec, entry, clientRan, exitCode, askedOffline>>
EntryComesOrGoes ==
  /\ cmdAt \in {"submitted", "execute"} /\ entry' = ~entry
  /\ UNCHANGED <<args, env, configFile, cmdAt, spec, clientRan, exitCode, askedOffline>>

-----------------------------------------------------------------------------
(* Execution and its exit code.                                            *)

\* A client that is not known, a token that is missing or wrong, and any other error of
\* the cache before the client runs.
CacheErrorExit ==
  /\ cmdAt = "execute" /\ ExitWith("4")
  /\ UNCHANGED <<args, env, configFile, spec, entry, clientRan, askedOffline>>

\* The stored call with its exit code; an output file whose name leads out of the
\* directory raises instead.
Replay ==
  /\ cmdAt = "execute" /\ spec.known /\ spec.mode # "refresh" /\ entry
  /\ ExitWith("0") \/ ExitWith("client's") \/ ExitWith("1")
  /\ UNCHANGED <<args, env, configFile, spec, entry, clientRan, askedOffline>>

OfflineMiss ==
  /\ cmdAt = "execute" /\ spec.known /\ spec.mode = "offline" /\ ~entry /\ ExitWith("3")
  /\ UNCHANGED <<args, env, configFile, spec, entry, clientRan, askedOffline>>

\* The client answers with its own exit code, is stopped (130), runs into the timeout
\* (124), or fails to give an answer (4).  Only an answer is stored.
RunClient ==
  /\ cmdAt = "execute" /\ spec.known /\ spec.mode # "offline" /\ (spec.mode = "refresh" \/ ~entry)
  /\ clientRan' = TRUE
  /\ \E code \in {"0", "1", "client's", "130", "124", "4"} :
       ExitWith(code) /\ entry' \in (IF code \in {"0", "1", "client's"} THEN {TRUE, entry} ELSE {entry})
  /\ UNCHANGED <<args, env, configFile, spec, askedOffline>>

CommandNext ==
  \/ Invoke \/ RefuseCommand \/ ResolveCommand \/ StartSubmitted \/ EditConfig \/ EntryComesOrGoes
  \/ CacheErrorExit \/ Replay \/ OfflineMiss \/ RunClient

CommandSpec == CommandInit /\ [][CommandNext]_cmdVars

-----------------------------------------------------------------------------
(* Properties.                                                             *)

\* A call whose settings, as they were when it was made, ask for it to stay offline never
\* starts the client: not from a worker either, whatever has become of the config file
\* since.
OfflineStaysOffline == askedOffline => ~clientRan

\* A config file in which validate finds no error stops no command, with two exceptions,
\* of which it looks at neither: an empty list of adapters, and a % under a key that only
\* loading reads.
ValidFileLoads ==
  /\ Errors(configFile) = {} /\ ~ValidateRaises(configFile)
  /\ configFile.adapters # "empty" /\ configFile.percent # "unchecked"
  => ~Refused(configFile) /\ ~LoadRaises(configFile)

\* A command goes by the settings it was given, and those that validate finds right
\* are taken, but for its two exceptions.
SettingsAreKept == OfflineStaysOffline /\ ValidFileLoads
=============================================================================
