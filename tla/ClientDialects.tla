---------------------------- MODULE ClientDialects ----------------------------
(***************************************************************************)
(* How one managed call is put to a local client and its answer read back: *)
(* the private config home with the grants and the user's credentials, the *)
(* command line, and the answer and the usage lifted out of the structured *)
(* output, for Claude Code, Codex, Cursor and Vibe.                        *)
(***************************************************************************)
EXTENDS Naturals, Sequences

CONSTANTS
  MaxEvents,      \* bound: lines (for Vibe, messages) a client prints
  GrantSets       \* bound: combinations of grants the callers name

GRANTS  == {"net", "read", "write", "shell", "web-search"}

ASSUME DialectAssumption == MaxEvents \in Nat /\ GrantSets \subseteq SUBSET GRANTS

VARIABLES
  dialect,      \* the client
  grants,       \* doors the caller opens
  configHome,   \* whose version of each file the client finds in its config home
  argv,         \* its command line
  dialectAt,    \* what the call does next
  stdout,       \* what the client has printed
  feed,         \* kinds of events in the live progress file
  lifted        \* what is handed on, see NothingLifted

dialectVars == <<dialect, grants, configHome, argv, dialectAt, stdout, feed, lifted>>

Dialect == {"claude", "codex", "cursor", "vibe"}

\* Which line the answer is from and which the usage (0: the raw output; no usage).
NothingLifted == [answer |-> 0, usage |-> 0, how |-> "none"]

Feed == {"run.start", "start", "thinking", "tool", "message", "result", "error", "run.end"}

DialectTypeOK ==
  /\ dialect \in Dialect /\ grants \subseteq GRANTS
  /\ dialectAt \in {"configure", "seed", "command", "run", "over"}
  /\ DOMAIN configHome \subseteq {"settings.json", "config.toml", "cli-config.json", "auth.json",
                                  "settings.local.json", "credentials", ".claude.json"}
  /\ Len(stdout) <= MaxEvents /\ feed \subseteq Feed
  /\ lifted.answer \in 0..Len(stdout) /\ lifted.usage \in 0..Len(stdout)
  /\ lifted.how \in {"none", "not_found", "timeout", "success", "failed"}

DialectInit ==
  /\ dialect = "claude" /\ grants = {} /\ configHome = <<>> /\ argv = <<>>
  /\ dialectAt = "configure" /\ stdout = <<>> /\ feed = {} /\ lifted = NothingLifted

-----------------------------------------------------------------------------
(* The config home.                                                        *)

\* The config file each client reads, and the tokens of it that open doors.
GrantsFile == [claude |-> "settings.json", codex |-> "config.toml", cursor |-> "cli-config.json"]

\* What the grants open beside the tokens that are always there.
Opening(rules, g) == {rule[2] : rule \in {r \in rules : r[1] \in g}}

ClaudeGrants(g) == {"Write", "Edit"} \cup
  Opening({<<"read", "Read">>, <<"shell", "Bash">>, <<"net", "WebFetch">>, <<"web-search", "WebSearch">>}, g)
CodexGrants(g)  == {"workspace-write"} \cup
  Opening({<<"web-search", "web_search">>, <<"net", "network_access">>}, g)
CursorGrants(g) == {"Write"} \cup
  Opening({<<"read", "Read">>, <<"shell", "Shell">>, <<"net", "Shell">>, <<"net", "WebFetch">>,
          <<"web-search", "WebFetch">>}, g)

BuildGrants(d, g) == CASE d = "claude" -> ClaudeGrants(g)
                       [] d = "codex"  -> CodexGrants(g)
                       [] d = "cursor" -> CursorGrants(g)
                       [] d = "vibe"   -> {}

\* Written first; Vibe has no config home and uses the user's own.
WriteConfig ==
  /\ dialectAt = "configure" /\ dialectAt' = "seed"
  /\ dialect' \in Dialect /\ grants' \in GrantSets
  /\ configHome' = IF dialect' = "vibe" THEN <<>> ELSE [f \in {GrantsFile[dialect']} |-> "ours"]
  /\ UNCHANGED <<argv, stdout, feed, lifted>>

\* Of what the user keeps in ~/.claude, all but the settings (and bulk caches); of ~/.codex
\* the credentials alone.
ClaudeTokenFiles ==
  {"settings.json", "settings.local.json", "credentials", ".claude.json"} \ {"settings.json", "settings.local.json"}
CodexTokenFiles == {"auth.json"}
TokenFiles(d) == CASE d = "claude" -> ClaudeTokenFiles [] d = "codex" -> CodexTokenFiles [] OTHER -> {}

\* Then the credentials, over what is there; a file that cannot be copied is left out.
SeedCredentials ==
  /\ dialectAt = "seed" /\ dialectAt' = "command"
  /\ \E copied \in {{}, TokenFiles(dialect)} :
       configHome' = [f \in DOMAIN configHome \cup copied |->
                        IF f \in copied THEN "users" ELSE configHome[f]]
  /\ UNCHANGED <<dialect, grants, argv, stdout, feed, lifted>>

-----------------------------------------------------------------------------
(* The command line.                                                       *)

\* For a caller who names an effort.  Cursor's is part of the model's name; Vibe has none
\* and its model is in the environment.  "prompt" is the system prompt, the context and
\* the prompt in one, unless a flag of its own takes the first.
ClaudeArgv == <<"-p", "model", "effort", "system_prompt", "stream-json", "client_args">>
CodexArgv  == <<"exec", "json", "model", "effort", "system_prompt", "client_args", "-">>
CursorArgv == <<"--trust", "model", "effort", "stream-json", "client_args", "prompt">>
VibeArgv   == <<"prompt", "json", "--yolo", "--trust", "client_args">>
BuildArgv(d) == CASE d = "claude" -> ClaudeArgv
                  [] d = "codex"  -> CodexArgv
                  [] d = "cursor" -> CursorArgv
                  [] d = "vibe"   -> VibeArgv

StdinPayload(d) == IF d \in {"claude", "codex"} THEN {"prompt"} ELSE {}
ExtraRunEnv(d)  == IF d = "vibe" THEN {"model"} ELSE {}
GrantArgv(d, g) == IF d = "cursor" /\ "net" \in g THEN <<"--force">> ELSE <<>>
\* Claude's --add-dir, for a caller who allows paths.
ReadAccessArgv(d) == {<<>>} \cup (IF d = "claude" THEN {<<"--add-dir">>} ELSE {})

\* Grant flags are appended to whatever the client's own command line ends in.
LaunchClient ==
  /\ dialectAt = "command" /\ dialectAt' = "run"
  /\ \E paths \in ReadAccessArgv(dialect) :
       argv' = BuildArgv(dialect) \o paths \o GrantArgv(dialect, grants)
  /\ feed' \in {{}, {"run.start"}}      \* no live file, or one that cannot be opened
  /\ UNCHANGED <<dialect, grants, configHome, stdout, lifted>>

ExecutableMissing ==
  /\ dialectAt = "command" /\ dialectAt' = "over"
  /\ lifted' = [lifted EXCEPT !.how = "not_found"]
  /\ UNCHANGED <<dialect, grants, configHome, argv, stdout, feed>>

\* What each client makes of it: Cursor reads all from its prompt on as the prompt.
Heard(d, line) ==
  {line[i] : i \in {i \in DOMAIN line : d = "cursor" =>
                      \A k \in DOMAIN line : line[k] = "prompt" => i <= k}}

\* What a client must be told, in the file or on the command line, to open a door.
Needs(d) ==
  CASE d = "claude" -> {<<"write", {"Write", "Edit"}>>, <<"read", {"Read"}>>, <<"shell", {"Bash"}>>,
                        <<"net", {"WebFetch"}>>, <<"web-search", {"WebSearch"}>>}
    [] d = "codex"  -> {<<"write", {"workspace-write"}>>, <<"read", {"workspace-write"}>>,
                        <<"shell", {"workspace-write"}>>, <<"web-search", {"web_search"}>>,
                        <<"net", {"workspace-write", "network_access"}>>}
    [] d = "cursor" -> {<<"write", {"Write", "--trust"}>>, <<"read", {"Read"}>>, <<"shell", {"Shell"}>>,
                        <<"net", {"Shell", "WebFetch", "--force"}>>, <<"web-search", {"WebFetch"}>>}
    [] d = "vibe"   -> {<<door, {"--yolo"}>> : door \in GRANTS}

Opened(d, told) == {rule[1] : rule \in {r \in Needs(d) : r[2] \subseteq told}}

-----------------------------------------------------------------------------
(* The client prints.                                                      *)

\* A line: what kind of event, whether it carries text and usage, and whether a string in
\* it holds one of the line separators (U+2028 and the like) that JSON leaves as they are.
Line(kind, text, usage, torn) == [kind |-> kind, text |-> text, usage |-> usage, torn |-> torn]
Noise == Line("noise", FALSE, FALSE, FALSE)

\* What a client prints on its way, and last of all.
OnItsWay(d) ==
  {Noise} \cup CASE d = "claude" -> {Line(kind, FALSE, FALSE, FALSE) : kind \in {"init", "tool"}}
                 [] d = "codex"  -> {Line("message", TRUE, FALSE, torn) : torn \in BOOLEAN}
                                    \cup {Line("tool", FALSE, FALSE, FALSE)}
                 [] d = "cursor" -> {Line(kind, FALSE, FALSE, FALSE) : kind \in {"init", "message"}}
                 [] d = "vibe"   -> {Line("message", text, FALSE, FALSE) : text \in BOOLEAN}
AtTheEnd(d) ==
  CASE d = "codex" -> {Line("turn", FALSE, usage, FALSE) : usage \in BOOLEAN}
    [] d = "vibe"  -> {Line("message", TRUE, FALSE, torn) : torn \in BOOLEAN}
    [] OTHER       -> {Line("result", text, usage, torn) :
                         text \in BOOLEAN, usage \in BOOLEAN, torn \in BOOLEAN}

Finished == stdout # <<>> /\ stdout[Len(stdout)] \in AtTheEnd(dialect)

\* The progress each client's events tell of; Vibe, which prints one array, tells none.
ClaudeEvents == {<<"init", "start">>, <<"tool", "tool">>, <<"result", "result">>}
CodexEvents  == {<<"init", "start">>, <<"tool", "tool">>, <<"message", "message">>, <<"turn", "result">>}
CursorEvents == {<<"init", "start">>, <<"message", "message">>, <<"result", "result">>}
StreamEvent(d, kind) == CASE d = "claude" -> Opening(ClaudeEvents, {kind})
                          [] d = "codex"  -> Opening(CodexEvents, {kind})
                          [] d = "cursor" -> Opening(CursorEvents, {kind})
                          [] d = "vibe"   -> {}

\* A live file that opened gets every line as it is read, unless the write fails.
PrintEvent ==
  /\ dialectAt = "run" /\ Len(stdout) < MaxEvents /\ (dialect = "vibe" \/ ~Finished)
  /\ \E line \in OnItsWay(dialect) \cup AtTheEnd(dialect) :
       /\ stdout' = Append(stdout, line)
       /\ feed' = IF feed = {} THEN feed ELSE feed \cup StreamEvent(dialect, line.kind)
  /\ UNCHANGED <<dialect, grants, configHome, argv, dialectAt, lifted>>

-----------------------------------------------------------------------------
(* The answer.                                                             *)

LastOf(lines) == IF lines = {} THEN 0 ELSE CHOOSE i \in lines : \A k \in lines : k <= i

\* splitlines breaks a torn line in two, neither of which is JSON; json.loads of the
\* whole output does not.
Legible(line) == line # Noise /\ ~line.torn

FinalResultObject ==
  IF Len(stdout) = 1 /\ stdout[1] # Noise THEN 1
  ELSE LastOf({i \in DOMAIN stdout : Legible(stdout[i]) /\ stdout[i].kind = "result"})

Messages == {i \in DOMAIN stdout : Legible(stdout[i]) /\ stdout[i].kind = "message"}
\* (mutant) the first message of a turn is taken for the answer
FirstMessage == LastOf({i \in Messages : \A k \in Messages : i <= k})
LastMessage  == LastOf(Messages)

Raw == [answer |-> 0, usage |-> 0]
ParseResult ==
  LET i == FinalResultObject
  IN IF i = 0 \/ (i > 0 /\ ~stdout[i].text) THEN Raw
     ELSE [answer |-> i, usage |-> IF stdout[i].usage THEN i ELSE 0]
CodexOutput ==
  IF LastMessage = 0 THEN Raw
  ELSE [answer |-> LastMessage,
        usage |-> LastOf({i \in DOMAIN stdout : stdout[i].kind = "turn" /\ stdout[i].usage})]
VibeOutput(whole) ==
  IF ~whole \/ \E i \in DOMAIN stdout : stdout[i] = Noise THEN Raw
  ELSE [answer |-> LastOf({i \in DOMAIN stdout : stdout[i].text}), usage |-> 0]
ParseOutput(whole) == CASE dialect \in {"claude", "cursor"} -> ParseResult
                        [] dialect = "codex" -> CodexOutput
                        [] dialect = "vibe"  -> VibeOutput(whole)

Answered(how, whole) ==
  /\ dialectAt' = "over"
  /\ lifted' = [answer |-> ParseOutput(whole).answer, usage |-> ParseOutput(whole).usage, how |-> how]
  /\ feed' = IF feed = {} THEN feed ELSE feed \cup {"run.end"}
  /\ UNCHANGED <<dialect, grants, configHome, argv, stdout>>

\* An exit status of zero is an answer to record, any other a failure that is told.
ClientExits ==
  /\ dialectAt = "run" /\ Finished
  /\ \E how \in {"success", "failed"} : Answered(how, TRUE)

ClientBreaksOff == dialectAt = "run" /\ Answered("failed", FALSE)

ClientTimesOut ==
  /\ dialectAt = "run" /\ dialectAt' = "over"
  /\ lifted' = [lifted EXCEPT !.how = "timeout"]
  /\ UNCHANGED <<dialect, grants, configHome, argv, stdout, feed>>

DialectNext ==
  \/ WriteConfig \/ SeedCredentials \/ LaunchClient \/ ExecutableMissing
  \/ PrintEvent \/ ClientExits \/ ClientBreaksOff \/ ClientTimesOut

DialectSpec == DialectInit /\ [][DialectNext]_dialectVars

-----------------------------------------------------------------------------
(* Properties.                                                             *)

Told == Heard(dialect, argv) \cup StdinPayload(dialect) \cup ExtraRunEnv(dialect)
        \cup BuildGrants(dialect, grants)

\* Every door the caller opens is open to the client, and it is given the model, the
\* prompt, the passthrough arguments and the effort.  Two parts get lost: Vibe has no
\* effort, and Cursor takes --force, behind its prompt, for a word of the prompt.
CallReachesClient ==
  dialectAt = "run" =>
    /\ grants \ (IF dialect = "cursor" THEN {"net"} ELSE {}) \subseteq Opened(dialect, Told)
    /\ {"model", "prompt", "client_args"} \subseteq Told
    /\ dialect # "vibe" => "effort" \in Told

\* The grants the cache wrote govern, never the user's own settings.
OurGrantsGovern ==
  dialectAt = "run" /\ dialect # "vibe" =>
    configHome[GrantsFile[dialect]] = "ours" /\ "settings.local.json" \notin DOMAIN configHome

\* What is recorded of a client that ended well is the last message it printed, or else
\* all it printed; only a message that a line separator breaks may give way to an
\* earlier one.  Usage is never recorded without its answer.
AnswerIsTheLast ==
  lifted.how = "success" =>
    LET answers == {i \in DOMAIN stdout : stdout[i].text}
    IN /\ lifted.answer \in {0, LastOf(answers)} \/ stdout[LastOf(answers)].torn
       /\ lifted.answer = 0 => lifted.usage = 0 /\
            (answers # {} => \E i \in DOMAIN stdout : stdout[i].torn \/ stdout[i] = Noise)

\* A translator may be trusted with a call: it arrives, under the cache's own grants, and
\* the answer that comes back is the client's last word (docs/reference/grants.md).
CallIsTranslated == CallReachesClient /\ OurGrantsGovern /\ AnswerIsTheLast
=============================================================================
