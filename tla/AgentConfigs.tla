---------------------------- MODULE AgentConfigs ----------------------------
(***************************************************************************)
(* The files of the coding agents that know-me edits: setup for a project  *)
(* or for the user, the installation and removal of hooks, and the sync    *)
(* after an update write an entry of their own into files that the agents  *)
(* and the user write too.  Every edit reads a file, changes what it read  *)
(* and writes it back whole, without a lock; others may save in between,   *)
(* and a process may die while it writes.                                  *)
(***************************************************************************)
EXTENDS Naturals, Sequences, SequencesExt

CONSTANTS
  Processes,      \* processes of know-me
  Platforms,      \* agents that are set up
  MaxCommands,    \* bound: commands run
  MaxEdits,       \* bound: edits by the user and the agents, and deaths
  MaxGroups       \* bound: groups of hooks in a file

VARIABLES
  platform,       \* the agent the user works with
  files,          \* the files by name
  inPath,         \* the command knowme is found in PATH
  process,        \* each process: the steps left, what it read, what it will write
  commands,       \* commands so far
  edits           \* edits and deaths so far

configVars == <<platform, files, inPath, process, commands, edits>>

HookFiles == {"claudeHooks", "codexHooks"}
OwnFiles == {"kiroHook", "plugin"}

(* form: "odd" is a file its own program reads and a strict parser does    *)
(* not.  others: there are entries of somebody else.  ours: the command in *)
(* our entry.  groups: the hook groups, each with the kinds of its hooks.  *)
NoFile == [form |-> "absent", others |-> FALSE, ours |-> "none", groups |-> <<>>]
Idle == [at |-> "idle", steps |-> <<>>, force |-> FALSE, seen |-> NoFile, new |-> NoFile]

-----------------------------------------------------------------------------
(* The steps of a command, in order.                                       *)
S(op, file) == [op |-> op, file |-> file]

InstallSteps(agent) ==
  CASE agent = "claude-code" -> <<S("install", "claudeHooks")>>
    [] agent = "codex" -> <<S("installText", "codexHome"), S("install", "codexHooks")>>
    [] agent = "kiro" -> <<S("hook", "kiroHook")>>
    [] agent = "opencode" -> <<S("installServer", "opencodeHome"), S("plugin", "plugin")>>
    [] OTHER -> <<>>

UninstallSteps(agent) ==
  CASE agent = "claude-code" -> <<S("uninstall", "claudeHooks")>>
    [] agent = "codex" -> <<S("features", "codexHome"), S("uninstall", "codexHooks")>>
    [] agent = "kiro" -> <<S("remove", "kiroHook")>>
    [] agent = "opencode" -> <<S("remove", "plugin")>>
    [] OTHER -> <<>>

ServerSteps(agent) ==
  CASE agent = "claude-code" -> <<S("create", "mcpJson")>>
    [] agent = "kiro" -> <<S("create", "steering"), S("upsert", "kiro")>>
    [] agent = "antigravity" -> <<S("create", "rules"), S("upsert", "antigravity")>>
    [] agent = "codex" -> <<S("text", "codex")>>
    [] agent = "hermes" -> <<S("yaml", "hermes")>>
    [] OTHER -> <<S("upsert", agent)>>

InstructionSteps(agent) ==
  <<S("instruction", "canonical")>> \o
  IF agent \in {"claude-code", "opencode", "codex", "hermes"} THEN <<S("marker", "shim")>> ELSE <<>>

SetupSteps(agent) == <<S("skills", "skills")>> \o ServerSteps(agent) \o InstallSteps(agent) \o InstructionSteps(agent)

HomeServerSteps(agent) ==
  CASE agent = "claude-code" -> <<S("global", "claudeHome"), S("global", "desktop")>>
    [] agent = "opencode" -> <<S("global", "opencodeHome")>>
    [] agent = "kiro" -> <<S("global", "kiroHome")>>
    [] agent = "cursor" -> <<S("global", "cursorHome")>>
    [] agent = "antigravity" -> <<S("global", "geminiHome")>>
    [] agent = "codex" -> <<S("text", "codexHome")>>
    [] agent = "hermes" -> <<S("yaml", "hermes")>>

HomeSkillSteps(agent) == <<S("skills", "homeSkills")>>
HomeTextSteps(agent) == IF agent \in {"claude-code", "kiro"} THEN <<S("homeText", "homeText")>> ELSE <<>>

GlobalSteps(agent) == HomeSkillSteps(agent) \o HomeServerSteps(agent) \o InstallSteps(agent) \o HomeTextSteps(agent)

(* The files of every agent are tried; only those of one are there.        *)
SyncSteps == <<S("sync", "mcpJson"), S("sync", "kiro"), S("sync", "cursor"), S("syncText", "codex"),
               S("sync", "antigravity"), S("syncYaml", "hermes"), S("sync", "opencode")>>

Commands(agent) == {SetupSteps(agent), GlobalSteps(agent), SyncSteps, InstallSteps(agent), UninstallSteps(agent)} \ {<<>>}

(* The files a command for the agent writes; those of others are not       *)
(* there.                                                                  *)
FilesOf(agent) == UNION {{s[i].file : i \in DOMAIN s} : s \in Commands(agent) \ {SyncSteps}}

File(f) == IF f \in DOMAIN files THEN files[f] ELSE NoFile

(* Hooks that older versions, at other paths, have left behind.            *)
ConfigInit ==
  /\ platform \in Platforms
  /\ \E left \in {<<>>, <<{"old"}>>, <<{"legacy"}, {"user"}>>} :
       files = [f \in FilesOf(platform) |-> IF f \in HookFiles /\ left # <<>>
                                THEN [NoFile EXCEPT !.form = "plain", !.groups = left] ELSE NoFile]
  /\ inPath \in BOOLEAN
  /\ process = [p \in Processes |-> Idle]
  /\ commands = 0 /\ edits = 0

-----------------------------------------------------------------------------
(* Our entry runs the program when it is in PATH and npx otherwise; the    *)
(* installers write a fixed name, for codex the one of another program.    *)
McpCommand == IF inPath THEN "direct" ELSE "npx"

With(file, command) == [file EXCEPT !.form = IF @ \in {"absent", "empty"} THEN "plain" ELSE @, !.ours = command]
Only(command) == With(NoFile, command)

(* JSON is strict, YAML may be empty, and text is never wrong; the reader  *)
(* of the installers takes an empty file for an empty map.                 *)
ParsesJson(file) == file.form \in {"absent", "plain"}
ParsesYaml(file) == file.form # "odd"
ReadsAsMap(file) == file.form # "odd"

(* The command of our hook; an old one is managed by its message, one      *)
(* without a message is found by its command.                              *)
HookCommand == IF inPath THEN "bare" ELSE "path"
Managed == {"bare", "path", "old"}
Matches(group, command) == command \in group \/ (command = "path" /\ "legacy" \in group)

RemoveManaged(groups) == SelectSeq(groups, LAMBDA g : g \cap Managed = {})
RemoveCommand(groups, command) == SelectSeq(groups, LAMBDA g : ~Matches(g, command))

InstalledHooks(groups) == Append(RemoveManaged(RemoveCommand(groups, "path")), {HookCommand})
UninstalledHooks(groups) ==
  RemoveManaged(RemoveCommand(RemoveCommand(groups, HookCommand), "path"))

-----------------------------------------------------------------------------
Writes(file) == [does |-> "write", file |-> file]
Skips == [does |-> "skip", file |-> NoFile]
Fails == [does |-> "fail", file |-> NoFile]

Create(file, force) == IF file.form # "absent" /\ ~force THEN Skips ELSE Writes(Only(McpCommand))

(* The guidelines of the project are ours and written anew by force; of a  *)
(* shim the text around our block is kept, without one it is added.        *)
Instruction(file, force) == IF file.form # "absent" /\ ~force THEN Skips ELSE Writes(Only(McpCommand))
MarkerBlock(file, force) == IF file.form # "absent" /\ ~force THEN Skips ELSE Writes(With(file, McpCommand))

(* Mutant for OthersKept: what does not parse is taken for empty.          *)
UpsertAnyway(file) == Writes(IF ParsesJson(file) THEN With(file, McpCommand) ELSE Only(McpCommand))

Upsert(file) == IF ParsesJson(file) THEN Writes(With(file, McpCommand)) ELSE Fails
UpsertYaml(file) == IF ParsesYaml(file) THEN Writes(With(file, McpCommand)) ELSE Fails
UpsertText(file) == Writes(With(file, McpCommand))

(* setup --global takes what it cannot parse for empty.                    *)
UpsertGlobal(file) == Writes(IF ParsesJson(file) THEN With(file, McpCommand) ELSE Only(McpCommand))

InstallServer(file) == IF ReadsAsMap(file) THEN Writes(With(file, "direct")) ELSE Fails
InstallText(file) == Writes(With(file, "knowns"))

(* A sync changes the entry it finds; in text and YAML it adds it.         *)
Sync(file) ==
  CASE file.form = "absent" \/ (ParsesJson(file) /\ file.ours \in {"none", McpCommand}) -> Skips
    [] ~ParsesJson(file) -> Fails
    [] OTHER -> Writes(With(file, McpCommand))

SyncText(file) ==
  IF file.form \in {"absent", "empty"} \/ file.ours = McpCommand THEN Skips ELSE Writes(With(file, McpCommand))

SyncYaml(file) ==
  CASE file.form = "absent" \/ (ParsesYaml(file) /\ file.ours = McpCommand) -> Skips
    [] ~ParsesYaml(file) -> Fails
    [] OTHER -> Writes(With(file, McpCommand))

InstallHooks(file) ==
  IF ReadsAsMap(file) THEN Writes([With(file, "none") EXCEPT !.groups = InstalledHooks(file.groups)]) ELSE Fails

UninstallHooks(file) ==
  CASE ~ReadsAsMap(file) -> Fails
    [] file.groups = <<>> -> Skips
    [] OTHER -> Writes([file EXCEPT !.groups = UninstalledHooks(file.groups)])

(* A removal writes the text with the name of a feature replaced.          *)
Features(file) == IF file.form \in {"absent", "empty"} THEN Skips ELSE Writes(file)

(* Files of ours alone, and a directory where the skills of others stay.   *)
KiroHook == Writes(Only(HookCommand))
Plugin == Writes(Only("path"))
HomeText == Writes(Only("direct"))
SyncSkills(file) == Writes(With(file, "direct"))
Removed == Writes(NoFile)

Outcome(op, file, force) ==
  CASE op = "create" -> Create(file, force)
    [] op = "instruction" -> Instruction(file, force)
    [] op = "marker" -> MarkerBlock(file, force)
    [] op = "upsert" -> Upsert(file)
    [] op = "yaml" -> UpsertYaml(file)
    [] op = "text" -> UpsertText(file)
    [] op = "global" -> UpsertGlobal(file)
    [] op = "installServer" -> InstallServer(file)
    [] op = "installText" -> InstallText(file)
    [] op = "features" -> Features(file)
    [] op = "sync" -> Sync(file)
    [] op = "syncText" -> SyncText(file)
    [] op = "syncYaml" -> SyncYaml(file)
    [] op = "install" -> InstallHooks(file)
    [] op = "uninstall" -> UninstallHooks(file)
    [] op = "skills" -> SyncSkills(file)
    [] op = "hook" -> KiroHook
    [] op = "plugin" -> Plugin
    [] op = "homeText" -> HomeText
    [] op = "remove" -> Removed

-----------------------------------------------------------------------------
Begin(p) ==
  /\ process[p].at = "idle" /\ commands < MaxCommands /\ commands' = commands + 1
  /\ \E steps \in Commands(platform), force \in BOOLEAN :
       /\ force => steps = SetupSteps(platform)
       /\ process' = [process EXCEPT ![p] = [Idle EXCEPT !.at = "read", !.steps = steps, !.force = force]]
  /\ UNCHANGED <<platform, files, inPath, edits>>

Step(p) == Head(process[p].steps)
Left(p) == Tail(process[p].steps)
Proceed(p, steps) == IF steps = <<>> THEN Idle ELSE [Idle EXCEPT !.at = "read", !.steps = steps, !.force = process[p].force]

(* A setup ends with the step that fails; a sync goes on with the next     *)
(* file.                                                                   *)
Read(p) ==
  /\ process[p].at = "read"
  /\ LET file == File(Step(p).file)
         out == Outcome(Step(p).op, file, process[p].force)
     IN process' = [process EXCEPT ![p] =
          CASE out.does = "write" -> [@ EXCEPT !.at = "write", !.seen = file, !.new = out.file]
            [] out.does = "skip" \/ Step(p).op \in {"sync", "syncText", "syncYaml"} -> Proceed(p, Left(p))
            [] OTHER -> Proceed(p, <<>>)]
  /\ UNCHANGED <<platform, files, inPath, commands, edits>>

Write(p) ==
  /\ process[p].at = "write"
  /\ files' = [files EXCEPT ![Step(p).file] = process[p].new]
  /\ process' = [process EXCEPT ![p] = Proceed(p, Left(p))]
  /\ UNCHANGED <<platform, inPath, commands, edits>>

(* A process dies while it writes: the file is cut off.  Of the skills     *)
(* only the directories of ours are replaced.                              *)
DieWriting(p) ==
  /\ process[p].at = "write" /\ edits < MaxEdits
  /\ files' = [files EXCEPT ![Step(p).file] =
       IF Step(p).op = "skills" THEN [@ EXCEPT !.form = "plain", !.ours = "none"]
       ELSE [NoFile EXCEPT !.form = "odd"]]
  /\ process' = [process EXCEPT ![p] = [Idle EXCEPT !.at = "died"]]
  /\ edits' = edits + 1
  /\ UNCHANGED <<platform, inPath, commands>>

(* The user or an agent adds an entry of his, maybe in a form of his.      *)
OthersEdit(f) ==
  /\ edits < MaxEdits
  /\ \E form \in {"plain", "odd"} :
       files' = [files EXCEPT ![f].others = TRUE, ![f].form = form]
  /\ edits' = edits + 1
  /\ UNCHANGED <<platform, inPath, process, commands>>

OthersTouch(f) ==
  /\ files[f].form = "absent" /\ edits < MaxEdits
  /\ files' = [files EXCEPT ![f].form = "empty"]
  /\ edits' = edits + 1
  /\ UNCHANGED <<platform, inPath, process, commands>>

(* A hook of the user's, in a group of its own or in one that is there.    *)
OthersHook(f) ==
  /\ edits < MaxEdits /\ files[f].form # "odd"
  /\ LET groups == files[f].groups
     IN \E new \in {Append(groups, {"user"})} \cup {[groups EXCEPT ![i] = @ \cup {"user"}] : i \in DOMAIN groups} :
          /\ Len(new) <= MaxGroups
          /\ files' = [files EXCEPT ![f].form = "plain", ![f].groups = new]
  /\ edits' = edits + 1
  /\ UNCHANGED <<platform, inPath, process, commands>>

PathChanges ==
  /\ edits < MaxEdits /\ edits' = edits + 1
  /\ inPath' = ~inPath
  /\ UNCHANGED <<platform, files, process, commands>>

ConfigNext ==
  \/ \E p \in Processes : Begin(p) \/ Read(p) \/ Write(p) \/ DieWriting(p)
  \/ \E f \in DOMAIN files \ (HookFiles \cup OwnFiles) : OthersEdit(f) \/ OthersTouch(f)
  \/ \E f \in DOMAIN files \cap HookFiles : OthersHook(f)
  \/ PathChanges

Spec == ConfigInit /\ [][ConfigNext]_configVars

-----------------------------------------------------------------------------
(* What others have put into a file.                                       *)
OthersIn(file) == {i \in {1} : file.others} \cup {2 : i \in {j \in DOMAIN file.groups : "user" \in file.groups[j]}}

(* The ways an entry of somebody else is lost, and the only ones: a write  *)
(* of a copy that is older than the entry, a write that is cut off, a file *)
(* that is replaced whole, global setup of a file that does not parse, and *)
(* a hook that shares a group with one of ours.                            *)
OthersKept ==
  [][\A f \in DOMAIN files : OthersIn(files[f]) \subseteq OthersIn(files'[f])
       \/ \E p \in Processes :
            /\ process[p].at = "write" /\ Step(p).file = f /\ process'[p] # process[p]
            /\ \/ process[p].seen # files[f]
               \/ process'[p].at = "died"
               \/ Step(p).op \in {"create", "instruction", "homeText"}
               \/ Step(p).op = "global" /\ files[f].form = "odd"
               \/ \E i \in DOMAIN files[f].groups : "user" \in files[f].groups[i] /\ files[f].groups[i] \ {"user"} # {}
    ]_configVars
=============================================================================
