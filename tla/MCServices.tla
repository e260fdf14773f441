------------------------------ MODULE MCServices ------------------------------
(***************************************************************************)
(* The components that run beside each other in a server, each by itself:  *)
(* a behaviour belongs to one part, chosen at its start, and leaves the    *)
(* variables of the other parts alone.  The constants of the configuration *)
(* are those of the saved links, of the tool calls that share a log, of the*)
(* lifecycle requests, of the updates of the program and of the servers.   *)
(***************************************************************************)
EXTENDS SavedLinks, ToolCalls, TaskRequests, Installation, BrowserServer

VARIABLES part,
  chats, stored, writing, chatID, hasTask, doing, chatRun, chatMutex, sent, deleted,
  twins, canon, docs, excludeDone, sourceChanges, ask,
  status, clock, criteria, written, view, edits, said,
  platform, files, inPath, process, commands, filesEdited,
  task, doc, dark, template, run, seen, renamer, begunRefs

Chat == INSTANCE ChatSessions WITH Requests <- {"r1", "r2"}, MaxMessages <- 2, MaxUpdates <- 2
Answers == INSTANCE SearchAnswers WITH Tasks <- {"t1", "t2"}, Docs <- {"d1"}, MaxChanges <- 1,
  changes <- sourceChanges
Edits == INSTANCE TaskEdits WITH MaxCriteria <- 3, MaxEdits <- 2, state <- status
Configs == INSTANCE AgentConfigs WITH Processes <- {"p1"}, Platforms <- {"claude-code", "opencode", "codex", "hermes"},
  MaxCommands <- 2, MaxEdits <- 1, MaxGroups <- 3, edits <- filesEdited

(* One call that may ask for anything; the three of the configuration, that*)
(* create a document, are enough to fill the log and both its backups.     *)
Guard == INSTANCE ToolCalls WITH Plain <- Calls \ {"c1"}, Processes <- {"p1"}, MaxChanges <- 1

Ask(scope, e, strict, door) == [scope |-> scope, entity |-> e, strict |-> strict, fix |-> strict, door |-> door]
Contract(locked, impact) == [spec |-> TRUE, locked |-> locked, impact |-> impact]
Contracts == {Contract("one", "declared"), Contract("one", "invalid"), Contract("twice", "declared"),
              Contract("empty", "declared"), Contract("one", "none"), Contract("none", "none")}
Refs == INSTANCE References WITH Tasks <- {<<"t1">>, <<"t2">>}, Paths <- {<<"a">>, <<"a", "x">>, <<"b">>},
  Template <- <<"form">>, Contracts <- Contracts,
  Questions <- {Ask("all", <<>>, TRUE, "cli"), Ask("tasks", <<"t2">>, FALSE, "mcp"), Ask("sdd", <<>>, FALSE, "http")},
  Renames <- {<< <<"a">>, <<"b">> >>}, MaxBegun <- 2

chatVars == <<chats, stored, writing, chatID, hasTask, doing, chatRun, chatMutex, sent, deleted>>
searchVars == <<twins, canon, docs, excludeDone, sourceChanges, ask>>
editVars == <<status, clock, criteria, written, view, edits, said>>
configVars == <<platform, files, inPath, process, commands, filesEdited>>
refVars == <<task, doc, dark, template, run, seen, renamer, begunRefs>>
vars == <<part, chatVars, searchVars, editVars, requestVars, installVars, configVars,
          linkVars, toolVars, browserVars, refVars>>

(* A part that is not the behaviour's stays in one initial state.          *)
Init ==
  /\ part \in {"chat", "search", "edits", "requests", "install", "configs", "links", "guard", "audit",
              "references", "browser"}
  /\ Chat!ChatInit /\ (part = "chat" \/ stored = <<>>)
  /\ Answers!SearchInit /\ canon["t1"] = "active"
  /\ (canon["t2"] = "done" \/ (part = "search" /\ (canon["t2"] = "archived" \/ twins # {})))
  /\ Edits!EditInit /\ (part = "edits" \/ status = "done")
  /\ RequestInit /\ ripe = {"t1"} /\ (part = "requests" \/ (~rights.archive /\ ~rights.delete))
  /\ InstallInit /\ (part = "install" \/ (~windows /\ manager = "brew" /\ runtime = 0))
  /\ Configs!ConfigInit
  /\ (part = "configs" \/ (platform = "hermes" /\ inPath))
  /\ LinkInit /\ (part = "links" \/ links[1].image = NoImage)
  /\ (IF part = "audit" THEN ToolInit ELSE Guard!ToolInit)
  /\ (part = "guard" \/ preset = "read-write")
  /\ BrowserInit
  /\ Refs!RefInit /\ (part = "references" \/ dark = {})
  /\ \A t \in DOMAIN task :
       task[t].text \in {<<>>, Refs!Text(<<"a">>, "bare")}
         \cup (IF part = "references" THEN {Refs!Text(<<"t1">>, "bare"), Refs!Text(<<"form">>, "bare"),
                                           Refs!Text(<<"a", "x">>, "bare"), Refs!Text(<<"a", "x">>, "related")}
               ELSE {})

Only(p) ==
  /\ UNCHANGED part
  /\ IF p = "chat" THEN TRUE ELSE UNCHANGED chatVars
  /\ IF p = "search" THEN TRUE ELSE UNCHANGED searchVars
  /\ IF p = "edits" THEN TRUE ELSE UNCHANGED editVars
  /\ IF p = "requests" THEN TRUE ELSE UNCHANGED requestVars
  /\ IF p = "install" THEN TRUE ELSE UNCHANGED installVars
  /\ IF p = "configs" THEN TRUE ELSE UNCHANGED configVars
  /\ IF p = "links" THEN TRUE ELSE UNCHANGED linkVars
  /\ IF p \in {"guard", "audit"} THEN TRUE ELSE UNCHANGED toolVars
  /\ IF p = "browser" THEN TRUE ELSE UNCHANGED browserVars
  /\ IF p = "references" THEN TRUE ELSE UNCHANGED refVars

(* Updates may be exchanged: u1 is the one that starts first; and what they*)
(* do has nothing in common with the downloads of models, which a behaviour*)
(* has instead of them.  Servers may be exchanged: s1 is the one that binds*)
(* a port first; and two streams that are open together go to one server   *)
(* when b2 opens its own.                                                  *)
UpdatesInOrder ==
  /\ updater'["u2"].at # "idle" => updater["u1"].at # "idle"
  /\ updater'["u1"].at # "idle" => \A f \in ModelFiles : model'[f] = "absent"
ServersInOrder ==
  /\ stage'["s2"] # "off" => stage["s1"] \notin {"off", "bind"}
  /\ viewer'["b2"] \in {viewer["b2"], viewer["b1"], NoServer}

Next ==
  \/ part = "chat" /\ Chat!ChatNext /\ Only("chat")
  \/ part = "search" /\ Answers!SearchNext /\ Only("search")
  \/ part = "edits" /\ Edits!EditNext /\ Only("edits")
  \/ part = "requests" /\ RequestNext /\ Only("requests")
  \/ part = "install" /\ InstallNext /\ UpdatesInOrder /\ Only("install")
  \/ part = "configs" /\ Configs!ConfigNext /\ Only("configs")
  \/ part = "links" /\ LinkNext /\ Only("links")
  \/ part = "guard" /\ Guard!ToolNext /\ (\A c \in Calls \ {"c1"} : call'[c] = call[c]) /\ Only("guard")
  \/ part = "audit" /\ ToolNext /\ Only("audit")
  \/ part = "browser" /\ BrowserNext /\ ServersInOrder /\ Only("browser")
  \/ part = "references" /\ Refs!RefNext /\ Only("references")

Spec == Init /\ [][Next]_vars

ChatLostInTwoWays == Chat!ChatLostInTwoWays
LeftOutOnlyWhenFull == Answers!LeftOutOnlyWhenFull
EditsAreExact == Edits!EditsAreExact
OthersKept == Configs!OthersKept
ReferencesAreSound == Refs!ReferencesAreSound
===============================================================================
