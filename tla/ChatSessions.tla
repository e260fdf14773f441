---------------------------- MODULE ChatSessions ----------------------------
(***************************************************************************)
(* The chats of a project: storage/chat_store.go as the routes of          *)
(* server/routes/chat.go, the chat of the agent manager (agents/omp/chat.go*)
(* and the deletion of a Task use it.                                      *)
(*                                                                         *)
(* A handler that changes a session loads it, changes its copy and saves   *)
(* the copy whole.  Every call of the store locks its mutex, reads the file*)
(* and, when it changes something, writes it; but the mutex belongs to the *)
(* Store object, and a request about a project that is not the active one  *)
(* makes a Store of its own (Manager.ProjectStore), so that two calls may  *)
(* read the file before either writes it.                                  *)
(*                                                                         *)
(* Chats of the Task (agents omp and codex) are driven by the manager of   *)
(* the agents, under its mutex, except for the updates that arrive while an*)
(* answer streams; a plain chat (claude) can only be created, renamed,     *)
(* stopped and deleted, because no code makes one stream.  There is one    *)
(* Task, and writes to the files succeed.                                  *)
(***************************************************************************)
EXTENDS Naturals, Sequences, FiniteSets, SequencesExt

CONSTANTS
  Requests,    \* HTTP requests, each used once
  MaxMessages, \* bound: messages that users send
  MaxUpdates   \* bound: updates of a streaming answer

VARIABLES
  chats,    \* chats.json: [ChatIds -> Session or Absent]
  stored,   \* the IDs of the sessions in chats.json, in its order
  writing,  \* [Stores -> the content a call is about to write under its mutex]
  chatID,   \* the ID of the chat in the workflow of the Task, or "none"
  hasTask,  \* whether the Task exists
  doing,    \* [Actors -> the handler it is in, and where]
  chatRun,  \* the run of the manager that is active
  chatMutex,\* who holds the mutex of the manager
  sent,     \* messages sent so far, named by their number
  deleted   \* history: sessions that were deleted

chatVars == <<chats, stored, writing, chatID, hasTask, doing, chatRun, chatMutex, sent, deleted>>
file == <<chats, stored, deleted>>

(* A chat has the name of the request that created it, for its UUID.       *)
ChatIds == Requests \cup {"old"}
Absent == [agent |-> "none", status |-> "idle", title |-> 0, msgs |-> {}, queue |-> 0, answer |-> 0]
NewChat(agent) == [Absent EXCEPT !.agent = agent]
TaskAgents == {"omp", "codex"}

(* Who uses the store: the requests, the goroutine of a run, the reader of *)
(* its adapter, and the hook of a deleted Task.  "late" is a history flag: *)
(* the file was written since the actor read it to write it.               *)
Actors == Requests \cup {"run", "reader", "hook"}
Stores == Requests \cup {"active", "hook"}
Nothing == [op |-> "none", stage |-> "none", store |-> "active", agent |-> "none", id |-> "none",
            copy |-> Absent, seen |-> Absent, msg |-> 0, new |-> FALSE, late |-> FALSE]
NoChatRun == [stage |-> "none", store |-> "active", updates |-> 0]

ChatInit ==
  /\ \E codex \in BOOLEAN :   \* a chat of an older version, or none
       /\ chats = [c \in ChatIds |-> IF codex /\ c = "old" THEN NewChat("codex") ELSE Absent]
       /\ stored = IF codex THEN <<"old">> ELSE <<>>
       /\ chatID \in IF codex THEN {"none", "old"} ELSE {"none"}
  /\ writing = [s \in Stores |-> {}]
  /\ hasTask = TRUE
  /\ doing = [a \in Actors |-> Nothing]
  /\ chatRun = NoChatRun
  /\ chatMutex = "none"
  /\ sent = 0
  /\ deleted = {}

-----------------------------------------------------------------------------
(* The store.  A call that only reads is one step while no other holds the *)
(* mutex; one that writes holds it from its reading to its writing.        *)

Free(store) == writing[store] = {}

(* FindTaskSession returns the first of the file.                          *)
Found(agent) ==
  LET those == SelectSeq(stored, LAMBDA c : chats[c].agent = agent)
  IN IF those = <<>> THEN {} ELSE {those[1]}
PlainChats == {c \in ChatIds : chats[c].agent = "claude"}
TaskChats == {c \in ChatIds : chats[c].agent \in TaskAgents}

(* Save replaces the whole session, or appends it.  Only the agent codex is*)
(* checked for a second session of the same Task.                          *)
Conflict(id, session) ==
  /\ chats[id] = Absent /\ session.agent = "codex"
  /\ Found("codex") # {}
Stored(id, session) ==
  [chats |-> [chats EXCEPT ![id] = session],
   stored |-> IF chats[id] = Absent THEN Append(stored, id) ELSE stored]
Updated(id) == [chats |-> [chats EXCEPT ![id].title = 1], stored |-> stored]
Without(those) ==
  [chats |-> [c \in ChatIds |-> IF c \in those THEN Absent ELSE chats[c]],
   stored |-> SelectSeq(stored, LAMBDA c : c \notin those)]
MarkAllIdle == [c \in ChatIds |-> [chats[c] EXCEPT !.status = "idle"]]

-----------------------------------------------------------------------------
(* Steps that handlers have in common.                                     *)

At(a, stage) == doing[a].stage = stage /\ Free(doing[a].store)
Becomes(a, activity) == doing' = [doing EXCEPT ![a] = activity]
Leaves(a) ==
  /\ Becomes(a, [Nothing EXCEPT !.op = IF a \in {"run", "reader"} THEN "none" ELSE "done"])
  /\ chatMutex' = IF chatMutex = a THEN "none" ELSE chatMutex

Queued(session, msg) == [session EXCEPT !.msgs = @ \cup {msg}, !.queue = @ + 1]
Asked(session, msg) ==
  [session EXCEPT !.msgs = @ \cup {msg}, !.status = "streaming", !.answer = 0]
FinalizedWithoutStatus(session) == [session EXCEPT !.answer = 9]
Finalized(session) == [session EXCEPT !.status = "idle", !.answer = 9]

(* The copy a handler makes of a session; a chat that was searched for, and*)
(* not got by its ID, is one of omp from now on.                           *)
Changed(a, session) ==
  CASE doing[a].op = "create" -> [session EXCEPT !.agent = "omp"]
    [] doing[a].op = "send"   -> Asked(IF doing[a].stage = "get" THEN session ELSE [session EXCEPT !.agent = "omp"],
                                       doing[a].msg)
    [] doing[a].op = "queue"  -> Queued(session, doing[a].msg)
    [] doing[a].op = "update" -> [session EXCEPT !.answer = @ + 1]
    [] doing[a].op = "finish" -> Finalized(session)

Saves(a, id, copy, seen) ==
  /\ Becomes(a, [doing[a] EXCEPT !.stage = "save", !.id = id, !.copy = copy, !.seen = seen])
  /\ UNCHANGED <<chatID, chatMutex>>

(* ensureTaskChatLocked saves a new chat at once, and its callers save it  *)
(* again.                                                                  *)
SavesNew(a, agent) ==
  /\ Becomes(a, [doing[a] EXCEPT !.stage = "save", !.id = a, !.copy = NewChat(agent), !.seen = Absent,
                                 !.new = doing[a].op # "create"])
  /\ UNCHANGED <<chatID, chatMutex>>

(* createSession answers with an omp chat it finds, and with a codex chat  *)
(* when it was asked for one; a snapshot takes the ID of the chat it finds *)
(* into the workflow and saves no chat.                                    *)
Takes(a, c) ==
  CASE doing[a].op = "snapshot" -> chatID' = c /\ Leaves(a)
    [] doing[a].op = "create" /\ (doing[a].stage = "omp" \/ doing[a].agent = "codex") ->
         Leaves(a) /\ UNCHANGED chatID
    [] OTHER -> Saves(a, c, Changed(a, chats[c]), chats[c])

(* The manager and createSession ask for a chat of omp, and then, in a call*)
(* of its own, for one of codex.                                           *)
FindChat(a) ==
  /\ At(a, "omp")
  /\ \/ \E c \in Found("omp") : Takes(a, c)
     \/ /\ Found("omp") = {}
        /\ Becomes(a, [doing[a] EXCEPT !.stage = "codex"])
        /\ UNCHANGED <<chatID, chatMutex>>
  /\ UNCHANGED <<file, writing, hasTask, chatRun, sent>>

FindCodexChat(a) ==
  /\ At(a, "codex")
  /\ \/ \E c \in Found("codex") : Takes(a, c)
     \/ /\ Found("codex") = {} /\ doing[a].op \in {"queue", "update", "finish"}
        /\ Leaves(a) /\ UNCHANGED chatID
     \/ /\ Found("codex") = {} /\ doing[a].op \in {"create", "send", "snapshot"}
        /\ SavesNew(a, IF doing[a].op = "create" THEN doing[a].agent ELSE "omp")
  /\ UNCHANGED <<file, writing, hasTask, chatRun, sent>>

(* Save, Update, Delete and DeleteTaskSessions: first the reading.         *)
Refuses(a) ==
  \/ doing[a].op \in {"rename", "delete"} /\ chats[doing[a].id] = Absent
  \/ doing[a].op = "wipe" /\ TaskChats = {}
  \/ doing[a].op \notin {"rename", "delete", "wipe"} /\ Conflict(doing[a].id, doing[a].copy)
ToWrite(a) ==
  CASE doing[a].op = "rename" -> Updated(doing[a].id)
    [] doing[a].op = "delete" -> Without({doing[a].id})
    [] doing[a].op = "wipe"   -> Without(TaskChats)
    [] OTHER                  -> Stored(doing[a].id, doing[a].copy)

ReadToWrite(a) ==
  /\ At(a, "save")
  /\ IF Refuses(a) THEN Leaves(a) /\ UNCHANGED writing
     ELSE /\ writing' = [writing EXCEPT ![doing[a].store] = {ToWrite(a)}]
          /\ Becomes(a, [doing[a] EXCEPT !.stage = "write"])
          /\ UNCHANGED chatMutex
  /\ UNCHANGED <<file, chatID, hasTask, chatRun, sent>>

(* Then the writing, and what the handler does next: a chat that was made  *)
(* is saved again, and a message that was saved starts a run.              *)
AfterWrite(a) ==
  IF doing[a].new
  THEN LET copy == IF doing[a].op = "send" THEN Asked(doing[a].copy, doing[a].msg) ELSE doing[a].copy
       IN [doing[a] EXCEPT !.stage = "save", !.copy = copy, !.seen = doing[a].copy,
                           !.new = FALSE, !.late = FALSE]
  ELSE [Nothing EXCEPT !.op = IF a \in {"run", "reader"} THEN "none" ELSE "done"]

Write(a) ==
  /\ doing[a].stage = "write"
  /\ \E content \in writing[doing[a].store] : chats' = content.chats /\ stored' = content.stored
  /\ writing' = [writing EXCEPT ![doing[a].store] = {}]
  /\ doing' = [b \in Actors |-> IF b = a THEN AfterWrite(a)
                                ELSE IF doing[b].stage = "write" THEN [doing[b] EXCEPT !.late = TRUE]
                                ELSE doing[b]]
  /\ deleted' = deleted \cup (CASE doing[a].op = "delete" -> {doing[a].id}
                                [] doing[a].op = "wipe"   -> TaskChats
                                [] OTHER                  -> {})
  /\ IF doing[a].op \in {"send", "snapshot"} /\ ~doing[a].new
     THEN /\ chatID' = doing[a].id
          /\ chatRun' = IF doing[a].op = "snapshot" THEN chatRun
                        ELSE [NoChatRun EXCEPT !.stage = "streams", !.store = doing[a].store]
     ELSE UNCHANGED <<chatID, chatRun>>
  /\ chatMutex' = IF chatMutex = a /\ ~doing[a].new THEN "none" ELSE chatMutex
  /\ UNCHANGED <<hasTask, sent>>

-----------------------------------------------------------------------------
(* Handlers of chat.go.  A handler that looks a session up by its ID does  *)
(* so in the active store and goes on with the store of its project, which *)
(* is the active one or one of its own.                                    *)

Begins(r, op, stage, id, copy) ==
  /\ doing[r] = Nothing
  /\ \E s \in {"active", r} :
       Becomes(r, [Nothing EXCEPT !.op = op, !.stage = stage, !.store = s, !.id = id, !.copy = copy,
                                  !.seen = IF op = "stop" THEN chats[id] ELSE Absent])
  /\ UNCHANGED <<file, writing, chatID, hasTask, chatRun, chatMutex, sent>>

CreateChat(r) ==
  /\ doing[r] = Nothing
  /\ \E agent \in {"claude", "omp", "codex"} :
       /\ agent \in TaskAgents => hasTask
       /\ Becomes(r, IF agent = "claude"
                     THEN [Nothing EXCEPT !.op = "create", !.stage = "save", !.id = r, !.copy = NewChat(agent)]
                     ELSE [Nothing EXCEPT !.op = "create", !.stage = "omp", !.agent = agent])
  /\ UNCHANGED <<file, writing, chatID, hasTask, chatRun, chatMutex, sent>>

(* stopChat of a plain chat: the session is loaded and saved as idle.      *)
StopPlain(r) ==
  /\ Free("active")
  /\ \E c \in PlainChats : Begins(r, "stop", "save", c, [chats[c] EXCEPT !.status = "idle"])

(* updateSession goes through Update, one call of the store.               *)
Rename(r) ==
  /\ Free("active")
  /\ \E c \in ChatIds : chats[c] # Absent /\ Begins(r, "rename", "save", c, Absent)

(* deleteSession refuses a chat that is bound to a Task.                   *)
DeletePlain(r) ==
  /\ Free("active")
  /\ \E c \in PlainChats : Begins(r, "delete", "save", c, Absent)

(* sendMessage: the session is looked up, and then StartChat waits for the *)
(* mutex of the manager.                                                   *)
Send(r) ==
  /\ Free("active") /\ TaskChats # {} /\ hasTask
  /\ Begins(r, "message", "enter", "none", Absent)

-----------------------------------------------------------------------------
(* The manager.                                                            *)

Active == chatRun.stage \in {"streams", "cancelled"}

(* StartChat queues the message behind the answer that streams or starts a *)
(* run, with the chat of the workflow, one it finds or a new one.          *)
StartChat(r) ==
  /\ doing[r].stage = "enter" /\ chatMutex = "none"
  /\ IF ~hasTask THEN Leaves(r) /\ UNCHANGED sent
     ELSE /\ sent < MaxMessages
          /\ sent' = sent + 1
          /\ chatMutex' = r
          /\ Becomes(r, [doing[r] EXCEPT !.msg = sent', !.op = IF Active THEN "queue" ELSE "send",
                           !.stage = IF Active \/ chatID = "none" THEN "omp" ELSE "get"])
  /\ UNCHANGED <<file, writing, chatID, hasTask, chatRun>>

GetChat(r) ==
  /\ At(r, "get")
  /\ IF chats[chatID] # Absent THEN Takes(r, chatID)
     ELSE /\ Becomes(r, [doing[r] EXCEPT !.stage = "omp"])
          /\ UNCHANGED <<chatID, chatMutex>>
  /\ UNCHANGED <<file, writing, hasTask, chatRun, sent>>

(* ensureSnapshotChatLocked, while the workflow has no chat.               *)
Snapshot(r) ==
  /\ doing[r] = Nothing
  /\ hasTask /\ chatMutex = "none" /\ chatID = "none"
  /\ chatMutex' = r
  /\ \E s \in {"active", r} :
       Becomes(r, [Nothing EXCEPT !.op = "snapshot", !.stage = "omp", !.store = s])
  /\ UNCHANGED <<file, writing, chatID, hasTask, chatRun, sent>>

StopTaskChat(r) ==
  /\ doing[r] = Nothing
  /\ chatMutex = "none" /\ chatRun.stage = "streams"
  /\ chatRun' = [chatRun EXCEPT !.stage = "cancelled"]
  /\ Becomes(r, [Nothing EXCEPT !.op = "done"])
  /\ UNCHANGED <<file, writing, chatID, hasTask, chatMutex, sent>>

(* saveChatMessage: the reader of the adapter stores the answer so far,    *)
(* without the mutex of the manager, and also when the run was cancelled.  *)
UpdateAnswer ==
  /\ Active /\ doing["reader"] = Nothing
  /\ chatRun.updates < MaxUpdates
  /\ chatRun' = [chatRun EXCEPT !.updates = @ + 1]
  /\ Becomes("reader", [Nothing EXCEPT !.op = "update", !.stage = "omp", !.store = chatRun.store])
  /\ UNCHANGED <<file, writing, chatID, hasTask, chatMutex, sent>>

(* finishChatRun and finalizeChatMessage, under the mutex.  The reader has *)
(* stored its updates when the prompt was answered, not when the run was   *)
(* cancelled.  The status is idle or, after a failure, error.              *)
FinishChat ==
  /\ chatRun.stage = "cancelled" \/ (chatRun.stage = "streams" /\ doing["reader"] = Nothing)
  /\ chatMutex = "none"
  /\ chatMutex' = "run"
  /\ Becomes("run", [Nothing EXCEPT !.op = "finish", !.stage = "omp", !.store = chatRun.store])
  /\ chatRun' = NoChatRun
  /\ UNCHANGED <<file, writing, chatID, hasTask, sent>>

-----------------------------------------------------------------------------
(* The Task is deleted, after which a hook deletes its chats, from any     *)
(* store; and the server ends and starts again.                            *)

DeleteTask ==
  /\ hasTask
  /\ hasTask' = FALSE
  /\ \E s \in {"active", "hook"} :
       Becomes("hook", [Nothing EXCEPT !.op = "wipe", !.stage = "save", !.store = s])
  /\ UNCHANGED <<file, writing, chatID, chatRun, chatMutex, sent>>

RestartServer ==
  /\ Active \/ \E a \in Actors : doing[a].op \notin {"none", "done"}
  /\ chats' = MarkAllIdle
  /\ writing' = [s \in Stores |-> {}]
  /\ doing' = [a \in Actors |->
       CASE doing[a].op = "none" \/ a \in {"run", "reader"} -> Nothing
         [] doing[a].op = "wipe" -> [doing[a] EXCEPT !.stage = "save", !.late = FALSE]
         [] OTHER -> [Nothing EXCEPT !.op = "done"]]
  /\ chatRun' = NoChatRun /\ chatMutex' = "none"
  /\ UNCHANGED <<stored, deleted, chatID, hasTask, sent>>

ChatNext ==
  \/ \E r \in Requests :
       \/ CreateChat(r) \/ StopPlain(r) \/ Rename(r) \/ DeletePlain(r) \/ Send(r) \/ StartChat(r)
       \/ GetChat(r) \/ Snapshot(r) \/ StopTaskChat(r)
  \/ \E a \in Actors : FindChat(a) \/ FindCodexChat(a) \/ ReadToWrite(a) \/ Write(a)
  \/ UpdateAnswer \/ FinishChat \/ DeleteTask \/ RestartServer

ChatSpec == ChatInit /\ [][ChatNext]_chatVars

-----------------------------------------------------------------------------
(* Properties.                                                             *)

(* Whether a write is under way whose content is old: the file was written *)
(* through another store since it was read, or the session was changed or  *)
(* deleted since the handler loaded it, or, for a new chat of the Task, the*)
(* Task has got one or is gone since the handler looked.                   *)
Overtaken ==
  \E a \in Actors :
    /\ doing[a].stage = "write"
    /\ \/ doing[a].late
       \/ doing[a].op \notin {"rename", "delete", "wipe"} /\ doing[a].seen # chats[doing[a].id]
       \/ doing[a].copy.agent \in TaskAgents /\ doing[a].seen = Absent
            /\ (TaskChats # {} \/ ~hasTask)

(* Whether a chat of codex was made one of omp between a search for a chat *)
(* of omp and the search for one of codex, so that neither finds it.       *)
Overlooked == \E a \in Actors : doing[a].stage = "codex" /\ Found("codex") = {} /\ Found("omp") # {}

Answering == Active \/ doing["run"].op = "finish"
MessagesLost == \E c \in ChatIds : chats[c].msgs \ chats'[c].msgs # {} /\ chats'[c] # Absent
TitleLost == \E c \in ChatIds : chats[c].title > chats'[c].title /\ chats'[c] # Absent
ChatLost == \E c \in ChatIds \ deleted' : chats[c] # Absent /\ chats'[c] = Absent
ChatReturns ==
  \E c \in ChatIds : /\ chats[c] = Absent /\ chats'[c] # Absent
                     /\ \/ c \in deleted
                        \/ doing["hook"].op = "done" /\ chats'[c].agent \in TaskAgents
SecondTaskChat == Cardinality(TaskChats') > 1 /\ Cardinality(TaskChats) <= 1
StreamsAlone ==
  \E c \in ChatIds : chats'[c].status = "streaming" /\ ~Answering'
                     /\ (chats[c].status # "streaming" \/ Answering)

(* A message that was accepted, a new title, a chat, a deletion, the one   *)
(* chat of a Task and the end of an answer are undone in two ways only: by *)
(* a call that writes what it loaded before another changed it, a copy of  *)
(* the session or, between two stores, the file ("Update applies a         *)
(* read-modify-write under the chat store lock": a lock of that store), and*)
(* by a search in two calls that overlooks the chat.  A Task that has got  *)
(* two chats that way may have the wrong one finalized.                    *)
ChatLostInTwoWays ==
  [][ (MessagesLost \/ TitleLost \/ ChatLost \/ ChatReturns \/ SecondTaskChat \/ StreamsAlone)
        => (Overtaken \/ Overlooked \/ Cardinality(TaskChats) > 1) ]_chatVars
=============================================================================
