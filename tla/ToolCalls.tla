------------------------------- MODULE ToolCalls -------------------------------
(***************************************************************************)
(* The calls a coding agent makes over the Model Context Protocol.  A      *)
(* guard in front of the handlers asks the permission preset of the user's *)
(* configuration, read anew for every call; the handlers change the store; *)
(* a hook behind them appends the call to a log, which is renamed when it  *)
(* is full.  Several agents each run a process of their own, and all of    *)
(* them append to the same log.                                            *)
(***************************************************************************)
EXTENDS Naturals, Sequences, FiniteSets

CONSTANTS
  Calls, Plain,            \* calls being handled; those that can only create a document (a bound)
  Processes,               \* the processes of the agents
  MaxChanges,              \* bound on changes of the preset
  MaxDeaths                \* bound on deaths of a process

VARIABLES
  preset,      \* the preset of the configuration; "broken" when the file cannot be read
  home,        \* the process that handles each call
  call,        \* what each call asks, and where it is
  order,       \* the calls in the order their events were written
  slot, holds, \* the log and its two backups name files; what each file holds
  appending,   \* the call for which each process holds the mutex of its log
  unfiled,     \* calls that changed the store and whose event did not go to the log of that moment, if to any
  crossed,     \* two processes renamed the log at the same time, or one died while it did
  changes, deaths

toolVars == <<preset, home, call, order, slot, holds, appending, unfiled, crossed, changes, deaths>>

NoName == "none"
Presets == {"read-only", "read-write", "read-write-no-delete", "generate-dry-run", "unknown", "broken"}

(* How the registry classifies what the agents can ask; what is not in it  *)
(* counts as reading.                                                      *)
ActionRegistry ==
  LET writes == {"docs.create", "memo.update", "validate.fix"}
      deletes == {"docs.delete", "memo.delete", "tasks.hard_delete"} IN
  [a \in writes \union deletes \union {"tasks.archive", "templates.run", "project.set", "docs.get"} |->
     CASE a \in writes -> "write" [] a \in deletes -> "delete" [] a = "tasks.archive" -> "archive"
       [] a = "templates.run" -> "generate" [] a = "project.set" -> "admin" [] OTHER -> "read"]
Unlisted == {"docs.restore", "link.delete"}
Actions == DOMAIN ActionRegistry \union Unlisted
ClassifyAction(a) == IF a \in DOMAIN ActionRegistry THEN ActionRegistry[a] ELSE "read"

(* A call: its action; dryRun absent, true or false; and whether it asks   *)
(* for the change itself (confirmed with a reason, or execute).            *)
Previewed == {"docs.delete", "memo.delete", "templates.run"}
Confirmed == {"docs.delete", "memo.delete", "tasks.hard_delete", "tasks.archive"}
Nothing == [action |-> "docs.get", dry |-> "absent", meant |-> FALSE]
Asks ==
  {asks \in [action : Actions, dry : {"absent", "true", "false"}, meant : BOOLEAN] :
     (asks.dry /= "absent" => asks.action \in Previewed) /\ (asks.meant => asks.action \in Confirmed)}
Idle == [at |-> "idle", asks |-> Nothing, policy |-> NoName, did |-> NoName, changed |-> FALSE, fd |-> 0]

(* The presets.                                                            *)
DefaultPreset == "read-write-no-delete"
EffectivePolicy(p) == IF p \in {"unknown", "broken"} THEN DefaultPreset ELSE p
Denied(p) ==
  CASE p = "read-only" -> {"write", "generate", "archive", "delete", "admin"}
    [] p = "read-write" -> {"admin"}
    [] p = "read-write-no-delete" -> {"delete", "admin"}
    [] p = "generate-dry-run" -> {"write", "delete", "admin", "archive"}

(* A capability is denied, or needs a preview, or for a deletion a preview *)
(* or the user's confirmation.                                             *)
OnceAllowed(p, cap, dry) == cap \notin Denied(p) /\ ~(p = "generate-dry-run" /\ cap = "generate" /\ ~dry)
CheckCapability(p, cap, dry) ==
  /\ cap \notin Denied(p)
  /\ ~(p = "generate-dry-run" /\ cap = "generate" /\ ~dry)
  /\ ~(p = "read-write" /\ cap = "delete" /\ ~dry)

(* What the guard leaves to the handlers: finding the project, and the     *)
(* life of Tasks.                                                          *)
IsBootstrapAction(a) == a = "project.set"
IsPublicTaskLifecycleAction(a) == a \in {"tasks.archive", "tasks.hard_delete"}

Guarded(asks) == ~IsBootstrapAction(asks.action) /\ ~IsPublicTaskLifecycleAction(asks.action)
Permits(asks, p) ==
  LET cap == ClassifyAction(asks.action) IN
  ~Guarded(asks) \/ CheckCapability(p, cap, asks.dry = "true" \/ (cap = "delete" /\ asks.meant))

(* The kind of change a handler makes when it is called.  A document is    *)
(* deleted only when dryRun is false, a memo whatever it says, and running *)
(* a template writes nothing.  The Task handler reads the preset itself,   *)
(* and lets nothing through when it cannot.                                *)
LifecycleAllows(cap) == preset /= "broken" /\ cap \notin Denied(EffectivePolicy(preset))
Change(asks) ==
  CASE asks.action \in {"docs.create", "memo.update", "validate.fix", "docs.restore"} -> "write"
    [] asks.action = "docs.delete" /\ asks.dry = "false" -> "delete"
    [] asks.action \in {"memo.delete", "link.delete"} -> "delete"
    [] asks.action = "tasks.archive" /\ asks.meant /\ LifecycleAllows("archive") -> "archive"
    [] asks.action = "tasks.hard_delete" /\ asks.meant /\ LifecycleAllows("delete") -> "delete"
    [] asks.action = "project.set" -> "selection"
    [] OTHER -> NoName

ToolInit ==
  /\ preset \in Presets /\ home \in [Calls -> Processes]
  /\ call = [c \in Calls |-> Idle] /\ order = <<>>
  /\ slot = [s \in 0..2 |-> s + 1] /\ holds = [f \in 1..3 |-> <<"before">>]
  /\ appending = [p \in Processes |-> NoName] /\ unfiled = {} /\ crossed = FALSE
  /\ changes = 0 /\ deaths = 0

-------------------------------------------------------------------------------
Becomes(c, r) == call' = [call EXCEPT ![c] = r]

(* A call arrives: it is noted as under way, and the guard reads the       *)
(* preset, that of the user's own store, whichever project is selected.    *)
Call(c) ==
  \E asks \in (IF c \in Plain THEN {[Nothing EXCEPT !.action = "docs.create"]} ELSE Asks) :
    /\ call[c] = Idle
    /\ Becomes(c, IF Permits(asks, EffectivePolicy(preset))
               THEN [Idle EXCEPT !.at = "handler", !.asks = asks, !.policy = EffectivePolicy(preset)]
               ELSE [Idle EXCEPT !.at = "hook"])
    /\ UNCHANGED <<preset, home, order, slot, holds, appending, unfiled, crossed, changes, deaths>>

(* The handler does what it was asked for.                                 *)
Handle(c) ==
  /\ call[c].at = "handler"
  /\ Becomes(c, [call[c] EXCEPT !.at = "hook", !.did = Change(call[c].asks), !.changed = Change(call[c].asks) /= NoName])
  /\ UNCHANGED <<preset, home, order, slot, holds, appending, unfiled, crossed, changes, deaths>>

(* A handler that returns an error of its own, as those of links and memos *)
(* do, or that panics: the hook is not run.  Nothing is changed, but that a*)
(* link which cannot be removed has lost its images already.               *)
HandlerError(c) ==
  /\ call[c].at = "handler" /\ call[c].asks.action \in {"memo.update", "memo.delete", "link.delete"}
  /\ \/ Becomes(c, [Idle EXCEPT !.at = "done"]) /\ UNCHANGED unfiled
     \/ /\ call[c].asks.action = "link.delete"
        /\ Becomes(c, [call[c] EXCEPT !.at = "done", !.did = "delete", !.changed = TRUE])
        /\ unfiled' = unfiled \union {c}
  /\ UNCHANGED <<preset, home, order, slot, holds, appending, crossed, changes, deaths>>

-------------------------------------------------------------------------------
(* The log is one file with two backups; a file is full when it holds      *)
(* auditMaxFileSize, here one event.                                       *)
auditMaxFileSize == 1
Rotating == {"drop", "shift", "rename"}

(* The event is appended under the mutex of the process; a full log is     *)
(* first renamed away.                                                     *)
Full == slot[0] /= 0 /\ Len(holds[slot[0]]) >= auditMaxFileSize
AfterCall(c) ==
  /\ call[c].at = "hook" /\ appending[home[c]] = NoName
  /\ appending' = [appending EXCEPT ![home[c]] = c]
  /\ Becomes(c, [Idle EXCEPT !.at = IF Full THEN "drop" ELSE "open", !.changed = call[c].changed])
  /\ crossed' = (crossed \/ (Full /\ \E d \in Calls : call[d].at \in Rotating))
  /\ UNCHANGED <<preset, home, order, slot, holds, unfiled, changes, deaths>>

(* Away with the oldest backup, the younger one takes its name, and the    *)
(* log becomes the younger one.                                            *)
Moved(from, to) == IF slot[from] = 0 THEN slot ELSE [slot EXCEPT ![to] = slot[from], ![from] = 0]
RenamedFirst(at) == IF at = "drop" THEN Moved(0, 1) ELSE IF at = "shift" THEN Moved(1, 2) ELSE slot
Renamed(at) == IF at = "drop" THEN [slot EXCEPT ![2] = 0] ELSE IF at = "shift" THEN Moved(1, 2) ELSE Moved(0, 1)
RotateIfNeeded(c) ==
  /\ call[c].at \in Rotating
  /\ slot' = Renamed(call[c].at)
  /\ Becomes(c, [call[c] EXCEPT !.at = IF @ = "drop" THEN "shift" ELSE IF @ = "shift" THEN "rename" ELSE "open"])
  /\ UNCHANGED <<preset, home, order, holds, appending, unfiled, crossed, changes, deaths>>

(* The log is opened, made when it is not there, and the event is written  *)
(* to the file that was opened, whatever its name is by now.               *)
OpenLog(c) ==
  LET f == IF slot[0] /= 0 THEN slot[0] ELSE Len(holds) + 1 IN
  /\ call[c].at = "open"
  /\ slot' = [slot EXCEPT ![0] = f] /\ holds' = IF f > Len(holds) THEN Append(holds, <<>>) ELSE holds
  /\ Becomes(c, [call[c] EXCEPT !.at = "write", !.fd = f])
  /\ UNCHANGED <<preset, home, order, appending, unfiled, crossed, changes, deaths>>
WriteEvent(c) ==
  /\ call[c].at = "write"
  /\ holds' = [holds EXCEPT ![call[c].fd] = Append(@, c)] /\ order' = Append(order, c)
  /\ appending' = [appending EXCEPT ![home[c]] = NoName]
  /\ unfiled' = IF call[c].changed /\ call[c].fd /= slot[0] THEN unfiled \union {c} ELSE unfiled
  /\ Becomes(c, [call[c] EXCEPT !.at = "done", !.fd = 0])
  /\ UNCHANGED <<preset, home, slot, crossed, changes, deaths>>

(* The log cannot be opened or written: the hook notes it elsewhere, and   *)
(* the call succeeds.                                                      *)
AppendFails(c) ==
  /\ call[c].at \in {"open", "write"}
  /\ appending' = [appending EXCEPT ![home[c]] = NoName]
  /\ unfiled' = IF call[c].changed THEN unfiled \union {c} ELSE unfiled
  /\ Becomes(c, [call[c] EXCEPT !.at = "done", !.fd = 0])
  /\ UNCHANGED <<preset, home, order, slot, holds, crossed, changes, deaths>>

-------------------------------------------------------------------------------
(* The user selects another preset, or leaves the file unreadable.         *)
SetPreset ==
  /\ changes < MaxChanges /\ changes' = changes + 1 /\ preset' \in Presets \ {preset}
  /\ UNCHANGED <<home, call, order, slot, holds, appending, unfiled, crossed, deaths>>

(* The agent goes away, and with it the process and all its calls.         *)
ProcessDies(p) ==
  LET lost == {c \in Calls : home[c] = p /\ call[c].at \notin {"idle", "done"}} IN
  /\ deaths < MaxDeaths /\ deaths' = deaths + 1 /\ lost /= {}
  /\ call' = [c \in Calls |-> IF c \in lost THEN [Idle EXCEPT !.at = "done", !.changed = call[c].changed] ELSE call[c]]
  /\ unfiled' = unfiled \union {c \in lost : call[c].changed}
  /\ appending' = [appending EXCEPT ![p] = NoName]
  /\ crossed' = (crossed \/ \E c \in lost : call[c].at = "rename")
  /\ UNCHANGED <<preset, home, order, slot, holds, changes>>

ToolNext ==
  \/ \E c \in Calls : Call(c) \/ Handle(c) \/ HandlerError(c) \/ AfterCall(c) \/ RotateIfNeeded(c)
                      \/ OpenLog(c) \/ WriteEvent(c) \/ AppendFails(c)
  \/ SetPreset \/ \E p \in Processes : ProcessDies(p)

ToolSpec == ToolInit /\ [][ToolNext]_toolVars

-------------------------------------------------------------------------------
(* What each preset promises the user may be changed.                      *)
Promised(p) ==
  CASE p = "read-only" -> {} [] p = "generate-dry-run" -> {} [] p = "read-write-no-delete" -> {"write", "archive"}
    [] p = "read-write" -> {"write", "archive", "delete"}

(* A handler changes the store only as the preset its guard read promises: *)
(* nothing under read-only and generate-dry-run, no deletion under the     *)
(* default, and under read-write none that was neither confirmed nor asked *)
(* for without a preview (NewGuardMiddleware).  The known ways around it:  *)
(* selecting the project is always allowed, what the registry does not     *)
(* list counts as reading, a memo is deleted by its preview, and the life  *)
(* of a Task goes by the preset the handler reads.                         *)
PresetIsKept ==
  \A c \in Calls : LET e == call[c] IN
    e.did /= NoName =>
      \/ e.did \in Promised(e.policy) /\ (e.did = "delete" => e.asks.meant)
      \/ e.did = "selection" \/ e.asks.action \in Unlisted
      \/ e.asks.action = "memo.delete" /\ e.asks.dry = "true" /\ e.policy = "read-write"
      \/ IsPublicTaskLifecycleAction(e.asks.action) /\ changes > 0

(* A change whose call has ended is on record, in the log or a backup      *)
(* (afterCallTool and Append), until as many newer events as fill two      *)
(* files.  It may be lost earlier when its process died before the event   *)
(* was written, when the handler failed over a link whose images it had    *)
(* removed, when the log could not be written, when it was renamed between *)
(* being opened and written, when two processes renamed it at the same     *)
(* time, or when one died between moving the backup on and renaming the    *)
(* log.                                                                    *)
OnRecord(c) == \E s \in 0..2 : slot[s] /= 0 /\ \E i \in DOMAIN holds[slot[s]] : holds[slot[s]][i] = c
Newer(c) == Cardinality({d \in Calls : \E i, j \in DOMAIN order : i < j /\ order[i] = c /\ order[j] = d})
ChangesAreOnRecord ==
  \A c \in Calls :
    call[c].at = "done" /\ call[c].changed =>
      OnRecord(c) \/ c \in unfiled \/ crossed \/ Newer(c) >= 2 * auditMaxFileSize
===============================================================================
