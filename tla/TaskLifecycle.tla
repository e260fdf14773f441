---------------------------- MODULE TaskLifecycle ----------------------------
(***************************************************************************)
(* The Task lifecycle service (internal/tasklifecycle on internal/storage):*)
(* archive, reopen, hard-delete, update and the automatic sweep, run by    *)
(* several processes (CLI, MCP server, browser server) over one store of   *)
(* files.                                                                  *)
(*                                                                         *)
(* A transaction holds the cross-process lifecycle lock.  Every file it    *)
(* writes is replaced atomically, but a transaction is several writes: the *)
(* process may die, or a write may fail, between any two.  Every archive,  *)
(* reopen and hard-delete leaves a pending record, written before its      *)
(* first effect, from which a later call resumes it and from which its     *)
(* event is delivered and its index entry refreshed outside the lock,      *)
(* under a claim with a lease.                                             *)
(*                                                                         *)
(* Transactions that make a single write are one step here; the others are *)
(* one step per write, with holder naming the process inside.              *)
(*                                                                         *)
(* A definition that stands directly before another and has its parameters *)
(* (AnybodyMayEnter before LockFree, ...) is a mutation of it: a mistake   *)
(* the properties are shown to catch.  No action uses it.                  *)
(***************************************************************************)
EXTENDS LifecyclePolicy, Integers, Sequences

CONSTANTS
  Procs,         \* processes that run lifecycle operations
  NoProc,        \* nobody
  NoRecord,      \* no pending file under this event ID
  Reasons,       \* the audit reasons hard-deletes are called with
  Calls,         \* the operations callers issue in this instance
  InitialTasks,  \* the states a Task file may start in
  MaxEvents,     \* bound: lifecycle events ever created
  MaxCrashes,    \* bound: process deaths
  MaxFaults,     \* bound: writes, waits and hooks that return an error
  SlowHooks      \* bound: whether a hook may take longer than its lease

NoEvent == 0
Events == 1 .. MaxEvents
NoReason == "none"

AllCalls ==
  {"archive", "sweep", "reopen", "delete", "update", "create", "startTimer", "stopTimer"}

ASSUME ProcsAssumption == NoProc \notin Procs
ASSUME ReasonsAssumption == NoReason \notin Reasons /\ Reasons \cap Status = {}
ASSUME CallsAssumption == Calls \subseteq AllCalls
ASSUME InitialTasksAssumption == InitialTasks \subseteq TaskData
ASSUME BoundsAssumption ==
  MaxEvents \in Nat /\ MaxCrashes \in Nat /\ MaxFaults \in Nat /\ SlowHooks \in BOOLEAN

VARIABLES
  task,       \* [Tasks -> TaskData]: the Task files
  tombstone,  \* [Tasks -> Reasons \cup {NoReason}]: deletion tombstones
  history,    \* [Tasks -> Seq(event or NoEvent)]: version files
  timers,     \* the Tasks with an active timer
  index,      \* [Tasks -> TaskData]: the search index's copy of the Task
  pending,    \* [Events -> record or NoRecord]: task-lifecycle/pending/*.json
  nextEvent,  \* event IDs are fresh; IDs grow with the time of the event
  delivered,  \* the events the sink has accepted
  holder,     \* who holds .search/locks/tasks.lock across several writes
  pc,         \* [Procs -> where the process stands]
  job,        \* [Procs -> the call it executes]
  crashes, faults

files == <<task, tombstone, history, timers>>
outbox == <<pending, nextEvent>>
outside == <<index, delivered>>
memory == <<holder, pc, job>>
bounds == <<crashes, faults>>
vars == <<task, tombstone, history, timers, index, pending, nextEvent,
          delivered, holder, pc, job, crashes, faults>>

Phases == {"move", "patch", "version", "canonical"}
Effects == {"event", "derived"}

(* A lease is "fresh" for taskLifecycleClaimLease after the claim.         *)
Claim == [by: Procs \cup {NoProc}, fresh: BOOLEAN]
NoClaim == [by |-> NoProc, fresh |-> FALSE]

(* TaskLifecyclePending.  done holds the completed phases, applied the     *)
(* side effects (EventDelivered, DerivedApplied); original and desired are *)
(* NoTask in a hard-delete record, which has neither.                      *)
Record ==
  [op: {"archive", "reopen", "hard_delete"}, task: Tasks,
   original: TaskData, desired: TaskData, done: SUBSET Phases,
   applied: SUBSET Effects, claim: [Effects -> Claim]]

ASSUME NoRecordAssumption == NoRecord \notin Record

PendingRecord(op, t, original, desired) ==
  [op |-> op, task |-> t, original |-> original, desired |-> desired,
   done |-> {}, applied |-> {}, claim |-> [k \in Effects |-> NoClaim]]

(* A call in progress: its arguments; batch, the Tasks a sweep has still to *)
(* do; queue, the records a flush has still to do; ev, the event at hand;   *)
(* quiet, that neither the transaction nor a flush has done anything yet;   *)
(* snap, the Task as this process read it.                                  *)
Job ==
  {j \in [op: AllCalls \cup {"none"}, task: Tasks \cup {NoParent},
          arg: Reasons \cup Status \cup {NoReason}, batch: SUBSET Tasks,
          queue: SUBSET Events, ev: Events \cup {NoEvent}, effect: Effects,
          stage: {"pre", "post", "last"}, quiet: BOOLEAN, snap: TaskData] :
     /\ j.op = "reopen" => j.arg \in Status
     /\ j.op = "delete" => j.arg \in Reasons}

NoJob ==
  [op |-> "none", task |-> NoParent, arg |-> NoReason, batch |-> {},
   queue |-> {}, ev |-> NoEvent, effect |-> "event", stage |-> "pre", quiet |-> TRUE,
   snap |-> NoTask]

NewJob(op, t, arg) == [NoJob EXCEPT !.op = op, !.task = t, !.arg = arg]

(* Places where a process waits for the lock, and where it is inside a     *)
(* transaction of several writes.                                          *)
Waiting ==
  {"list", "flush", "claim", "complete", "release", "commitIndex", "removeIndex",
   "txn", "createVersion"}

Forward == {"move", "saveMove", "patch", "savePatch", "version", "saveVersion", "saveCanonical"}
Undo == {"undoVersion", "undoPatch", "undoMove", "undoRecord"}
Deleting == {"deleteRecord", "deleteFile", "deleteHistory", "deleteTime", "deleteSave"}
Editing == {"editVersion", "editUndo", "stopVersion", "stopUndo"}
Holding == Forward \cup Undo \cup Deleting \cup Editing
Places == {"idle", "batch", "next", "emit", "readIndex"} \cup Waiting \cup Holding

AnybodyMayEnter == TRUE
LockFree == holder = NoProc

(* TaskStore.IsIDReserved: a tombstone keeps the ID from being used again.  *)
NeverReserved(t) == FALSE
IsIDReserved(t) == tombstone[t] # NoReason

(* What the index stores of a Task: a fingerprint of the file, which the   *)
(* passing of time does not change.                                        *)
Content(d) ==
  [d EXCEPT !.completedAt = IF d.completedAt = "none" THEN "none" ELSE "recent"]

Init ==
  /\ task \in [Tasks -> InitialTasks]
  /\ tombstone = [t \in Tasks |-> NoReason]
  /\ history = [t \in Tasks |-> <<>>]
  /\ timers = {}
  /\ index = [t \in Tasks |-> Content(task[t])]
  /\ pending = [e \in Events |-> NoRecord]
  /\ nextEvent = 1
  /\ delivered = {}
  /\ holder = NoProc
  /\ pc = [p \in Procs |-> "idle"]
  /\ job = [p \in Procs |-> NoJob]
  /\ crashes = 0
  /\ faults = 0

-----------------------------------------------------------------------------
(* Control flow shared by all operations.                                  *)

Goto(p, place) == pc' = [pc EXCEPT ![p] = place]

(* The call returns.  A sweep goes on with its next Task.                  *)
Finish(p) ==
  IF job[p].op = "sweep"
  THEN /\ Goto(p, "batch")
       /\ job' = [job EXCEPT ![p] = [NoJob EXCEPT !.op = "sweep", !.batch = job[p].batch]]
  ELSE /\ Goto(p, "idle")
       /\ job' = [job EXCEPT ![p] = NoJob]

(* The transaction function returns: the lock is released, the post-flush  *)
(* follows.  quiet says whether the call has changed nothing so far.       *)
EndTransaction(p, quiet) ==
  /\ holder' = NoProc
  /\ Goto(p, "flush")
  /\ job' = [job EXCEPT ![p].stage = "post", ![p].quiet = quiet, ![p].ev = NoEvent]

(* A call begins.  Archive, Reopen and HardDelete flush first; the sweep   *)
(* first resolves its Task IDs.                                            *)
Call(p, op, t, arg) ==
  /\ pc[p] = "idle"
  /\ op \in Calls
  /\ Goto(p, "flush")
  /\ job' = [job EXCEPT ![p] = NewJob(op, t, arg)]
  /\ UNCHANGED <<files, outbox, outside, holder, bounds>>

CallSweep(p) ==
  /\ pc[p] = "idle"
  /\ "sweep" \in Calls
  /\ Goto(p, "list")
  /\ job' = [job EXCEPT ![p] = NewJob("sweep", NoParent, NoReason)]
  /\ UNCHANGED <<files, outbox, outside, holder, bounds>>

(* resolveBatchIDs with no explicit IDs: done active Tasks and the Tasks   *)
(* of all pending archive records.                                         *)
ResolveBatchIDs(p) ==
  /\ pc[p] = "list"
  /\ LockFree
  /\ Goto(p, "batch")
  /\ job' = [job EXCEPT ![p].batch =
       {t \in Tasks : task[t].dir = "tasks" /\ task[t].status = "done"}
       \cup {pending[e].task : e \in {f \in Events : pending[f] # NoRecord /\ pending[f].op = "archive"}}]
  /\ UNCHANGED <<files, outbox, outside, holder, bounds>>

NextInBatch(p) ==
  /\ pc[p] = "batch"
  /\ \/ /\ job[p].batch = {}
        /\ Goto(p, "idle")
        /\ job' = [job EXCEPT ![p] = NoJob]
     \/ \E t \in job[p].batch :
          /\ Goto(p, "flush")
          /\ job' = [job EXCEPT ![p] = [NewJob("sweep", t, NoReason)
                                          EXCEPT !.batch = job[p].batch \ {t}]]
  /\ UNCHANGED <<files, outbox, outside, holder, bounds>>

-----------------------------------------------------------------------------
(* flushTaskLifecyclePending: deliver the event and refresh the index for   *)
(* every record of the Task whose canonical mutation is complete.           *)

NoneForDelete(op) == IF op = "hard_delete" THEN {} ELSE Phases
RequiredPhases(op) == IF op = "hard_delete" THEN {"canonical"} ELSE Phases
Ready(r) == RequiredPhases(r.op) \subseteq r.done

ReadyRecords(t) ==
  {e \in Events : pending[e] # NoRecord /\ pending[e].task = t /\ Ready(pending[e])}

ListReady(p) ==
  /\ pc[p] = "flush"
  /\ LockFree
  /\ LET ready == ReadyRecords(job[p].task)
     IN job' = [job EXCEPT ![p].queue = ready, ![p].quiet = @ /\ ready = {}]
  /\ Goto(p, "next")
  /\ UNCHANGED <<files, outbox, outside, holder, bounds>>

(* Records are taken in the order of their events.  After the last one the *)
(* call goes on: to its transaction, to a repair of the index when neither *)
(* the call nor a flush changed anything, or back to the caller.           *)
NextRecord(p) ==
  /\ pc[p] = "next"
  /\ \/ \E e \in job[p].queue :
          /\ \A f \in job[p].queue : e <= f
          /\ job' = [job EXCEPT ![p].queue = @ \ {e}, ![p].ev = e, ![p].effect = "event"]
          /\ Goto(p, "claim")
     \/ /\ job[p].queue = {}
        /\ job[p].stage = "pre"
        /\ Goto(p, "txn")
        /\ UNCHANGED job
     \/ /\ job[p].queue = {}
        /\ job[p].stage = "post"
        /\ job[p].quiet
        /\ Goto(p, IF job[p].op = "delete" THEN "removeIndex" ELSE "readIndex")
        /\ job' = [job EXCEPT ![p].stage = "last", ![p].ev = NoEvent]
     \/ /\ job[p].queue = {}
        /\ job[p].stage = "post"
        /\ ~job[p].quiet
        /\ Finish(p)
  /\ UNCHANGED <<files, outbox, outside, holder, bounds>>

(* claimPendingPhase: an unexpired claim of somebody else keeps everybody  *)
(* away; an expired one is overwritten.                                    *)
IgnoringLease(claim) == claim = NoClaim
Claimable(claim) == ~claim.fresh
ClaimBy(p) == [by |-> p, fresh |-> TRUE]

ClaimEffect(p) ==
  LET e == job[p].ev
      k == job[p].effect
      r == pending[e]
  IN
  /\ pc[p] = "claim"
  /\ LockFree
  /\ \/ /\ r # NoRecord
        /\ k \notin r.applied
        /\ Claimable(r.claim[k])
        /\ pending' = [pending EXCEPT ![e].claim[k] = ClaimBy(p)]
        /\ Goto(p, IF k = "event" THEN "emit"
                   ELSE IF r.op = "hard_delete" THEN "removeIndex" ELSE "readIndex")
        /\ UNCHANGED job
     \/ /\ r # NoRecord
        /\ k = "event"
        /\ k \in r.applied
        /\ job' = [job EXCEPT ![p].effect = "derived"]
        /\ UNCHANGED <<pending, pc>>
     \/ /\ r = NoRecord
        /\ Goto(p, "next")
        /\ UNCHANGED <<pending, job>>
     \/ /\ r # NoRecord
        /\ IF k \in r.applied THEN k = "derived" ELSE ~Claimable(r.claim[k])
        /\ Goto(p, "next")
        /\ UNCHANGED <<pending, job>>
  /\ UNCHANGED <<files, nextEvent, outside, holder, bounds>>

(* Hooks.Emit, outside the lock.                                           *)
EmitEvent(p) ==
  /\ pc[p] = "emit"
  /\ delivered' = delivered \cup {job[p].ev}
  /\ Goto(p, "complete")
  /\ UNCHANGED <<files, outbox, index, holder, job, bounds>>

(* After the event, whether delivered or not, comes the derived state;     *)
(* after that the next record.                                             *)
AfterEffect(p) ==
  IF job[p].effect = "event"
  THEN Goto(p, "claim") /\ job' = [job EXCEPT ![p].effect = "derived"]
  ELSE Goto(p, "next") /\ UNCHANGED job

(* completePendingPhase: whoever did the work marks the record, whether or *)
(* not the claim is still its own; the second effect removes the record.   *)
WithEffect(r, k) ==
  IF r.applied \cup {k} = Effects THEN NoRecord
  ELSE [r EXCEPT !.applied = @ \cup {k}, !.claim[k] = NoClaim]

CompleteEffect(p) ==
  LET e == job[p].ev IN
  /\ pc[p] = "complete"
  /\ LockFree
  /\ pending' = IF pending[e] = NoRecord THEN pending
                ELSE [pending EXCEPT ![e] = WithEffect(@, job[p].effect)]
  /\ AfterEffect(p)
  /\ UNCHANGED <<files, nextEvent, outside, holder, bounds>>

(* releasePendingClaim gives back only this process's own claim.  A failed *)
(* delivery is a warning, a failed index hook fails the call.              *)
ReleaseClaim(p) ==
  LET e == job[p].ev
      k == job[p].effect
  IN
  /\ pc[p] = "release"
  /\ LockFree
  /\ pending' = IF pending[e] # NoRecord /\ pending[e].claim[k].by = p
                THEN [pending EXCEPT ![e].claim[k] = NoClaim] ELSE pending
  /\ IF k = "event" THEN AfterEffect(p) ELSE Finish(p)
  /\ UNCHANGED <<files, nextEvent, outside, holder, bounds>>

(* Where an index hook goes next: in a flush it reports its claim, after   *)
(* the call it returns to the caller.                                      *)
IndexDone(p, ok) ==
  IF job[p].stage = "last" THEN Finish(p)
  ELSE /\ Goto(p, IF ok THEN "complete" ELSE "release")
       /\ UNCHANGED job

(* IndexService.IndexTask reads the Task without the lock, embeds it, and  *)
(* commits under the lock after comparing the Task with what it read.      *)
ReadForIndex(p) ==
  /\ pc[p] = "readIndex"
  /\ IF Exists(task[job[p].task])
     THEN /\ Goto(p, "commitIndex")
          /\ job' = [job EXCEPT ![p].snap = Content(task[job[p].task])]
     ELSE IndexDone(p, FALSE)
  /\ UNCHANGED <<files, outbox, outside, holder, bounds>>

(* The two content hashes are compared.                                    *)
AnyContent(now, read) == TRUE
SameContent(now, read) == now = read

CommitIndex(p) ==
  LET t == job[p].task
      now == Content(task[t])
  IN
  /\ pc[p] = "commitIndex"
  /\ LockFree
  /\ \/ /\ \/ ~Exists(task[t])
           \/ IsIDReserved(t)
        /\ index' = [index EXCEPT ![t] = NoTask]
        /\ IndexDone(p, IsIDReserved(t))
     \/ /\ Exists(task[t])
        /\ ~IsIDReserved(t)
        /\ SameContent(now, job[p].snap)
        /\ index' = [index EXCEPT ![t] = job[p].snap]
        /\ IndexDone(p, TRUE)
     \/ /\ Exists(task[t])
        /\ ~IsIDReserved(t)
        /\ ~SameContent(now, job[p].snap)
        /\ index' = [index EXCEPT ![t] = IF now = @ THEN now ELSE NoTask]
        /\ IndexDone(p, now = index[t])
  /\ UNCHANGED <<files, outbox, delivered, holder, bounds>>

RemoveFromIndex(p) ==
  /\ pc[p] = "removeIndex"
  /\ LockFree
  /\ index' = [index EXCEPT ![job[p].task] = NoTask]
  /\ IndexDone(p, TRUE)
  /\ UNCHANGED <<files, outbox, delivered, holder, bounds>>

-----------------------------------------------------------------------------
(* Archive and Reopen.                                                     *)

(* GetIncompleteTaskLifecyclePending: the earliest record of the operation *)
(* that is not ready yet.                                                  *)
Incomplete(t, op) ==
  {e \in Events : /\ pending[e] # NoRecord
                  /\ pending[e].task = t
                  /\ pending[e].op = op
                  /\ ~Ready(pending[e])}

Earliest(S, e) == e \in S /\ \A f \in S : e <= f

(* An interrupted mutation is taken up again from its record, whatever the *)
(* caller asked for this time.                                             *)
Resume(p, op) ==
  /\ \E e \in Events :
       /\ Earliest(Incomplete(job[p].task, op), e)
       /\ job' = [job EXCEPT ![p].ev = e, ![p].quiet = FALSE]
  /\ holder' = p
  /\ Goto(p, "move")
  /\ UNCHANGED <<files, outbox, outside, bounds>>

(* The call fails: the lock, if it was taken, is released.                 *)
Refuse(p) ==
  /\ holder' = IF holder = p THEN NoProc ELSE holder
  /\ Finish(p)
  /\ UNCHANGED <<files, outbox, outside, bounds>>

(* A new mutation: SaveTaskLifecyclePending is its first write.  At the     *)
(* bound on events the call fails as if that write had failed.             *)
Begin(p, op, desired) ==
  LET t == job[p].task IN
  \/ /\ nextEvent <= MaxEvents
     /\ pending' = [pending EXCEPT ![nextEvent] = PendingRecord(op, t, task[t], desired)]
     /\ nextEvent' = nextEvent + 1
     /\ job' = [job EXCEPT ![p].ev = nextEvent, ![p].quiet = FALSE]
     /\ holder' = p
     /\ Goto(p, "move")
     /\ UNCHANGED <<files, outside, bounds>>
  \/ nextEvent > MaxEvents /\ Refuse(p)

(* A transaction that changes nothing.                                     *)
EndUnchanged(p, quiet) ==
  /\ EndTransaction(p, quiet)
  /\ UNCHANGED <<files, outbox, outside, bounds>>

Archiving(p) == pc[p] = "txn" /\ job[p].op \in {"archive", "sweep"} /\ LockFree

ArchiveResume(p) ==
  /\ Archiving(p)
  /\ Exists(task[job[p].task])
  /\ Resume(p, "archive")

(* The move of an eligible Task, or the repair of an archived Task whose   *)
(* file has no archivedAt.                                                 *)
ArchiveBegin(p) ==
  LET t == job[p].task IN
  /\ Archiving(p)
  /\ Incomplete(t, "archive") = {}
  /\ \/ Archived(task[t]) /\ ~task[t].archivedAt
     \/ Eligible(task, timers, t, job[p].op = "sweep")
  /\ Begin(p, "archive", ArchivedForm(task[t]))

ArchiveUnchanged(p) ==
  LET t == job[p].task IN
  /\ Archiving(p)
  /\ Exists(task[t])
  /\ Incomplete(t, "archive") = {}
  /\ \/ /\ Archived(task[t])
        /\ task[t].archivedAt
        /\ EndUnchanged(p, job[p].quiet)
     \/ /\ task[t].dir = "tasks"
        /\ ~Eligible(task, timers, t, job[p].op = "sweep")
        /\ EndUnchanged(p, FALSE)

Reopening(p) == pc[p] = "txn" /\ job[p].op = "reopen" /\ LockFree

ReopenResume(p) ==
  /\ Reopening(p)
  /\ Exists(task[job[p].task])
  /\ Resume(p, "reopen")

ReopenBegin(p) ==
  LET t == job[p].task IN
  /\ Reopening(p)
  /\ Exists(task[t])
  /\ Incomplete(t, "reopen") = {}
  /\ Archived(task[t]) \/ task[t].status = "done"
  /\ Begin(p, "reopen", ReopenedForm(task[t], job[p].arg))

ReopenUnchanged(p) ==
  LET t == job[p].task IN
  /\ Reopening(p)
  /\ Incomplete(t, "reopen") = {}
  /\ task[t].dir = "tasks"
  /\ task[t].status # "done"
  /\ EndUnchanged(p, job[p].quiet)

(* GetTask fails.                                                          *)
TransactionRefused(p) ==
  /\ pc[p] = "txn"
  /\ LockFree
  /\ ~Exists(task[job[p].task])
  /\ job[p].op # "delete"
  /\ Refuse(p)

(* resumeLifecycleMutation: move the file, patch it, append a version, with *)
(* a checkpoint of the record after each, and a last one that makes the     *)
(* mutation count.  Every phase first looks whether it is already done.     *)
MoveFile(p) ==
  LET r == pending[job[p].ev] IN
  /\ pc[p] = "move"
  /\ task' = [task EXCEPT ![r.task].dir = r.desired.dir]
  /\ Goto(p, "saveMove")
  /\ UNCHANGED <<tombstone, history, timers, outbox, outside, holder, job, bounds>>

PatchFile(p) ==
  LET r == pending[job[p].ev] IN
  /\ pc[p] = "patch"
  /\ task' = [task EXCEPT ![r.task] = r.desired]
  /\ Goto(p, "savePatch")
  /\ UNCHANGED <<tombstone, history, timers, outbox, outside, holder, job, bounds>>

(* Versions without an event ID are told apart from lifecycle versions     *)
(* only, so runs of them are kept as one entry.                            *)
Append0(h) == IF h # <<>> /\ h[Len(h)] = NoEvent THEN h ELSE Append(h, NoEvent)

HasNoVersion(h, e) == FALSE
HasVersion(h, e) == \E i \in 1 .. Len(h) : h[i] = e

(* saveVersionUnlocked refuses a Task that has a tombstone.                *)
SaveTaskVersion(p) ==
  LET e == job[p].ev
      t == pending[e].task
  IN
  /\ pc[p] = "version"
  /\ \/ /\ HasVersion(history[t], e)
        /\ Goto(p, "saveVersion")
        /\ UNCHANGED history
     \/ /\ ~HasVersion(history[t], e)
        /\ ~IsIDReserved(t)
        /\ history' = [history EXCEPT ![t] = Append(@, e)]
        /\ Goto(p, "saveVersion")
     \/ /\ ~HasVersion(history[t], e)
        /\ IsIDReserved(t)
        /\ Goto(p, "undoVersion")
        /\ UNCHANGED history
  /\ UNCHANGED <<task, tombstone, timers, outbox, outside, holder, job, bounds>>

PhaseAt(place) ==
  CASE place = "saveMove" -> "move"
    [] place = "savePatch" -> "patch"
    [] place = "saveVersion" -> "version"

AfterPhase(place) ==
  CASE place = "saveMove" -> "patch"
    [] place = "savePatch" -> "version"
    [] place = "saveVersion" -> "saveCanonical"

SavePhase(p) ==
  /\ pc[p] \in {"saveMove", "savePatch", "saveVersion"}
  /\ pending' = [pending EXCEPT ![job[p].ev].done = @ \cup {PhaseAt(pc[p])}]
  /\ Goto(p, AfterPhase(pc[p]))
  /\ UNCHANGED <<files, nextEvent, outside, holder, job, bounds>>

SaveCanonical(p) ==
  /\ pc[p] = "saveCanonical"
  /\ pending' = [pending EXCEPT ![job[p].ev].done = @ \cup {"canonical"}]
  /\ EndTransaction(p, FALSE)
  /\ UNCHANGED <<files, nextEvent, outside, bounds>>

(* rollbackLifecycleMutation: take the version back when it is the last    *)
(* one, restore the content, then the directory, and remove the record.    *)
UndoVersion(p) ==
  LET e == job[p].ev
      t == pending[e].task
      h == history[t]
  IN
  /\ pc[p] = "undoVersion"
  /\ history' = IF h # <<>> /\ h[Len(h)] = e
                THEN [history EXCEPT ![t] = SubSeq(h, 1, Len(h) - 1)] ELSE history
  /\ Goto(p, "undoPatch")
  /\ UNCHANGED <<task, tombstone, timers, outbox, outside, holder, job, bounds>>

UndoPatch(p) ==
  LET r == pending[job[p].ev] IN
  /\ pc[p] = "undoPatch"
  /\ task' = [task EXCEPT ![r.task] = [r.original EXCEPT !.dir = task[r.task].dir]]
  /\ Goto(p, "undoMove")
  /\ UNCHANGED <<tombstone, history, timers, outbox, outside, holder, job, bounds>>

UndoMove(p) ==
  LET r == pending[job[p].ev] IN
  /\ pc[p] = "undoMove"
  /\ task' = [task EXCEPT ![r.task].dir = r.original.dir]
  /\ Goto(p, "undoRecord")
  /\ UNCHANGED <<tombstone, history, timers, outbox, outside, holder, job, bounds>>

UndoRecord(p) ==
  /\ pc[p] = "undoRecord"
  /\ pending' = [pending EXCEPT ![job[p].ev] = NoRecord]
  /\ holder' = NoProc
  /\ Finish(p)
  /\ UNCHANGED <<files, nextEvent, outside, bounds>>

-----------------------------------------------------------------------------
(* HardDelete: tombstone first, then a pending record, the file, its        *)
(* versions and time data, and the canonical checkpoint.  A failure leaves  *)
(* everything written so far for a retry to build on.                       *)

Deletable(p) == pc[p] = "txn" /\ job[p].op = "delete" /\ LockFree

DeleteRecords(t) ==
  {e \in Events : pending[e] # NoRecord /\ pending[e].task = t /\ pending[e].op = "hard_delete"}

(* GetTaskLifecyclePending: the first incomplete record, else the latest.  *)
DeleteRecordOf(t, e) ==
  IF Incomplete(t, "hard_delete") # {}
  THEN Earliest(Incomplete(t, "hard_delete"), e)
  ELSE e \in DeleteRecords(t) /\ \A f \in DeleteRecords(t) : f <= e

(* What follows the tombstone: a new record when none is pending, the      *)
(* cleanup alone when the delete was already completed and flushed.        *)
DeleteFrom(p, quiet) ==
  LET t == job[p].task IN
  /\ holder' = p
  /\ \/ \E e \in Events :
          /\ DeleteRecordOf(t, e)
          /\ Goto(p, "deleteFile")
          /\ job' = [job EXCEPT ![p].ev = e, ![p].quiet = quiet]
     \/ /\ DeleteRecords(t) = {}
        /\ Goto(p, IF Exists(task[t]) THEN "deleteRecord" ELSE "deleteHistory")
        /\ job' = [job EXCEPT ![p].ev = NoEvent, ![p].quiet = quiet]

DeleteBegin(p) ==
  LET t == job[p].task IN
  /\ Deletable(p)
  /\ \/ /\ tombstone[t] = NoReason
        /\ Exists(task[t])
        /\ tombstone' = [tombstone EXCEPT ![t] = job[p].arg]
        /\ DeleteFrom(p, FALSE)
     \/ /\ tombstone[t] = job[p].arg
        /\ DeleteFrom(p, job[p].quiet)
        /\ UNCHANGED tombstone
  /\ UNCHANGED <<task, history, timers, outbox, outside, bounds>>

(* Nothing to delete, or a tombstone with different audit metadata.        *)
DeleteRefused(p) ==
  LET t == job[p].task IN
  /\ Deletable(p)
  /\ IF tombstone[t] = NoReason THEN ~Exists(task[t]) ELSE tombstone[t] # job[p].arg
  /\ Refuse(p)

DeleteRecord(p) ==
  /\ pc[p] = "deleteRecord"
  /\ \/ /\ nextEvent <= MaxEvents
        /\ pending' = [pending EXCEPT ![nextEvent] =
                         PendingRecord("hard_delete", job[p].task, NoTask, NoTask)]
        /\ nextEvent' = nextEvent + 1
        /\ job' = [job EXCEPT ![p].ev = nextEvent]
        /\ Goto(p, "deleteFile")
        /\ UNCHANGED <<files, outside, holder, bounds>>
     \/ nextEvent > MaxEvents /\ Refuse(p)

DeleteFile(p) ==
  LET t == job[p].task IN
  /\ pc[p] = "deleteFile"
  /\ task' = [task EXCEPT ![t] = NoTask]
  /\ job' = [job EXCEPT ![p].quiet = @ /\ ~Exists(task[t])]
  /\ Goto(p, "deleteHistory")
  /\ UNCHANGED <<tombstone, history, timers, outbox, outside, holder, bounds>>

DeleteHistory(p) ==
  /\ pc[p] = "deleteHistory"
  /\ history' = [history EXCEPT ![job[p].task] = <<>>]
  /\ Goto(p, "deleteTime")
  /\ UNCHANGED <<task, tombstone, timers, outbox, outside, holder, job, bounds>>

DeleteTimeData(p) ==
  /\ pc[p] = "deleteTime"
  /\ timers' = timers \ {job[p].task}
  /\ IF job[p].ev = NoEvent
     THEN EndTransaction(p, job[p].quiet)
     ELSE Goto(p, "deleteSave") /\ UNCHANGED <<holder, job>>
  /\ UNCHANGED <<task, tombstone, history, outbox, outside, bounds>>

DeleteSave(p) ==
  /\ pc[p] = "deleteSave"
  /\ pending' = [pending EXCEPT ![job[p].ev].done = @ \cup {"canonical"}]
  /\ EndTransaction(p, job[p].quiet)
  /\ UNCHANGED <<files, nextEvent, outside, bounds>>

-----------------------------------------------------------------------------
(* Edits and time: UpdateTask, Create, the timer commands.                 *)

(* UpdateTask writes the file, then a version; when the version cannot be  *)
(* written it restores the file.  A pending record is not consulted.       *)
UpdateTask(p, t, status) ==
  /\ pc[p] = "idle"
  /\ "update" \in Calls
  /\ LockFree
  /\ task[t].dir = "tasks"
  /\ task[t].status # status
  /\ task' = [task EXCEPT ![t] = ApplyStatusTransition(@, status)]
  /\ holder' = p
  /\ job' = [job EXCEPT ![p] = [NewJob("update", t, status)
                                  EXCEPT !.snap = task[t], !.stage = "last"]]
  /\ Goto(p, "editVersion")
  /\ UNCHANGED <<tombstone, history, timers, outbox, outside, bounds>>

(* StopTimer takes the timer out, then adds the time to the Task with a    *)
(* version.  The time entries themselves are not part of this module.      *)
StopTimer(p, t) ==
  /\ pc[p] = "idle"
  /\ "stopTimer" \in Calls
  /\ LockFree
  /\ task[t].dir = "tasks"
  /\ t \in timers
  /\ timers' = timers \ {t}
  /\ holder' = p
  /\ job' = [job EXCEPT ![p] = [NewJob("stopTimer", t, NoReason) EXCEPT !.stage = "last"]]
  /\ Goto(p, "stopVersion")
  /\ UNCHANGED <<task, tombstone, history, outbox, outside, bounds>>

EditVersion(p) ==
  LET t == job[p].task IN
  /\ pc[p] \in {"editVersion", "stopVersion"}
  /\ \/ /\ ~IsIDReserved(t)
        /\ history' = [history EXCEPT ![t] = Append0(@)]
        /\ holder' = NoProc
        /\ Goto(p, "readIndex")
     \/ /\ IsIDReserved(t)
        /\ Goto(p, IF pc[p] = "editVersion" THEN "editUndo" ELSE "stopUndo")
        /\ UNCHANGED <<history, holder>>
  /\ UNCHANGED <<task, tombstone, timers, outbox, outside, job, bounds>>

EditUndo(p) ==
  LET t == job[p].task IN
  /\ \/ /\ pc[p] = "editUndo"
        /\ task' = [task EXCEPT ![t] = job[p].snap]
        /\ UNCHANGED timers
     \/ /\ pc[p] = "stopUndo"
        /\ timers' = timers \cup {t}
        /\ UNCHANGED task
  /\ holder' = NoProc
  /\ Finish(p)
  /\ UNCHANGED <<tombstone, history, outbox, outside, bounds>>

(* TimeStore.Start: one write.                                             *)
StartTimer(p, t) ==
  /\ pc[p] = "idle"
  /\ "startTimer" \in Calls
  /\ LockFree
  /\ ~IsIDReserved(t)
  /\ task[t].dir = "tasks"
  /\ t \notin timers
  /\ timers' = timers \cup {t}
  /\ UNCHANGED <<task, tombstone, history, outbox, outside, memory, bounds>>

(* TaskStore.Create, then the first version in a transaction of its own,   *)
(* whose failure is ignored.  The index is filled by a background job.     *)
CreateTask(p, t, status) ==
  /\ pc[p] = "idle"
  /\ "create" \in Calls
  /\ LockFree
  /\ ~Exists(task[t])
  /\ ~IsIDReserved(t)
  /\ task' = [task EXCEPT ![t] = ApplyStatusTransition(NewTask, status)]
  /\ job' = [job EXCEPT ![p] = NewJob("create", t, status)]
  /\ Goto(p, "createVersion")
  /\ UNCHANGED <<tombstone, history, timers, outbox, outside, holder, bounds>>

CreateVersion(p) ==
  LET t == job[p].task IN
  /\ pc[p] = "createVersion"
  /\ LockFree
  /\ history' = IF ~IsIDReserved(t)
                THEN [history EXCEPT ![t] = Append0(@)] ELSE history
  /\ Finish(p)
  /\ UNCHANGED <<task, tombstone, timers, outbox, outside, holder, bounds>>

-----------------------------------------------------------------------------
(* The environment.                                                        *)

(* The process dies: the OS releases its lock, its memory is gone.         *)
Crash(p) ==
  /\ crashes < MaxCrashes
  /\ pc[p] # "idle"
  /\ crashes' = crashes + 1
  /\ holder' = IF holder = p THEN NoProc ELSE holder
  /\ Goto(p, "idle")
  /\ job' = [job EXCEPT ![p] = NoJob]
  /\ UNCHANGED <<files, outbox, outside, faults>>

(* A write fails, a wait is cancelled with its context, a hook returns an  *)
(* error.  Inside a mutation the rollback follows, and a rollback step     *)
(* that fails is only remembered; everywhere else the call fails.          *)
AfterFailureNoRollback(place) ==
  IF place \in Forward THEN "undoRecord"
  ELSE IF place = "emit" THEN "release" ELSE "return"

AfterFailure(place) ==
  CASE place \in Forward -> "undoVersion"
    [] place = "undoVersion" -> "undoPatch"
    [] place \in {"undoPatch", "undoMove"} -> "undoRecord"
    [] place = "editVersion" -> "editUndo"
    [] place = "stopVersion" -> "stopUndo"
    [] place = "emit" -> "release"
    [] OTHER -> "return"

Fault(p) ==
  /\ faults < MaxFaults
  /\ pc[p] \notin {"idle", "batch", "next"}
  /\ faults' = faults + 1
  /\ \/ /\ AfterFailure(pc[p]) # "return"
        /\ Goto(p, AfterFailure(pc[p]))
        /\ UNCHANGED <<job, holder>>
     \/ /\ pc[p] \in {"readIndex", "commitIndex", "removeIndex"}
        /\ IndexDone(p, FALSE)
        /\ UNCHANGED holder
     \/ /\ AfterFailure(pc[p]) = "return"
        /\ pc[p] \notin {"readIndex", "commitIndex", "removeIndex"}
        /\ holder' = IF holder = p THEN NoProc ELSE holder
        /\ Finish(p)
  /\ UNCHANGED <<files, outbox, outside, crashes>>

(* Time passes: a lease ends, a completion clock passes the retention age   *)
(* (which nothing looks at unless the sweep is enabled).                   *)
Age(t) ==
  /\ AutoArchiveEnabled
  /\ task[t].completedAt = "recent"
  /\ task' = [task EXCEPT ![t].completedAt = "aged"]
  /\ UNCHANGED <<tombstone, history, timers, outbox, outside, memory, bounds>>

InHook(p, e, k) ==
  /\ pc[p] \in {"emit", "readIndex", "commitIndex", "removeIndex", "complete", "release"}
  /\ job[p].stage # "last"
  /\ job[p].ev = e
  /\ job[p].effect = k

LeaseEnds(e, k) ==
  /\ pending[e] # NoRecord
  /\ pending[e].claim[k].fresh
  /\ SlowHooks \/ ~InHook(pending[e].claim[k].by, e, k)
  /\ pending' = [pending EXCEPT ![e].claim[k].fresh = FALSE]
  /\ UNCHANGED <<files, nextEvent, outside, memory, bounds>>

-----------------------------------------------------------------------------
Flushing(p) ==
  \/ ListReady(p) \/ NextRecord(p)
  \/ ClaimEffect(p) \/ EmitEvent(p) \/ CompleteEffect(p) \/ ReleaseClaim(p)
  \/ ReadForIndex(p) \/ CommitIndex(p) \/ RemoveFromIndex(p)

Mutating(p) ==
  \/ ArchiveResume(p) \/ ArchiveBegin(p) \/ ArchiveUnchanged(p)
  \/ ReopenResume(p) \/ ReopenBegin(p) \/ ReopenUnchanged(p) \/ TransactionRefused(p)
  \/ MoveFile(p) \/ PatchFile(p) \/ SaveTaskVersion(p) \/ SavePhase(p) \/ SaveCanonical(p)
  \/ UndoVersion(p) \/ UndoPatch(p) \/ UndoMove(p) \/ UndoRecord(p)

HardDeleting(p) ==
  \/ DeleteBegin(p) \/ DeleteRefused(p) \/ DeleteRecord(p) \/ DeleteFile(p)
  \/ DeleteHistory(p) \/ DeleteTimeData(p) \/ DeleteSave(p)

(* Everything a process does once it was called.                           *)
Step(p) ==
  \/ ResolveBatchIDs(p) \/ NextInBatch(p)
  \/ Flushing(p) \/ Mutating(p) \/ HardDeleting(p)
  \/ EditVersion(p) \/ EditUndo(p) \/ CreateVersion(p)

Request(p) ==
  \/ \E t \in Tasks :
       \/ Call(p, "archive", t, NoReason)
       \/ \E s \in Status \ {"done"} : Call(p, "reopen", t, s)
       \/ \E r \in Reasons : Call(p, "delete", t, r)
       \/ \E s \in Status : UpdateTask(p, t, s) \/ CreateTask(p, t, s)
       \/ StartTimer(p, t) \/ StopTimer(p, t)
  \/ CallSweep(p)

Time == (\E t \in Tasks : Age(t)) \/ (\E e \in Events, k \in Effects : LeaseEnds(e, k))

Next ==
  \/ \E p \in Procs : Step(p) \/ Request(p) \/ Crash(p) \/ Fault(p)
  \/ Time

Spec == Init /\ [][Next]_vars

-----------------------------------------------------------------------------
FilesOK ==
  /\ task \in [Tasks -> TaskData]
  /\ tombstone \in [Tasks -> Reasons \cup {NoReason}]
  /\ history \in [Tasks -> Seq(Events \cup {NoEvent})]
  /\ timers \in SUBSET Tasks

OutboxOK ==
  /\ pending \in [Events -> Record \cup {NoRecord}]
  /\ nextEvent \in 1 .. (MaxEvents + 1)

OutsideOK ==
  /\ index \in [Tasks -> TaskData]
  /\ delivered \in SUBSET Events

MemoryOK ==
  /\ holder \in Procs \cup {NoProc}
  /\ pc \in [Procs -> Places]
  /\ job \in [Procs -> Job]

BoundsOK ==
  /\ crashes \in 0 .. MaxCrashes
  /\ faults \in 0 .. MaxFaults

(* The type invariant.                                                     *)
TypeOK == FilesOK /\ OutboxOK /\ OutsideOK /\ MemoryOK /\ BoundsOK
=============================================================================
