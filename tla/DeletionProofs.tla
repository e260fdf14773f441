---------------------------- MODULE DeletionProofs ----------------------------
(***************************************************************************)
(* Proofs about what a hard-delete of TaskLifecycle leaves and what may    *)
(* come back, and that a resumed mutation does not repeat its version: for *)
(* any number of Tasks, processes, events, crashes and faults.             *)
(***************************************************************************)
EXTENDS LifecycleProofs

USE DEF Places, Waiting, Holding, Forward, Undo, Deleting, Editing, Hooks

(* Nothing is left of the Task.                                            *)
Gone(t) == ~Exists(task[t]) /\ history[t] = <<>> /\ t \notin timers

(* What the records say of their Tasks: a mutation starts from a file and  *)
(* ends with one, a hard-delete has its tombstone, and has removed         *)
(* everything when it is complete.                                         *)
RecordFits(e) ==
  pending[e] # NoRecord =>
    LET r == pending[e] IN
    /\ r.op # "hard_delete" => Exists(r.original) /\ Exists(r.desired)
    /\ r.op = "hard_delete" => IsIDReserved(r.task)
    /\ r.op = "hard_delete" /\ "canonical" \in r.done => Gone(r.task)
RecordsFit == \A e \in Events : RecordFits(e)

(* What a process inside a transaction knows of its Task, as long as it    *)
(* holds the lock: an edit, a mutation and its rollback have a file to     *)
(* write to, a hard-delete has removed what it has passed.                 *)
KnowsTask(p) ==
  /\ pc[p] \in Forward \cup Undo =>
       pending[job[p].ev].op # "hard_delete" /\ Exists(task[pending[job[p].ev].task])
  /\ pc[p] \in Editing => Exists(task[job[p].task])
  /\ pc[p] \in {"editVersion", "editUndo"} => Exists(job[p].snap)
  /\ pc[p] \in Deleting =>
       /\ IsIDReserved(job[p].task)
       /\ pc[p] # "deleteRecord" /\ job[p].ev # NoEvent => pending[job[p].ev].task = job[p].task
       /\ pc[p] \in {"deleteHistory", "deleteTime", "deleteSave"} => ~Exists(task[job[p].task])
       /\ pc[p] \in {"deleteTime", "deleteSave"} => history[job[p].task] = <<>>
       /\ pc[p] = "deleteSave" => job[p].task \notin timers

FileInv == RecordsFit /\ \A p \in Procs : KnowsTask(p)

(* Tombstones stay, and under them nothing comes back.                     *)
StaysDeleted ==
  \A t \in Tasks : IsIDReserved(t) =>
    /\ IsIDReserved(t)'
    /\ ~Exists(task[t]) => ~Exists(task'[t])
    /\ Gone(t) => Gone(t)'
FileGood == FileInv' /\ StaysDeleted

LEMMA FilesFrame ==
  ASSUME Inv, FileInv, NEW p \in Procs, Others(p), KnowsTask(p)', RecordsFit', StaysDeleted,
         holder \in {NoProc, p} \/ UNCHANGED <<files, pending>>
  PROVE  FileGood
<1> SUFFICES ASSUME NEW q \in Procs, q # p PROVE KnowsTask(q)'
  BY DEF FileGood, FileInv
<1>1. pc'[q] = pc[q] /\ job'[q] = job[q]
  BY DEF Others
<1>2. pc[q] \in Holding => UNCHANGED <<files, pending>>
  BY ProcTypes DEF ProcInv, Located
<1> QED
  BY <1>1, <1>2 DEF FileInv, KnowsTask, IsIDReserved, files

(* A record that is left, claimed, checkpointed or removed.                *)
Continues(e) ==
  \/ pending'[e] = pending[e] \/ pending'[e] = NoRecord
  \/ /\ pending[e] # NoRecord
     /\ pending'[e].op = pending[e].op /\ pending'[e].task = pending[e].task
     /\ pending'[e].original = pending[e].original /\ pending'[e].desired = pending[e].desired
     /\ pending[e].op = "hard_delete" /\ "canonical" \in pending'[e].done =>
          "canonical" \in pending[e].done \/ Gone(pending[e].task)'

LEMMA RecordsStay ==
  ASSUME Inv, FileInv, StaysDeleted, NEW e \in Events, Continues(e)
  PROVE  RecordFits(e)'
<1>1. RecordFits(e)
  BY DEF FileInv, RecordsFit
<1>2. pending[e] # NoRecord => pending[e].task \in Tasks
  BY RecordFields DEF Inv, TypeOK, OutboxOK
<1> QED
  BY <1>1, <1>2 DEF RecordFits, Continues, StaysDeleted

LEMMA FilesStay == ASSUME UNCHANGED files PROVE StaysDeleted
BY DEF files, StaysDeleted, IsIDReserved, Gone

(* A step of p that leaves files and records and stays outside.            *)
LEMMA LeavesFiles ==
  ASSUME Inv, FileInv, NEW p \in Procs, Others(p), UNCHANGED <<files, pending>>, pc'[p] \notin Holding
  PROVE  FileGood
<1>1. StaysDeleted
  BY FilesStay
<1>2. RecordsFit'
  BY <1>1, RecordsStay DEF RecordsFit, Continues
<1>3. KnowsTask(p)'
  BY DEF KnowsTask
<1> QED
  BY <1>1, <1>2, <1>3, FilesFrame

(* A step of p that leaves files, changes records and stays outside.       *)
LEMMA LeavesTasks ==
  ASSUME Inv, FileInv, NEW p \in Procs, Others(p), UNCHANGED files, holder \in {NoProc, p},
         \A e \in Events : Continues(e), pc'[p] \notin Holding
  PROVE  FileGood
<1>1. StaysDeleted
  BY FilesStay
<1>2. RecordsFit'
  BY <1>1, RecordsStay DEF RecordsFit
<1>3. KnowsTask(p)'
  BY DEF KnowsTask
<1> QED
  BY <1>1, <1>2, <1>3, FilesFrame

(* Only p moves.                                                           *)
LEMMA MovesAlone ==
  ASSUME Inv, NEW p \in Procs, NEW place, Goto(p, place), NEW j,
         job' = [job EXCEPT ![p] = j] \/ UNCHANGED job
  PROVE  Others(p) /\ pc'[p] = place /\ (job' = [job EXCEPT ![p] = j] => job'[p] = j)
BY DEF Inv, TypeOK, MemoryOK, Goto, Others

LEMMA MovesOutside ==
  ASSUME Inv, NEW p \in Procs, NEW place \in {"idle", "batch", "list", "flush", "next", "claim", "commitIndex"},
         Goto(p, place), NEW j, job' = [job EXCEPT ![p] = j]
  PROVE  Others(p) /\ pc'[p] \notin Holding
BY MovesAlone

LEMMA FinishMoves == ASSUME Inv, NEW p \in Procs, Finish(p) PROVE Others(p) /\ pc'[p] \notin Holding
<1>1. CASE job[p].op = "sweep"
  BY <1>1, MovesAlone DEF Finish
<1>2. CASE job[p].op # "sweep"
  BY <1>2, MovesAlone DEF Finish
<1> QED BY <1>1, <1>2

LEMMA EndMoves ==
  ASSUME Inv, NEW p \in Procs, NEW quiet, EndTransaction(p, quiet) PROVE Others(p) /\ pc'[p] \notin Holding
<1> DEFINE j == [job[p] EXCEPT !.stage = "post", !.quiet = quiet, !.ev = NoEvent]
<1>1. job' = [job EXCEPT ![p] = j] /\ Goto(p, "flush")
  BY DEF EndTransaction
<1> HIDE DEF j
<1> QED BY <1>1, MovesOutside, Zenon

LEMMA IndexDoneMoves ==
  ASSUME Inv, NEW p \in Procs, NEW ok, IndexDone(p, ok) PROVE Others(p) /\ pc'[p] \notin Holding
<1>1. CASE job[p].stage = "last"
  BY <1>1, FinishMoves DEF IndexDone
<1>2. CASE job[p].stage # "last"
  <2>1. PICK place \in {"complete", "release"} : Goto(p, place) /\ UNCHANGED job
    BY <1>2 DEF IndexDone
  <2> QED BY <2>1, MovesAlone
<1> QED BY <1>1, <1>2

(* Requests that begin with a flush, the sweep's list, and all of a flush  *)
(* that leaves the records alone.                                          *)
LEMMA OutsideLeaves ==
  ASSUME Inv, FileInv, NEW p \in Procs,
         \/ \E op, t, arg : Call(p, op, t, arg)
         \/ CallSweep(p) \/ ResolveBatchIDs(p) \/ NextInBatch(p) \/ ListReady(p) \/ NextRecord(p)
         \/ EmitEvent(p) \/ ReadForIndex(p) \/ CommitIndex(p) \/ RemoveFromIndex(p)
  PROVE  FileGood
<1>1. UNCHANGED <<files, pending>>
  BY DEF Call, CallSweep, ResolveBatchIDs, NextInBatch, ListReady, NextRecord, EmitEvent, ReadForIndex,
         CommitIndex, RemoveFromIndex, outbox
<1>2. Others(p) /\ pc'[p] \notin Holding
  <2>1. ASSUME NEW op, NEW t, NEW arg, Call(p, op, t, arg) PROVE Others(p) /\ pc'[p] \notin Holding
    <3>1. PICK j : job' = [job EXCEPT ![p] = j] /\ Goto(p, "flush")
      BY <2>1 DEF Call
    <3> QED BY <3>1, MovesOutside, Zenon
  <2>2. CASE CallSweep(p)
    <3>1. PICK j : job' = [job EXCEPT ![p] = j] /\ Goto(p, "list")
      BY <2>2 DEF CallSweep
    <3> QED BY <3>1, MovesOutside, Zenon
  <2>3. CASE ResolveBatchIDs(p)
    <3>1. PICK b : job' = [job EXCEPT ![p].batch = b] /\ Goto(p, "batch")
      BY <2>3 DEF ResolveBatchIDs
    <3>2. PICK j : job' = [job EXCEPT ![p] = j]
      BY <3>1
    <3> QED BY <3>1, <3>2, MovesOutside, Zenon
  <2>4. CASE NextInBatch(p)
    <3>1. PICK place, j : place \in {"idle", "flush"} /\ job' = [job EXCEPT ![p] = j] /\ Goto(p, place)
      BY <2>4 DEF NextInBatch
    <3> QED BY <3>1, MovesAlone
  <2>5. CASE ListReady(p)
    <3> DEFINE j == [job[p] EXCEPT !.queue = ReadyRecords(job[p].task), !.quiet = @ /\ ReadyRecords(job[p].task) = {}]
    <3>1. job' = [job EXCEPT ![p] = j] /\ Goto(p, "next")
      BY <2>5 DEF ListReady
    <3> HIDE DEF j
    <3> QED BY <3>1, MovesOutside, Zenon
  <2>6. CASE NextRecord(p)
    <3>1. CASE Finish(p)
      BY <3>1, FinishMoves
    <3>2. CASE ~Finish(p)
      <4>1. PICK place \in {"claim", "txn", "removeIndex", "readIndex"} :
              /\ Goto(p, place)
              /\ \/ UNCHANGED job
                 \/ \E e \in Events \cup {NoEvent} :
                      \/ job' = [job EXCEPT ![p].queue = @ \ {e}, ![p].ev = e, ![p].effect = "event"]
                      \/ job' = [job EXCEPT ![p].stage = "last", ![p].ev = NoEvent]
        <5>1. job[p].queue \in SUBSET Events
          BY ProcTypes, JobFields
        <5> QED BY <2>6, <3>2, <5>1 DEF NextRecord
      <4>2. PICK j : UNCHANGED job \/ job' = [job EXCEPT ![p] = j]
        BY <4>1
      <4> QED BY <4>1, <4>2, MovesAlone
    <3> QED BY <3>1, <3>2
  <2>7. CASE EmitEvent(p)
    BY <2>7, MovesAlone DEF EmitEvent
  <2>8. CASE ReadForIndex(p)
    <3>1. CASE IndexDone(p, FALSE)
      BY <3>1, IndexDoneMoves
    <3>2. CASE ~IndexDone(p, FALSE)
      <4>1. Goto(p, "commitIndex") /\ job' = [job EXCEPT ![p] = [job[p] EXCEPT !.snap = Content(task[job[p].task])]]
        BY <2>8, <3>2 DEF ReadForIndex
      <4>2. PICK j : job' = [job EXCEPT ![p] = j]
        BY <4>1
      <4> QED BY <4>1, <4>2, MovesOutside, Zenon
    <3> QED BY <3>1, <3>2
  <2>9. CASE CommitIndex(p)
    BY <2>9, IndexDoneMoves DEF CommitIndex
  <2>10. CASE RemoveFromIndex(p)
    BY <2>10, IndexDoneMoves DEF RemoveFromIndex
  <2> QED BY <2>1, <2>2, <2>3, <2>4, <2>5, <2>6, <2>7, <2>8, <2>9, <2>10
<1> QED
  BY <1>1, <1>2, LeavesFiles

(* Claims, applied effects and checkpoints leave the rest of a record.     *)
SameMutation(r, s) == s.op = r.op /\ s.task = r.task /\ s.original = r.original /\ s.desired = r.desired

LEMMA ContinuesWith ==
  ASSUME Inv, NEW e \in Events, pending[e] # NoRecord, NEW s, pending' = [pending EXCEPT ![e] = s],
         s = NoRecord \/ (SameMutation(pending[e], s) /\ (s.done = pending[e].done \/ pending[e].op # "hard_delete"))
  PROVE  \A f \in Events : Continues(f)
BY DEF Continues, SameMutation, Inv, TypeOK, OutboxOK

LEMMA AllContinue == ASSUME UNCHANGED pending PROVE \A e \in Events : Continues(e)
BY DEF Continues

(* The records of a flush.                                                 *)
LEMMA FlushLeaves ==
  ASSUME Inv, FileInv, NEW p \in Procs, ClaimEffect(p) \/ CompleteEffect(p) \/ ReleaseClaim(p)
  PROVE  FileGood
<1> DEFINE e == job[p].ev
           k == job[p].effect
<1>1. UNCHANGED files /\ holder = NoProc /\ pc[p] \in {"claim", "complete", "release"}
  BY DEF ClaimEffect, CompleteEffect, ReleaseClaim, LockFree
<1>2. e \in Events /\ k \in Effects /\ (pending[e] # NoRecord => pending[e] \in Record)
  BY <1>1, ProcTypes, JobFields DEF ProcInv, InFlush, Settled, Inv, TypeOK, OutboxOK
<1>3. AfterEffect(p) => Others(p) /\ pc'[p] \notin Holding
  <2> SUFFICES ASSUME AfterEffect(p) PROVE Others(p) /\ pc'[p] \notin Holding
    OBVIOUS
  <2>1. CASE k = "event"
    <3>1. job' = [job EXCEPT ![p].effect = "derived"] /\ Goto(p, "claim")
      BY <2>1 DEF AfterEffect
    <3>2. PICK j : job' = [job EXCEPT ![p] = j]
      BY <3>1
    <3> QED BY <3>1, <3>2, MovesOutside, Zenon
  <2>2. CASE k # "event"
    BY <2>2, MovesAlone DEF AfterEffect
  <2> QED BY <2>1, <2>2
<1>5. CASE ClaimEffect(p)
  <2>1. Others(p) /\ pc'[p] \notin Holding
    <3>1. CASE job' = [job EXCEPT ![p].effect = "derived"] /\ UNCHANGED pc
      <4>1. PICK j : job' = [job EXCEPT ![p] = j]
        BY <3>1
      <4>2. Goto(p, "claim")
        BY <1>5, <3>1 DEF ClaimEffect, Goto, Inv, TypeOK, MemoryOK
      <4> QED BY <4>1, <4>2, MovesOutside, Zenon
    <3>2. CASE UNCHANGED job /\ \E place \in {"emit", "removeIndex", "readIndex", "next"} : Goto(p, place)
      BY <3>2, MovesAlone
    <3> QED BY <1>5, <3>1, <3>2 DEF ClaimEffect
  <2>2. CASE pending' = [pending EXCEPT ![e].claim[k] = ClaimBy(p)] /\ pending[e] # NoRecord
    <3> DEFINE s == [pending[e] EXCEPT !.claim[k] = ClaimBy(p)]
    <3>1. pending' = [pending EXCEPT ![e] = s]
      BY <2>2
    <3>2. SameMutation(pending[e], s) /\ s.done = pending[e].done
      BY <1>2, <2>2, RecordFields DEF Record, SameMutation
    <3> HIDE DEF s
    <3> QED BY <1>1, <1>2, <2>1, <2>2, <3>1, <3>2, ContinuesWith, LeavesTasks
  <2>3. CASE UNCHANGED pending
    BY <1>1, <2>1, <2>3, LeavesFiles
  <2> QED BY <1>5, <2>2, <2>3 DEF ClaimEffect
<1>6. CASE CompleteEffect(p)
  <2>1. AfterEffect(p)
    BY <1>6 DEF CompleteEffect
  <2>2. CASE pending[e] = NoRecord
    BY <1>1, <1>3, <1>6, <2>1, <2>2, LeavesFiles DEF CompleteEffect
  <2>3. CASE pending[e] # NoRecord
    <3> DEFINE s == WithEffect(pending[e], k)
    <3>1. pending' = [pending EXCEPT ![e] = s]
      BY <1>6, <2>3 DEF CompleteEffect
    <3>2. s = NoRecord \/ (SameMutation(pending[e], s) /\ s.done = pending[e].done)
      BY <1>2, <2>3, RecordFields DEF WithEffect, Record, SameMutation
    <3> HIDE DEF s
    <3> QED BY <1>1, <1>2, <1>3, <2>1, <2>3, <3>1, <3>2, ContinuesWith, LeavesTasks
  <2> QED BY <2>2, <2>3
<1>7. CASE ReleaseClaim(p)
  <2>1. Others(p) /\ pc'[p] \notin Holding
    BY <1>3, <1>7, FinishMoves DEF ReleaseClaim
  <2>2. CASE UNCHANGED pending
    BY <1>1, <2>1, <2>2, LeavesFiles
  <2>3. CASE ~UNCHANGED pending
    <3> DEFINE s == [pending[e] EXCEPT !.claim[k] = NoClaim]
    <3>1. pending' = [pending EXCEPT ![e] = s] /\ pending[e] # NoRecord
      BY <1>7, <2>3 DEF ReleaseClaim
    <3>2. SameMutation(pending[e], s) /\ s.done = pending[e].done
      BY <1>2, <3>1, RecordFields DEF Record, SameMutation
    <3> HIDE DEF s
    <3> QED BY <1>1, <1>2, <2>1, <3>1, <3>2, ContinuesWith, LeavesTasks
  <2> QED BY <2>2, <2>3
<1> QED BY <1>5, <1>6, <1>7

(* A refused call, and a transaction that changes nothing.                 *)
LEMMA RefusalLeaves ==
  ASSUME Inv, FileInv, NEW p \in Procs, Refuse(p) \/ \E quiet : EndUnchanged(p, quiet)
  PROVE  FileGood
<1>1. UNCHANGED <<files, pending>>
  BY DEF Refuse, EndUnchanged, outbox
<1>2. Others(p) /\ pc'[p] \notin Holding
  BY FinishMoves, EndMoves DEF Refuse, EndUnchanged
<1> QED BY <1>1, <1>2, LeavesFiles

(* The record an interrupted mutation is resumed from, and the file that   *)
(* was read before, are there.                                             *)
LEMMA JobWithEvent ==
  ASSUME Inv, NEW p \in Procs, NEW e \in Events \cup {NoEvent}, NEW quiet \in BOOLEAN
  PROVE  LET j == [job[p] EXCEPT !.ev = e, !.quiet = quiet] IN j.ev = e /\ j.task = job[p].task
<1>1. ASSUME NEW i \in Job PROVE LET j == [i EXCEPT !.ev = e, !.quiet = quiet] IN j.ev = e /\ j.task = i.task
  BY DEF Job
<1> QED BY <1>1, ProcTypes

LEMMA ResumeKeepsFiles ==
  ASSUME Inv, FileInv, NEW p \in Procs, pc[p] = "txn", LockFree,
         NEW op \in {"archive", "reopen"}, Resume(p, op), Exists(task[job[p].task])
  PROVE  FileGood
<1>1. PICK e \in Events : /\ Earliest(Incomplete(job[p].task, op), e)
                          /\ job' = [job EXCEPT ![p].ev = e, ![p].quiet = FALSE]
  BY DEF Resume
<1>2. pending[e].op = op /\ pending[e].task = job[p].task
  BY <1>1 DEF Earliest, Incomplete
<1>3. UNCHANGED <<files, pending>> /\ Goto(p, "move")
  BY DEF Resume, outbox
<1> DEFINE j == [job[p] EXCEPT !.ev = e, !.quiet = FALSE]
<1>4. j.ev = e /\ job' = [job EXCEPT ![p] = j]
  BY <1>1, JobWithEvent
<1> HIDE DEF j
<1>5. Others(p) /\ pc'[p] = "move" /\ job'[p] = j
  BY <1>3, <1>4, MovesAlone, Zenon
<1>6. KnowsTask(p)'
  BY <1>2, <1>3, <1>4, <1>5 DEF KnowsTask, files
<1>7. StaysDeleted /\ RecordsFit'
  BY <1>3, FilesStay, AllContinue, RecordsStay DEF RecordsFit
<1> QED
  BY <1>3, <1>5, <1>6, <1>7, FilesFrame

LEMMA BeginKeepsFiles ==
  ASSUME Inv, FileInv, NEW p \in Procs, pc[p] = "txn", LockFree,
         NEW op \in {"archive", "reopen"}, NEW d \in TaskData, Begin(p, op, d),
         Exists(task[job[p].task]), Exists(d)
  PROVE  FileGood
<1> DEFINE t == job[p].task
           r == PendingRecord(op, t, task[t], d)
           j == [job[p] EXCEPT !.ev = nextEvent, !.quiet = FALSE]
<1>1. CASE Refuse(p)
  BY <1>1, RefusalLeaves
<1>2. CASE /\ nextEvent <= MaxEvents
           /\ pending' = [pending EXCEPT ![nextEvent] = r]
           /\ job' = [job EXCEPT ![p].ev = nextEvent, ![p].quiet = FALSE]
           /\ Goto(p, "move")
           /\ UNCHANGED files
  <2>1. nextEvent \in Events /\ holder = NoProc
    BY <1>2 DEF Inv, TypeOK, OutboxOK, Events, LockFree
  <2>2. j.ev = nextEvent /\ job' = [job EXCEPT ![p] = j]
    BY <1>2, <2>1, JobWithEvent
  <2>3. r.op = op /\ r.task = t /\ r.original = task[t] /\ r.desired = d
    BY DEF PendingRecord
  <2> HIDE DEF j, r
  <2>4. Others(p) /\ pc'[p] = "move" /\ job'[p] = j
    <3>1. Goto(p, "move")
      BY <1>2
    <3> QED BY <2>2, <3>1, MovesAlone, Zenon
  <2>5. pending'[nextEvent] = r /\ \A e \in Events \ {nextEvent} : pending'[e] = pending[e]
    BY <1>2, <2>1 DEF Inv, TypeOK, OutboxOK
  <2>6. KnowsTask(p)'
    BY <1>2, <2>2, <2>3, <2>4, <2>5 DEF KnowsTask, files
  <2>7. RecordsFit'
    <3>1. ASSUME NEW e \in Events, e = nextEvent PROVE RecordFits(e)'
      BY <2>3, <2>5, <3>1 DEF RecordFits
    <3>2. ASSUME NEW e \in Events, e # nextEvent PROVE RecordFits(e)'
      BY <1>2, <2>5, <3>2, FilesStay, RecordsStay DEF Continues
    <3> QED BY <3>1, <3>2 DEF RecordsFit
  <2> QED BY <1>2, <2>1, <2>4, <2>6, <2>7, FilesStay, FilesFrame
<1> QED
  BY <1>1, <1>2 DEF Begin, outbox

LEMMA FormsExist ==
  ASSUME NEW d \in TaskData
  PROVE  /\ Exists(ArchivedForm(d))
         /\ \A s \in Status : Exists(ReopenedForm(d, s)) /\ (Exists(d) => Exists(ApplyStatusTransition(d, s)))
<1>1. Exists(ArchivedForm(d))
  BY DEF ArchivedForm, Exists, TaskData
<1>2. ASSUME NEW s \in Status, NEW i \in TaskData PROVE ApplyStatusTransition(i, s).dir = i.dir
  BY DEF ApplyStatusTransition, TaskData
<1>3. ASSUME NEW s \in Status PROVE Exists(ReopenedForm(d, s))
  <2>1. [d EXCEPT !.dir = "tasks"] \in TaskData /\ [d EXCEPT !.dir = "tasks"].dir = "tasks"
    BY DEF TaskData
  <2>2. ApplyStatusTransition([d EXCEPT !.dir = "tasks"], s) \in TaskData
        /\ ApplyStatusTransition([d EXCEPT !.dir = "tasks"], s).dir = "tasks"
    BY <1>2, <2>1, TransitionType
  <2>3. ASSUME NEW i \in TaskData PROVE [i EXCEPT !.completedAt = "none", !.archivedAt = FALSE].dir = i.dir
    BY DEF TaskData
  <2> QED BY <2>2, <2>3 DEF ReopenedForm, Exists
<1> QED BY <1>1, <1>2, <1>3 DEF Exists

(* The first step of the transaction of Archive and of Reopen.             *)
LEMMA ArchiveReopenKeepsFiles ==
  ASSUME Inv, FileInv, NEW p \in Procs,
         \/ ArchiveResume(p) \/ ArchiveBegin(p) \/ ArchiveUnchanged(p)
         \/ ReopenResume(p) \/ ReopenBegin(p) \/ ReopenUnchanged(p) \/ TransactionRefused(p)
  PROVE  FileGood
<1>1. pc[p] = "txn" /\ LockFree
  BY Zenon DEF ArchiveResume, ArchiveBegin, ArchiveUnchanged, ReopenResume, ReopenBegin,
         ReopenUnchanged, TransactionRefused, Archiving, Reopening
<1>2. task[job[p].task] \in TaskData
  BY <1>1, ProcTypes DEF ProcInv, Located, Inv, TypeOK, FilesOK
<1>3. CASE ArchiveResume(p) \/ ReopenResume(p)
  BY <1>1, <1>3, ResumeKeepsFiles DEF ArchiveResume, ReopenResume
<1>4. CASE ArchiveBegin(p)
  <2>1. Exists(task[job[p].task]) /\ ArchivedForm(task[job[p].task]) \in TaskData
        /\ Exists(ArchivedForm(task[job[p].task]))
    BY <1>2, <1>4, FormTypes, FormsExist DEF ArchiveBegin, Eligible, Exists, Archived
  <2> QED
    BY <1>1, <1>4, <2>1, BeginKeepsFiles DEF ArchiveBegin
<1>5. CASE ReopenBegin(p)
  <2>1. job[p].arg \in Status
    BY <1>5, ProcTypes, JobFields DEF ReopenBegin, Reopening
  <2>2. ReopenedForm(task[job[p].task], job[p].arg) \in TaskData
        /\ Exists(ReopenedForm(task[job[p].task], job[p].arg))
    BY <1>2, <2>1, FormTypes, FormsExist
  <2> QED
    BY <1>1, <1>5, <2>2, BeginKeepsFiles DEF ReopenBegin
<1>6. CASE ArchiveUnchanged(p) \/ ReopenUnchanged(p) \/ TransactionRefused(p)
  <2>1. Refuse(p) \/ \E quiet : EndUnchanged(p, quiet)
    BY <1>6, Zenon DEF ArchiveUnchanged, ReopenUnchanged, TransactionRefused
  <2> QED
    BY <2>1, RefusalLeaves
<1> QED
  BY <1>3, <1>4, <1>5, <1>6

(* A step that only writes a Task file that is there.                      *)
LEMMA WriteStays ==
  ASSUME Inv, NEW t \in Tasks, Exists(task[t]), NEW d, task' = [task EXCEPT ![t] = d],
         UNCHANGED <<tombstone, history, timers>>
  PROVE  StaysDeleted /\ task'[t] = d
BY DEF StaysDeleted, IsIDReserved, Gone, Inv, TypeOK, FilesOK

LEMMA MutationKnows ==
  ASSUME Inv, FileInv, NEW p \in Procs, pc[p] \in Forward \cup Undo
  PROVE  LET r == pending[job[p].ev] IN
         /\ job[p].ev \in Events /\ r # NoRecord /\ r.op # "hard_delete" /\ r.task \in Tasks
         /\ Exists(r.original) /\ Exists(r.desired) /\ r.original \in TaskData /\ r.desired \in TaskData
         /\ Exists(task[r.task]) /\ task[r.task] \in TaskData /\ holder = p
BY MutationFacts DEF FileInv, KnowsTask, RecordsFit, RecordFits

(* The writes of a mutation and of its rollback to the Task file.          *)
LEMMA MutationKeepsFiles ==
  ASSUME Inv, FileInv, NEW p \in Procs, MoveFile(p) \/ PatchFile(p) \/ UndoPatch(p) \/ UndoMove(p)
  PROVE  FileGood
<1> DEFINE r == pending[job[p].ev]
<1>1. /\ pc[p] \in Forward \cup Undo /\ UNCHANGED <<tombstone, history, timers, pending, holder, job>>
  BY DEF MoveFile, PatchFile, UndoPatch, UndoMove, outbox
<1>2. /\ job[p].ev \in Events /\ r # NoRecord /\ r.op # "hard_delete" /\ r.task \in Tasks
      /\ Exists(r.original) /\ Exists(r.desired) /\ r.original \in TaskData /\ r.desired \in TaskData
      /\ Exists(task[r.task]) /\ task[r.task] \in TaskData /\ holder = p
  BY <1>1, MutationKnows
<1>3. PICK place \in {"saveMove", "savePatch", "undoMove", "undoRecord"} : Goto(p, place)
  BY DEF MoveFile, PatchFile, UndoPatch, UndoMove
<1>4. Others(p) /\ pc'[p] = place
  BY <1>1, <1>3, MovesAlone
<1>5. PICK d : Exists(d) /\ task' = [task EXCEPT ![r.task] = d]
  <2>1. CASE MoveFile(p) \/ UndoMove(p)
    <3>1. PICK x \in {r.desired.dir, r.original.dir} : task' = [task EXCEPT ![r.task].dir = x]
      BY <2>1 DEF MoveFile, UndoMove
    <3> DEFINE d == [task[r.task] EXCEPT !.dir = x]
    <3>2. Exists(d)
      BY <1>2 DEF Exists, TaskData
    <3>3. task' = [task EXCEPT ![r.task] = d]
      BY <3>1
    <3> QED BY <3>2, <3>3
  <2>2. CASE PatchFile(p)
    BY <1>2, <2>2 DEF PatchFile
  <2>3. CASE UndoPatch(p)
    <3> DEFINE d == [r.original EXCEPT !.dir = task[r.task].dir]
    <3>1. Exists(d)
      BY <1>2 DEF Exists, TaskData
    <3>2. task' = [task EXCEPT ![r.task] = d]
      BY <2>3 DEF UndoPatch
    <3> QED BY <3>1, <3>2
  <2> QED BY <2>1, <2>2, <2>3
<1>6. StaysDeleted /\ task'[r.task] = d
  BY <1>1, <1>2, <1>5, WriteStays
<1>7. RecordsFit'
  BY <1>1, <1>6, AllContinue, RecordsStay DEF RecordsFit
<1>8. KnowsTask(p)'
  BY <1>1, <1>2, <1>4, <1>5, <1>6 DEF KnowsTask
<1> QED
  BY <1>2, <1>4, <1>6, <1>7, <1>8, FilesFrame

(* The versions of a mutation and its checkpoints.                         *)
LEMMA CheckpointsKeepFiles ==
  ASSUME Inv, FileInv, NEW p \in Procs,
         SaveTaskVersion(p) \/ UndoVersion(p) \/ SavePhase(p) \/ SaveCanonical(p) \/ UndoRecord(p)
  PROVE  FileGood
<1> DEFINE e == job[p].ev
           r == pending[e]
<1>1. pc[p] \in Forward \cup Undo /\ UNCHANGED <<task, tombstone, timers>>
  BY DEF SaveTaskVersion, UndoVersion, SavePhase, SaveCanonical, UndoRecord, files
<1>2. /\ e \in Events /\ r # NoRecord /\ r.op # "hard_delete" /\ r.task \in Tasks
      /\ Exists(task[r.task]) /\ holder = p
  BY <1>1, MutationKnows
<1>3. CASE SaveTaskVersion(p) \/ UndoVersion(p)
  <2>1. PICK place \in {"saveVersion", "undoVersion", "undoPatch"} : Goto(p, place)
    BY <1>3 DEF SaveTaskVersion, UndoVersion
  <2>2. UNCHANGED <<pending, job>>
    BY <1>3 DEF SaveTaskVersion, UndoVersion, outbox
  <2>3. Others(p) /\ pc'[p] = place
    BY <2>1, <2>2, MovesAlone
  <2>4. \A t \in Tasks : t # r.task => history'[t] = history[t]
    BY <1>2, <1>3 DEF SaveTaskVersion, UndoVersion, Inv, TypeOK, FilesOK
  <2>5. StaysDeleted
    BY <1>1, <1>2, <2>4 DEF StaysDeleted, IsIDReserved, Gone
  <2>6. RecordsFit'
    BY <2>2, <2>5, AllContinue, RecordsStay DEF RecordsFit
  <2>7. KnowsTask(p)'
    BY <1>1, <1>2, <2>2, <2>3 DEF KnowsTask
  <2> QED BY <1>2, <2>3, <2>5, <2>6, <2>7, FilesFrame
<1>4. CASE SavePhase(p) \/ SaveCanonical(p)
  <2>1. PICK x \in Phases : pending' = [pending EXCEPT ![e].done = @ \cup {x}]
    BY <1>4 DEF SavePhase, SaveCanonical, PhaseAt, Phases
  <2> DEFINE s == [r EXCEPT !.done = @ \cup {x}]
  <2>2. pending' = [pending EXCEPT ![e] = s]
    BY <2>1
  <2>3. SameMutation(r, s)
    BY <1>2, RecordFields DEF Inv, TypeOK, OutboxOK, Record, SameMutation
  <2> HIDE DEF s
  <2>4. /\ \A f \in Events : Continues(f)
        /\ pending'[e] = s
    BY <1>2, <2>2, <2>3, ContinuesWith DEF Inv, TypeOK, OutboxOK
  <2>5. UNCHANGED files
    BY <1>4 DEF SavePhase, SaveCanonical
  <2>6. CASE SavePhase(p)
    <3>1. PICK place \in {"patch", "version", "saveCanonical"} : Goto(p, place)
      BY <2>6 DEF SavePhase, AfterPhase
    <3>2. UNCHANGED job
      BY <2>6 DEF SavePhase
    <3>3. Others(p) /\ pc'[p] = place
      BY <3>1, <3>2, MovesAlone
    <3>4. KnowsTask(p)'
      BY <1>1, <1>2, <2>3, <2>4, <3>2, <3>3 DEF KnowsTask, SameMutation
    <3>5. StaysDeleted /\ RecordsFit'
      BY <2>4, <2>5, FilesStay, RecordsStay DEF RecordsFit
    <3> QED BY <1>2, <3>3, <3>4, <3>5, FilesFrame
  <2>7. CASE SaveCanonical(p)
    BY <1>2, <2>4, <2>5, <2>7, EndMoves, LeavesTasks DEF SaveCanonical
  <2> QED BY <1>4, <2>6, <2>7
<1>5. CASE UndoRecord(p)
  <2>1. Others(p) /\ pc'[p] \notin Holding /\ UNCHANGED files
    BY <1>5, FinishMoves DEF UndoRecord
  <2>2. \A f \in Events : Continues(f)
    BY <1>2, <1>5, ContinuesWith DEF UndoRecord
  <2> QED BY <1>2, <2>1, <2>2, LeavesTasks
<1> QED BY <1>3, <1>4, <1>5

(* A step of p inside the lock that leaves all records as they are.        *)
LEMMA LeavesRecords ==
  ASSUME Inv, FileInv, NEW p \in Procs, Others(p), UNCHANGED pending, holder \in {NoProc, p},
         StaysDeleted, KnowsTask(p)'
  PROVE  FileGood
<1>1. RecordsFit'
  BY AllContinue, RecordsStay DEF RecordsFit
<1> QED BY <1>1, FilesFrame

(* The tombstone, which stays once it is there.                            *)
LEMMA DeleteBeginKeepsFiles ==
  ASSUME Inv, FileInv, NEW p \in Procs, DeleteBegin(p)
  PROVE  FileGood
<1> DEFINE t == job[p].task
<1>1. /\ pc[p] = "txn" /\ holder = NoProc /\ job[p].op = "delete"
      /\ UNCHANGED <<task, history, timers, pending>>
  BY DEF DeleteBegin, Deletable, LockFree, outbox
<1>2. t \in Tasks /\ job[p].arg \in Reasons /\ job[p] \in Job /\ job[p].quiet \in BOOLEAN
  BY <1>1, ProcTypes, JobFields DEF ProcInv, Located, Job
<1>3. PICK quiet \in BOOLEAN : DeleteFrom(p, quiet)
  BY <1>2 DEF DeleteBegin
<1>4. tombstone'[t] # NoReason /\ \A u \in Tasks : IsIDReserved(u) => IsIDReserved(u)'
  BY <1>2, ReasonsAssumption DEF DeleteBegin, IsIDReserved, Inv, TypeOK, FilesOK
<1>5. StaysDeleted
  BY <1>1, <1>4 DEF StaysDeleted, Gone
<1>6. CASE \E e \in Events :
             /\ DeleteRecordOf(t, e)
             /\ Goto(p, "deleteFile")
             /\ job' = [job EXCEPT ![p].ev = e, ![p].quiet = quiet]
  <2>1. PICK e \in Events :
             /\ DeleteRecordOf(t, e)
             /\ Goto(p, "deleteFile")
             /\ job' = [job EXCEPT ![p].ev = e, ![p].quiet = quiet]
    BY <1>6
  <2>2. pending[e].task = t
    BY <2>1 DEF DeleteRecordOf, DeleteRecords, Incomplete, Earliest
  <2> DEFINE j == [job[p] EXCEPT !.ev = e, !.quiet = quiet]
  <2>3. j.ev = e /\ j.task = t /\ job' = [job EXCEPT ![p] = j]
    <3>1. j.ev = e /\ j.task = t
      BY JobWithEvent
    <3>2. job' = [job EXCEPT ![p] = j]
      BY <2>1
    <3> QED BY <3>1, <3>2
  <2> HIDE DEF j
  <2>4. Others(p) /\ pc'[p] = "deleteFile" /\ job'[p] = j
    BY <2>1, <2>3, MovesAlone, Zenon
  <2>5. KnowsTask(p)'
    BY <1>1, <1>4, <2>2, <2>3, <2>4 DEF KnowsTask, IsIDReserved
  <2> QED BY <1>1, <1>5, <2>4, <2>5, LeavesRecords
<1>7. CASE /\ DeleteRecords(t) = {}
           /\ Goto(p, IF Exists(task[t]) THEN "deleteRecord" ELSE "deleteHistory")
           /\ job' = [job EXCEPT ![p].ev = NoEvent, ![p].quiet = quiet]
  <2> DEFINE j == [job[p] EXCEPT !.ev = NoEvent, !.quiet = quiet]
  <2>1. j.ev = NoEvent /\ j.task = t /\ job' = [job EXCEPT ![p] = j]
    <3>1. j.ev = NoEvent /\ j.task = t
      BY JobWithEvent
    <3>2. job' = [job EXCEPT ![p] = j]
      BY <1>7
    <3> QED BY <3>1, <3>2
  <2> HIDE DEF j
  <2>2. PICK place \in {"deleteRecord", "deleteHistory"} :
          Goto(p, place) /\ (place = "deleteHistory" => ~Exists(task[t]))
    BY <1>7
  <2>3. Others(p) /\ pc'[p] = place /\ job'[p] = j
    BY <2>1, <2>2, MovesAlone, Zenon
  <2>4. KnowsTask(p)'
    BY <1>1, <1>4, <2>1, <2>2, <2>3 DEF KnowsTask, IsIDReserved
  <2> QED BY <1>1, <1>5, <2>3, <2>4, LeavesRecords
<1> QED BY <1>3, <1>6, <1>7 DEF DeleteFrom

LEMMA DeleteRecordKeepsFiles ==
  ASSUME Inv, FileInv, NEW p \in Procs, DeleteRecord(p)
  PROVE  FileGood
<1> DEFINE t == job[p].task
           r == PendingRecord("hard_delete", t, NoTask, NoTask)
           j == [job[p] EXCEPT !.ev = nextEvent]
<1>1. pc[p] = "deleteRecord" /\ holder = p /\ t \in Tasks /\ IsIDReserved(t) /\ job[p] \in Job
  BY ProcTypes DEF DeleteRecord, FileInv, KnowsTask, ProcInv, Located
<1>2. CASE Refuse(p)
  BY <1>2, RefusalLeaves
<1>3. CASE ~Refuse(p)
  <2>1. /\ nextEvent <= MaxEvents /\ pending' = [pending EXCEPT ![nextEvent] = r]
        /\ job' = [job EXCEPT ![p] = j] /\ Goto(p, "deleteFile") /\ UNCHANGED files
    BY <1>3 DEF DeleteRecord
  <2>2. nextEvent \in Events
    BY <2>1 DEF Inv, TypeOK, OutboxOK, Events
  <2>3. j.ev = nextEvent /\ j.task = t
    <3>1. ASSUME NEW i \in Job, NEW e PROVE [i EXCEPT !.ev = e].ev = e /\ [i EXCEPT !.ev = e].task = i.task
      BY DEF Job
    <3> QED BY <1>1, <3>1
  <2>4. r.op = "hard_delete" /\ r.task = t /\ r.done = {}
    BY DEF PendingRecord
  <2> HIDE DEF j, r
  <2>5. Others(p) /\ pc'[p] = "deleteFile" /\ job'[p] = j
    BY <2>1, MovesAlone, Zenon
  <2>6. pending'[nextEvent] = r /\ \A e \in Events \ {nextEvent} : pending'[e] = pending[e]
    BY <2>1, <2>2 DEF Inv, TypeOK, OutboxOK
  <2>7. tombstone'[t] # NoReason
    BY <1>1, <2>1 DEF files, IsIDReserved
  <2>8. KnowsTask(p)'
    BY <2>2, <2>3, <2>4, <2>5, <2>6, <2>7 DEF KnowsTask, IsIDReserved
  <2>9. RecordsFit'
    <3>1. ASSUME NEW e \in Events, e = nextEvent PROVE RecordFits(e)'
      BY <2>4, <2>6, <2>7, <3>1 DEF RecordFits, IsIDReserved
    <3>2. ASSUME NEW e \in Events, e # nextEvent PROVE RecordFits(e)'
      BY <2>1, <2>6, <3>2, FilesStay, RecordsStay DEF Continues
    <3> QED BY <3>1, <3>2 DEF RecordsFit
  <2> QED BY <1>1, <2>1, <2>5, <2>8, <2>9, FilesStay, FilesFrame
<1> QED BY <1>2, <1>3

(* The removals of a hard-delete.                                          *)
LEMMA RemovalsKeepFiles ==
  ASSUME Inv, FileInv, NEW p \in Procs, DeleteFile(p) \/ DeleteHistory(p) \/ DeleteTimeData(p)
  PROVE  FileGood
<1> DEFINE t == job[p].task
<1>1. /\ pc[p] \in {"deleteFile", "deleteHistory", "deleteTime"} /\ holder = p /\ t \in Tasks
      /\ IsIDReserved(t) /\ job[p] \in Job /\ KnowsTask(p) /\ UNCHANGED <<tombstone, pending>>
  BY ProcTypes DEF DeleteFile, DeleteHistory, DeleteTimeData, FileInv, KnowsTask, ProcInv, Located, outbox
<1>2. /\ \A u \in Tasks : (u # t => task'[u] = task[u]) /\ (history[u] = <<>> => history'[u] = <<>>)
                          /\ (u \notin timers => u \notin timers')
      /\ ~Exists(task[t]) => ~Exists(task'[t])
  BY <1>1 DEF DeleteFile, DeleteHistory, DeleteTimeData, Inv, TypeOK, FilesOK, Exists, NoTask
<1>3. StaysDeleted
  BY <1>1, <1>2 DEF StaysDeleted, IsIDReserved, Gone
<1>4. CASE DeleteFile(p)
  <2> DEFINE j == [job[p] EXCEPT !.quiet = @ /\ ~Exists(task[t])]
  <2>1. Goto(p, "deleteHistory") /\ job' = [job EXCEPT ![p] = j]
    BY <1>4 DEF DeleteFile
  <2>2. j.ev = job[p].ev /\ j.task = t
    <3>1. ASSUME NEW i \in Job, NEW b PROVE [i EXCEPT !.quiet = b].ev = i.ev /\ [i EXCEPT !.quiet = b].task = i.task
      BY DEF Job
    <3> QED BY <1>1, <3>1
  <2> HIDE DEF j
  <2>3. Others(p) /\ pc'[p] = "deleteHistory" /\ job'[p] = j
    BY <2>1, MovesAlone, Zenon
  <2>4. ~Exists(task'[t]) /\ pc[p] = "deleteFile" /\ tombstone'[t] # NoReason
    BY <1>1, <1>4 DEF DeleteFile, Inv, TypeOK, FilesOK, Exists, NoTask, IsIDReserved
  <2>5. KnowsTask(p)'
    BY <1>1, <2>2, <2>3, <2>4 DEF KnowsTask, IsIDReserved
  <2> QED BY <1>1, <1>3, <2>3, <2>5, LeavesRecords
<1>5. CASE DeleteHistory(p)
  <2>1. Others(p) /\ pc'[p] = "deleteTime" /\ UNCHANGED <<job, task>> /\ pc[p] = "deleteHistory"
    BY <1>5, MovesAlone DEF DeleteHistory
  <2>2. history'[t] = <<>> /\ tombstone'[t] # NoReason
    BY <1>1, <1>5 DEF DeleteHistory, Inv, TypeOK, FilesOK, IsIDReserved
  <2>3. KnowsTask(p)'
    BY <1>1, <2>1, <2>2 DEF KnowsTask, IsIDReserved
  <2> QED BY <1>1, <1>3, <2>1, <2>3, LeavesRecords
<1>6. CASE DeleteTimeData(p)
  <2>1. CASE job[p].ev = NoEvent
    <3>1. Others(p) /\ pc'[p] \notin Holding
      BY <1>6, <2>1, EndMoves DEF DeleteTimeData
    <3>2. KnowsTask(p)'
      BY <3>1 DEF KnowsTask
    <3> QED BY <1>1, <1>3, <3>1, <3>2, LeavesRecords
  <2>2. CASE job[p].ev # NoEvent
    <3>1. Others(p) /\ pc'[p] = "deleteSave" /\ UNCHANGED <<job, task, history>> /\ pc[p] = "deleteTime"
      BY <1>6, <2>2, MovesAlone DEF DeleteTimeData
    <3>2. t \notin timers' /\ tombstone'[t] # NoReason
      BY <1>1, <1>6 DEF DeleteTimeData, IsIDReserved
    <3>3. KnowsTask(p)'
      BY <1>1, <3>1, <3>2 DEF KnowsTask, IsIDReserved
    <3> QED BY <1>1, <1>3, <3>1, <3>3, LeavesRecords
  <2> QED BY <2>1, <2>2
<1> QED BY <1>4, <1>5, <1>6

(* The checkpoint after which the delete counts.                           *)
LEMMA DeleteSaveKeepsFiles ==
  ASSUME Inv, FileInv, NEW p \in Procs, DeleteSave(p)
  PROVE  FileGood
<1> DEFINE e == job[p].ev
           s == [pending[e] EXCEPT !.done = @ \cup {"canonical"}]
<1>1. /\ pc[p] = "deleteSave" /\ holder = p /\ KnowsTask(p) /\ UNCHANGED files
      /\ pending' = [pending EXCEPT ![e] = s] /\ EndTransaction(p, job[p].quiet)
  BY ProcTypes DEF DeleteSave, FileInv, ProcInv, Located
<1>2. e \in Events /\ pending[e] # NoRecord /\ pending[e] \in Record
  BY <1>1, ProcTypes DEF ProcInv, InDelete, Recorded, Inv, TypeOK, OutboxOK
<1>3. Gone(pending[e].task) /\ e # NoEvent
  BY <1>1, <1>2 DEF KnowsTask, Gone, Events, NoEvent
<1>4. s.op = pending[e].op /\ s.task = pending[e].task /\ s.original = pending[e].original
      /\ s.desired = pending[e].desired
  BY <1>2, RecordFields DEF Record
<1> HIDE DEF s
<1>5. pending'[e] = s /\ \A f \in Events \ {e} : pending'[f] = pending[f]
  BY <1>1, <1>2 DEF Inv, TypeOK, OutboxOK
<1>6. ASSUME NEW f \in Events PROVE Continues(f)
  <2>1. CASE f # e
    BY <1>5, <2>1 DEF Continues
  <2>2. CASE f = e
    <3>1. pending'[f].task = pending[e].task
      BY <1>4, <1>5, <2>2
    <3>2. Gone(pending[f].task)'
      BY <1>1, <1>3, <3>1 DEF Gone, files
    <3> QED BY <1>2, <1>4, <1>5, <2>2, <3>2 DEF Continues
  <2> QED BY <2>1, <2>2
<1>7. Others(p) /\ pc'[p] \notin Holding
  BY <1>1, EndMoves
<1> QED BY <1>1, <1>6, <1>7, LeavesTasks

(* UpdateTask and StopTimer write to a file that is there.                 *)
LEMMA EditsKeepFiles ==
  ASSUME Inv, FileInv, NEW p \in Procs, NEW t \in Tasks,
         StopTimer(p, t) \/ \E s \in Status : UpdateTask(p, t, s)
  PROVE  FileGood
<1>1. /\ holder = NoProc /\ task[t].dir = "tasks" /\ Exists(task[t]) /\ task[t] \in TaskData
      /\ UNCHANGED <<tombstone, history, pending>>
  BY DEF StopTimer, UpdateTask, LockFree, Exists, outbox, Inv, TypeOK, FilesOK
<1>2. CASE StopTimer(p, t)
  <2> DEFINE j == [NewJob("stopTimer", t, NoReason) EXCEPT !.stage = "last"]
  <2>1. Goto(p, "stopVersion") /\ job' = [job EXCEPT ![p] = j] /\ task' = task /\ timers' \subseteq timers
    BY <1>2 DEF StopTimer
  <2>2. j.task = t
    BY DEF NewJob, NoJob
  <2> HIDE DEF j
  <2>3. Others(p) /\ pc'[p] = "stopVersion" /\ job'[p] = j
    BY <2>1, MovesAlone, Zenon
  <2>4. KnowsTask(p)'
    BY <1>1, <2>1, <2>2, <2>3 DEF KnowsTask
  <2>5. StaysDeleted
    BY <1>1, <2>1 DEF StaysDeleted, IsIDReserved, Gone
  <2> QED BY <1>1, <2>3, <2>4, <2>5, LeavesRecords
<1>3. ASSUME NEW s \in Status, UpdateTask(p, t, s) PROVE FileGood
  <2> DEFINE j == [NewJob("update", t, s) EXCEPT !.snap = task[t], !.stage = "last"]
             d == ApplyStatusTransition(task[t], s)
  <2>1. Goto(p, "editVersion") /\ job' = [job EXCEPT ![p] = j] /\ task' = [task EXCEPT ![t] = d] /\ UNCHANGED timers
    BY <1>3 DEF UpdateTask
  <2>2. j.task = t /\ j.snap = task[t]
    BY DEF NewJob, NoJob
  <2>3. Exists(d)
    BY <1>1, FormsExist
  <2> HIDE DEF j, d
  <2>4. Others(p) /\ pc'[p] = "editVersion" /\ job'[p] = j
    BY <2>1, MovesAlone, Zenon
  <2>5. StaysDeleted /\ task'[t] = d
    BY <1>1, <2>1, WriteStays
  <2>6. KnowsTask(p)'
    BY <1>1, <2>2, <2>3, <2>4, <2>5 DEF KnowsTask
  <2> QED BY <1>1, <2>4, <2>5, <2>6, LeavesRecords
<1> QED BY <1>2, <1>3

(* The versions of an edit and of a created Task, and the end of an edit   *)
(* whose version could not be written.                                     *)
LEMMA EditVersionKeepsFiles ==
  ASSUME Inv, FileInv, NEW p \in Procs, EditVersion(p) \/ CreateVersion(p) \/ EditUndo(p)
  PROVE  FileGood
<1> DEFINE t == job[p].task
<1>1. t \in Tasks /\ holder \in {NoProc, p} /\ UNCHANGED <<tombstone, pending>>
  BY ProcTypes DEF EditVersion, CreateVersion, EditUndo, ProcInv, Located, LockFree, outbox
<1>2. CASE CreateVersion(p)
  <2>1. Others(p) /\ pc'[p] \notin Holding /\ UNCHANGED <<task, timers>>
    BY <1>2, FinishMoves DEF CreateVersion
  <2>2. \A u \in Tasks : IsIDReserved(u) => history'[u] = history[u]
    BY <1>1, <1>2 DEF CreateVersion, Inv, TypeOK, FilesOK
  <2>3. StaysDeleted
    BY <1>1, <2>1, <2>2 DEF StaysDeleted, IsIDReserved, Gone
  <2>4. KnowsTask(p)'
    BY <2>1 DEF KnowsTask
  <2> QED BY <1>1, <2>1, <2>3, <2>4, LeavesRecords
<1>3. CASE EditVersion(p)
  <2>1. PICK place \in {"readIndex", "editUndo", "stopUndo"} :
          Goto(p, place) /\ (place = "editUndo" => pc[p] = "editVersion")
    BY <1>3 DEF EditVersion
  <2>2. Others(p) /\ pc'[p] = place /\ UNCHANGED <<task, timers, job>> /\ pc[p] \in Editing
    BY <1>3, <2>1, MovesAlone DEF EditVersion
  <2>3. \A u \in Tasks : IsIDReserved(u) => history'[u] = history[u]
    BY <1>1, <1>3 DEF EditVersion, Inv, TypeOK, FilesOK
  <2>4. StaysDeleted
    BY <1>1, <2>2, <2>3 DEF StaysDeleted, IsIDReserved, Gone
  <2>5. KnowsTask(p)'
    BY <2>1, <2>2 DEF KnowsTask, FileInv
  <2> QED BY <1>1, <2>2, <2>4, <2>5, LeavesRecords
<1>4. CASE EditUndo(p)
  <2>1. Others(p) /\ pc'[p] \notin Holding /\ UNCHANGED history
    BY <1>4, FinishMoves DEF EditUndo
  <2>2. Exists(task[t])
    BY <1>4 DEF EditUndo, FileInv, KnowsTask
  <2>3. \A u \in Tasks : u # t => task'[u] = task[u] /\ (u \notin timers => u \notin timers')
    BY <1>1, <1>4 DEF EditUndo, Inv, TypeOK, FilesOK
  <2>4. StaysDeleted
    BY <1>1, <2>1, <2>2, <2>3 DEF StaysDeleted, IsIDReserved, Gone
  <2>5. KnowsTask(p)'
    BY <2>1 DEF KnowsTask
  <2> QED BY <1>1, <2>1, <2>4, <2>5, LeavesRecords
<1> QED BY <1>2, <1>3, <1>4

(* A create and a timer start refuse a deleted ID.                         *)
LEMMA NewWorkKeepsFiles ==
  ASSUME Inv, FileInv, NEW p \in Procs, NEW t \in Tasks,
         StartTimer(p, t) \/ \E s \in Status : CreateTask(p, t, s)
  PROVE  FileGood
<1>1. /\ holder = NoProc /\ ~IsIDReserved(t) /\ UNCHANGED <<tombstone, history, pending>>
      /\ \A u \in Tasks : u # t => task'[u] = task[u] /\ (u \notin timers => u \notin timers')
  BY DEF StartTimer, CreateTask, LockFree, outbox, Inv, TypeOK, FilesOK
<1>2. StaysDeleted
  BY <1>1 DEF StaysDeleted, IsIDReserved, Gone
<1>3. CASE StartTimer(p, t)
  <2>1. UNCHANGED <<task, pc, job>>
    BY <1>3 DEF StartTimer, memory
  <2>2. Others(p)
    BY <2>1 DEF Others
  <2>3. KnowsTask(p)'
    <3>1. pc[p] = "idle"
      BY <1>3 DEF StartTimer
    <3> QED BY <2>1, <3>1 DEF KnowsTask
  <2> QED BY <1>1, <1>2, <2>2, <2>3, LeavesRecords
<1>4. ASSUME NEW s \in Status, CreateTask(p, t, s) PROVE FileGood
  <2>1. PICK j : job' = [job EXCEPT ![p] = j] /\ Goto(p, "createVersion")
    BY <1>4 DEF CreateTask
  <2>2. Others(p) /\ pc'[p] = "createVersion"
    BY <2>1, MovesAlone, Zenon
  <2>3. KnowsTask(p)'
    BY <2>2 DEF KnowsTask
  <2> QED BY <1>1, <1>2, <2>2, <2>3, LeavesRecords
<1> QED BY <1>3, <1>4

(* A process dies, or an operation of it fails.                            *)
LEMMA InterruptionsKeepFiles ==
  ASSUME Inv, FileInv, NEW p \in Procs, Crash(p) \/ Fault(p)
  PROVE  FileGood
<1>1. UNCHANGED <<files, pending>>
  BY DEF Crash, Fault, outbox
<1>2. CASE Crash(p)
  <2>1. job' = [job EXCEPT ![p] = NoJob] /\ Goto(p, "idle")
    BY <1>2 DEF Crash
  <2> QED BY <1>1, <2>1, MovesOutside, LeavesFiles
<1>3. CASE Fault(p) /\ pc'[p] \notin Holding
  <2>1. Others(p)
    <3>1. CASE Goto(p, AfterFailure(pc[p])) /\ UNCHANGED job
      BY <3>1, MovesAlone
    <3>2. CASE IndexDone(p, FALSE)
      BY <3>2, IndexDoneMoves
    <3>3. CASE Finish(p)
      BY <3>3, FinishMoves
    <3> QED BY <1>3, <3>1, <3>2, <3>3 DEF Fault
  <2> QED BY <1>1, <1>3, <2>1, LeavesFiles
<1>4. CASE Fault(p) /\ pc'[p] \in Holding
  <2>1. Goto(p, AfterFailure(pc[p])) /\ UNCHANGED job /\ AfterFailure(pc[p]) # "return"
    BY <1>4, FinishMoves, IndexDoneMoves DEF Fault
  <2>2. Others(p) /\ pc'[p] = AfterFailure(pc[p])
    BY <2>1, MovesAlone
  <2>3. \/ pc[p] \in Forward \cup Undo /\ pc'[p] \in Undo
        \/ pc[p] = "editVersion" /\ pc'[p] = "editUndo"
        \/ pc[p] = "stopVersion" /\ pc'[p] = "stopUndo"
    BY <1>4, <2>1, <2>2 DEF AfterFailure
  <2>4. holder = p
    BY <2>3, ProcTypes DEF ProcInv, Located
  <2>5. KnowsTask(p)'
    BY <1>1, <2>1, <2>3 DEF KnowsTask, FileInv, files
  <2> QED BY <1>1, <2>2, <2>4, <2>5, FilesStay, LeavesRecords
<1> QED BY <1>2, <1>3, <1>4

(* Time leaves every process where it is.                                  *)
LEMMA TimeKeepsFiles == ASSUME Inv, FileInv, Time PROVE FileGood
<1>1. ASSUME NEW t \in Tasks, Age(t) PROVE FileGood
  <2>1. /\ UNCHANGED <<tombstone, history, timers, pending, pc, job>>
        /\ task' = [task EXCEPT ![t].completedAt = "aged"]
    BY <1>1 DEF Age, outbox, memory
  <2>2. \A u \in Tasks : task'[u].dir = task[u].dir
    BY <2>1 DEF Inv, TypeOK, FilesOK, TaskData
  <2>3. \A u \in Tasks : Exists(task'[u]) <=> Exists(task[u])
    BY <2>2 DEF Exists
  <2>4. StaysDeleted
    BY <2>1, <2>3 DEF StaysDeleted, IsIDReserved, Gone
  <2>5. RecordsFit'
    BY <2>1, <2>4, AllContinue, RecordsStay DEF RecordsFit
  <2>6. ASSUME NEW p \in Procs PROVE KnowsTask(p)'
    <3>1. KnowsTask(p) /\ ProcInv(p)
      BY ProcTypes DEF FileInv
    <3>2. pc[p] \in Forward \cup Undo => pending[job[p].ev].task \in Tasks
      BY MutationKnows
    <3>3. pc[p] \in Holding => job[p].task \in Tasks
      BY <3>1 DEF ProcInv, Located
    <3> QED BY <2>1, <2>3, <3>1, <3>2, <3>3 DEF KnowsTask, IsIDReserved
  <2> QED BY <2>4, <2>5, <2>6 DEF FileGood, FileInv
<1>2. ASSUME NEW e \in Events, NEW k \in Effects, LeaseEnds(e, k) PROVE FileGood
  <2>1. UNCHANGED <<files, pc, job>> /\ pending[e] # NoRecord
    BY <1>2 DEF LeaseEnds, memory
  <2> DEFINE s == [pending[e] EXCEPT !.claim[k].fresh = FALSE]
  <2>2. pending' = [pending EXCEPT ![e] = s]
    BY <1>2 DEF LeaseEnds
  <2>3. SameMutation(pending[e], s) /\ s.done = pending[e].done
    BY <2>1, RecordFields DEF Inv, TypeOK, OutboxOK, Record, SameMutation
  <2>4. s # NoRecord
    <3>1. pending[e] \in Record
      BY <2>1 DEF Inv, TypeOK, OutboxOK
    <3>2. s \in Record
      <4>1. pending[e].claim[k] \in Claim
        BY <3>1, RecordFields
      <4>2. [pending[e].claim[k] EXCEPT !.fresh = FALSE] \in Claim
        BY <4>1 DEF Claim
      <4>3. s = [pending[e] EXCEPT !.claim[k] = [pending[e].claim[k] EXCEPT !.fresh = FALSE]]
        OBVIOUS
      <4> QED BY <3>1, <4>2, <4>3, RecordClaim
    <3> QED BY <3>2, NoRecordAssumption
  <2> HIDE DEF s
  <2>5. \A f \in Events : Continues(f)
    BY <2>1, <2>2, <2>3, ContinuesWith
  <2>6. StaysDeleted /\ RecordsFit'
    BY <2>1, <2>5, FilesStay, RecordsStay DEF RecordsFit
  <2>7. ASSUME NEW f \in Events, pending[f] # NoRecord
        PROVE  pending'[f].op = pending[f].op /\ pending'[f].task = pending[f].task
    <3>1. CASE f = e
      <4>1. pending'[f] = s
        BY <2>2, <3>1 DEF Inv, TypeOK, OutboxOK
      <4> QED BY <2>3, <3>1, <4>1 DEF SameMutation
    <3>2. CASE f # e
      BY <2>2, <3>2 DEF Inv, TypeOK, OutboxOK
    <3> QED BY <3>1, <3>2
  <2>8. ASSUME NEW p \in Procs PROVE KnowsTask(p)'
    <3>1. KnowsTask(p) /\ ProcInv(p)
      BY ProcTypes DEF FileInv
    <3>2. pc[p] \in Forward \cup Undo => job[p].ev \in Events /\ pending[job[p].ev] # NoRecord
      BY <3>1 DEF ProcInv, InMutation, Prepared, Recorded
    <3>3. pc[p] \in Deleting \ {"deleteRecord"} /\ job[p].ev # NoEvent =>
            job[p].ev \in Events /\ pending[job[p].ev] # NoRecord
      BY <3>1 DEF ProcInv, InDelete, Recorded
    <3>4. UNCHANGED <<task, tombstone, history, timers, pc, job>>
      BY <2>1 DEF files
    <3>5. pc[p] \in Forward \cup Undo =>
            pending'[job[p].ev].op # "hard_delete" /\ Exists(task[pending'[job[p].ev].task])
      BY <3>1, <3>2, <2>7 DEF KnowsTask
    <3>6. pc[p] \in Deleting /\ pc[p] # "deleteRecord" /\ job[p].ev # NoEvent =>
            pending'[job[p].ev].task = job[p].task
      BY <3>1, <3>3, <2>7 DEF KnowsTask
    <3> HIDE DEF Forward, Undo, Deleting, Editing, Holding
    <3> QED BY <3>1, <3>4, <3>5, <3>6, Zenon DEF KnowsTask, IsIDReserved
  <2> QED BY <2>6, <2>8 DEF FileGood, FileInv
<1> QED BY <1>1, <1>2 DEF Time

(* Every step keeps what the records and the processes know of the files,  *)
(* and lets nothing come back under a tombstone.                           *)
LEMMA StepKeepsFiles == ASSUME Inv, FileInv, [Next]_vars PROVE FileGood
<1>1. CASE UNCHANGED vars
  <2>1. UNCHANGED <<files, pending, pc, job>>
    BY <1>1 DEF vars, files
  <2>2. StaysDeleted /\ RecordsFit'
    BY <2>1, FilesStay, AllContinue, RecordsStay DEF RecordsFit
  <2>3. ASSUME NEW p \in Procs PROVE KnowsTask(p)'
    BY <2>1 DEF KnowsTask, FileInv, IsIDReserved, files
  <2> QED BY <2>2, <2>3 DEF FileGood, FileInv
<1>2. ASSUME NEW p \in Procs, Step(p) PROVE FileGood
  <2>1. CASE ResolveBatchIDs(p) \/ NextInBatch(p) \/ Flushing(p)
    BY <2>1, OutsideLeaves, FlushLeaves DEF Flushing
  <2>2. CASE Mutating(p)
    BY <2>2, ArchiveReopenKeepsFiles, MutationKeepsFiles, CheckpointsKeepFiles DEF Mutating
  <2>3. CASE HardDeleting(p)
    <3>1. CASE DeleteRefused(p)
      BY <3>1, RefusalLeaves DEF DeleteRefused
    <3> QED BY <2>3, <3>1, DeleteBeginKeepsFiles, DeleteRecordKeepsFiles, RemovalsKeepFiles,
               DeleteSaveKeepsFiles DEF HardDeleting
  <2>4. CASE EditVersion(p) \/ EditUndo(p) \/ CreateVersion(p)
    BY <2>4, EditVersionKeepsFiles
  <2> QED BY <1>2, <2>1, <2>2, <2>3, <2>4 DEF Step
<1>3. ASSUME NEW p \in Procs, Request(p) PROVE FileGood
  <2>1. CASE CallSweep(p)
    BY <2>1, OutsideLeaves
  <2>2. ASSUME NEW t \in Tasks, NEW op, NEW arg, Call(p, op, t, arg) PROVE FileGood
    BY <2>2, OutsideLeaves
  <2>3. ASSUME NEW t \in Tasks, NEW s \in Status, UpdateTask(p, t, s) \/ CreateTask(p, t, s) PROVE FileGood
    BY <2>3, EditsKeepFiles, NewWorkKeepsFiles
  <2>4. ASSUME NEW t \in Tasks, StartTimer(p, t) \/ StopTimer(p, t) PROVE FileGood
    BY <2>4, EditsKeepFiles, NewWorkKeepsFiles
  <2> QED BY <1>3, <2>1, <2>2, <2>3, <2>4, Zenon DEF Request
<1>4. ASSUME NEW p \in Procs, Crash(p) \/ Fault(p) PROVE FileGood
  BY <1>4, InterruptionsKeepFiles
<1>5. CASE Time
  BY <1>5, TimeKeepsFiles
<1> QED BY <1>1, <1>2, <1>3, <1>4, <1>5, Zenon DEF Next

LEMMA FilesAtStart == ASSUME Init PROVE FileInv
BY DEF Init, FileInv, RecordsFit, RecordFits, KnowsTask

(* FileInv is an invariant.                                                *)
THEOREM FilesAreKnown == Spec => []FileInv
<1>1. Inv /\ FileInv /\ [Next]_vars => FileInv'
  BY StepKeepsFiles DEF FileGood
<1> QED
  BY <1>1, FilesAtStart, Invariance, PTL DEF Spec

(* A deleted Task does not come back under its ID, whatever is resumed,    *)
(* rolled back, created or edited, by whichever process.                   *)
THEOREM NothingComesBack == Spec => NoResurrection
<1>1. Inv /\ FileInv /\ [Next]_vars =>
        [\A t \in Tasks : (tombstone[t] # NoReason /\ ~Exists(task[t])) => ~Exists(task'[t])]_vars
  BY StepKeepsFiles DEF FileGood, StaysDeleted, IsIDReserved
<1> QED
  BY <1>1, FilesAreKnown, Invariance, PTL DEF Spec, NoResurrection

(* Once a hard-delete was announced nothing of the Task is left.           *)
THEOREM DeletesLeaveNothing == Spec => []DeletedLeavesNothing
<1>1. Inv /\ FileInv => DeletedLeavesNothing
  <2>1. Inv => DOMAIN pending = Events
    BY DEF Inv, TypeOK, OutboxOK
  <2> QED
    BY <2>1 DEF Inv, EventInv, Settled, FileInv, RecordsFit, RecordFits, Gone, DeletedLeavesNothing
<1> QED
  BY <1>1, FilesAreKnown, Invariance, PTL

(* Histories in which no event occurs twice.                               *)
Once(h) == \A i, j \in DOMAIN h : h[i] = h[j] /\ h[i] # NoEvent => i = j

LEMMA OnceWithVersion ==
  ASSUME NEW h \in Seq(Events \cup {NoEvent}), Once(h), NEW e \in Events \cup {NoEvent},
         e = NoEvent \/ ~HasVersion(h, e)
  PROVE  Once(Append(h, e))
<1> DEFINE g == Append(h, e)
<1>1. Len(h) \in Nat /\ DOMAIN h = 1 .. Len(h) /\ DOMAIN g = 1 .. Len(h) + 1 /\ g[Len(h) + 1] = e
  OBVIOUS
<1>2. \A i \in DOMAIN h : g[i] = h[i]
  OBVIOUS
<1> HIDE DEF g
<1>3. ASSUME NEW i \in DOMAIN g, NEW j \in DOMAIN g, g[i] = g[j], g[i] # NoEvent PROVE i = j
  <2>1. CASE i \in DOMAIN h /\ j \in DOMAIN h
    BY <1>2, <1>3, <2>1 DEF Once
  <2>2. CASE i \in DOMAIN h /\ j = Len(h) + 1
    BY <1>1, <1>2, <1>3, <2>2 DEF HasVersion
  <2>3. CASE i = Len(h) + 1 /\ j \in DOMAIN h
    BY <1>1, <1>2, <1>3, <2>3 DEF HasVersion
  <2>4. i \in DOMAIN h \/ i = Len(h) + 1
    BY <1>1
  <2>5. j \in DOMAIN h \/ j = Len(h) + 1
    BY <1>1
  <2> QED BY <2>1, <2>2, <2>3, <2>4, <2>5
<1> QED BY <1>3 DEF Once, g

LEMMA OnceWithoutLast ==
  ASSUME NEW h \in Seq(Events \cup {NoEvent}), Once(h), h # <<>>
  PROVE  Once(SubSeq(h, 1, Len(h) - 1))
<1> DEFINE g == SubSeq(h, 1, Len(h) - 1)
<1>1. DOMAIN g \subseteq DOMAIN h /\ \A i \in DOMAIN g : g[i] = h[i]
  OBVIOUS
<1> HIDE DEF g
<1> QED BY <1>1 DEF Once, g

(* The actions that write a version file.                                  *)
LEMMA HistoryWriters ==
  ASSUME [Next]_vars, history' # history
  PROVE  \E p \in Procs :
           SaveTaskVersion(p) \/ UndoVersion(p) \/ DeleteHistory(p) \/ EditVersion(p) \/ CreateVersion(p)
<1>1. Next
  BY DEF vars
<1>2. ~Time
  BY Zenon DEF Time, Age, LeaseEnds, files
<1>3. PICK p \in Procs : Step(p) \/ Request(p) \/ Crash(p) \/ Fault(p)
  BY <1>1, <1>2 DEF Next
<1>4. ~Request(p)
  BY Zenon DEF Request, Call, CallSweep, UpdateTask, CreateTask, StartTimer, StopTimer, files
<1>5. ~Crash(p) /\ ~Fault(p)
  BY Zenon DEF Crash, Fault, files
<1>6. ~ResolveBatchIDs(p) /\ ~NextInBatch(p)
  BY Zenon DEF ResolveBatchIDs, NextInBatch, files
<1>7. ~Flushing(p)
  BY Zenon DEF Flushing, ListReady, NextRecord, ClaimEffect, EmitEvent, CompleteEffect, ReleaseClaim,
       ReadForIndex, CommitIndex, RemoveFromIndex, files
<1>8. Mutating(p) => SaveTaskVersion(p) \/ UndoVersion(p)
  BY Zenon DEF Mutating, ArchiveResume, ArchiveBegin, ArchiveUnchanged, ReopenResume, ReopenBegin,
       ReopenUnchanged, TransactionRefused, Resume, Begin, Refuse, EndUnchanged, MoveFile, PatchFile,
       SavePhase, SaveCanonical, UndoPatch, UndoMove, UndoRecord, files
<1>9. HardDeleting(p) => DeleteHistory(p)
  BY Zenon DEF HardDeleting, DeleteBegin, DeleteRefused, DeleteRecord, DeleteFile, DeleteTimeData,
       DeleteSave, Refuse, files
<1>10. ~EditUndo(p)
  BY Zenon DEF EditUndo
<1> QED BY <1>3, <1>4, <1>5, <1>6, <1>7, <1>8, <1>9, <1>10 DEF Step

(* The histories after each step.                                          *)
LEMMA StepKeepsVersions == ASSUME Inv, OneVersionPerEvent, [Next]_vars PROVE OneVersionPerEvent'
<1> SUFFICES ASSUME NEW t \in Tasks PROVE Once(history'[t])
  BY DEF OneVersionPerEvent, Once
<1>1. history[t] \in Seq(Events \cup {NoEvent}) /\ Once(history[t]) /\ history \in [Tasks -> Seq(Events \cup {NoEvent})]
  BY DEF Inv, TypeOK, FilesOK, OneVersionPerEvent, Once
<1>2. Once(<<>>)
  BY DEF Once
<1>3. Once(Append0(history[t]))
  BY <1>1, OnceWithVersion DEF Append0
<1>4. ASSUME history' # history PROVE Once(history'[t])
  <2>1. PICK p \in Procs : SaveTaskVersion(p) \/ UndoVersion(p) \/ DeleteHistory(p) \/ EditVersion(p) \/ CreateVersion(p)
    BY <1>4, HistoryWriters
  <2>2. CASE SaveTaskVersion(p)
    <3> DEFINE e == job[p].ev
    <3>1. e \in Events
      BY <2>2, ProcTypes DEF SaveTaskVersion, ProcInv, InMutation, Prepared, Recorded
    <3>2. history'[t] = history[t] \/ (history'[t] = Append(history[t], e) /\ ~HasVersion(history[t], e))
      BY <1>1, <2>2 DEF SaveTaskVersion
    <3> QED BY <1>1, <3>1, <3>2, OnceWithVersion
  <2>3. CASE UndoVersion(p)
    <3>1. \/ history'[t] = history[t]
          \/ history[t] # <<>> /\ history'[t] = SubSeq(history[t], 1, Len(history[t]) - 1)
      BY <1>1, <2>3 DEF UndoVersion
    <3> QED BY <1>1, <3>1, OnceWithoutLast
  <2>4. CASE DeleteHistory(p)
    <3>1. history'[t] = history[t] \/ history'[t] = <<>>
      BY <1>1, <2>4 DEF DeleteHistory
    <3> QED BY <1>1, <1>2, <3>1
  <2>5. CASE EditVersion(p) \/ CreateVersion(p)
    <3>1. history'[t] = history[t] \/ history'[t] = Append0(history[t])
      BY <1>1, <2>5 DEF EditVersion, CreateVersion
    <3> QED BY <1>1, <1>3, <3>1
  <2> QED BY <2>1, <2>2, <2>3, <2>4, <2>5
<1> QED BY <1>1, <1>4

(* A mutation that is resumed after a crash does not append its version a   *)
(* second time.                                                            *)
THEOREM VersionsAreOnce == Spec => []OneVersionPerEvent
<1>1. Init => OneVersionPerEvent
  BY DEF Init, OneVersionPerEvent
<1>2. Inv /\ OneVersionPerEvent /\ [Next]_vars => OneVersionPerEvent'
  BY StepKeepsVersions
<1> QED
  BY <1>1, <1>2, Invariance, PTL DEF Spec
===============================================================================
