--------------------------- MODULE LifecycleProofs ---------------------------
(***************************************************************************)
(* Proofs about TaskLifecycle, for every value of its constants:           *)
(*                                                                         *)
(*   Invariance         Inv of LifecycleInvariant is an invariant          *)
(*   TypeCorrect        TypeOK is an invariant                             *)
(*   OutboxImplemented  TaskLifecycle implements EventOutbox               *)
(*                                                                         *)
(* There is one lemma per action.  It shows what the step does to the      *)
(* files (FilesOK), to the process (StepOK) and to the records             *)
(* (RecordChanged, RecordRemoved, RecordCreated, OutboxUnchanged), and a   *)
(* frame lemma does the rest: what the step means for all the others, and  *)
(* which step of the abstract outbox it is.                                *)
(***************************************************************************)
EXTENDS LifecycleInvariant, TLAPS

USE DEF Places, Waiting, Holding, Forward, Undo, Deleting, Editing, Hooks

(* How a step of p treats the others, and what it must do to the outbox.   *)
Others(p) == \A q \in Procs \ {p} : pc'[q] = pc[q] /\ job'[q] = job[q]
HolderStep(p) == \A q \in Procs \ {p} : holder' = q <=> holder = q
KeepsSettled == \A e \in Events : Settled(e) => Settled(e)'
OutboxStep == [Outbox!Next]_<<[e \in Events |-> StageOf(e)], delivered>>
GoodStep == Inv' /\ OutboxStep

(* A step of p keeps the invariant when it keeps p's part of it, settles   *)
(* no event back, and touches no record while somebody else holds the      *)
(* lock.                                                                   *)
LEMMA Frame ==
  ASSUME Inv, NEW p \in Procs, TypeOK', EventInv', ProcInv(p)', Others(p), HolderStep(p),
         KeepsSettled, delivered \subseteq delivered', nextEvent <= nextEvent',
         holder \in {NoProc, p} \/ UNCHANGED pending, OutboxStep
  PROVE  GoodStep
<1> SUFFICES ASSUME NEW q \in Procs, q # p PROVE ProcInv(q)'
  BY DEF Inv, GoodStep
<1>1. pc'[q] = pc[q] /\ job'[q] = job[q] /\ (holder' = q <=> holder = q)
  BY DEF Others, HolderStep
<1>2. Located(q)'
  BY <1>1 DEF Inv, ProcInv, Located
<1>3. pc[q] \in Holding => UNCHANGED pending
  BY ProcsAssumption DEF Inv, ProcInv, Located
<1>4. InMutation(q)'
  BY <1>1, <1>3 DEF Inv, ProcInv, InMutation, Prepared, Recorded, TypeOK, OutboxOK, Events
<1>5. InDelete(q)'
  BY <1>1, <1>3 DEF Inv, ProcInv, InDelete, Recorded, TypeOK, OutboxOK, Events
<1>6. InFlush(q)'
  BY <1>1 DEF Inv, ProcInv, InFlush, KeepsSettled, Settled
<1> QED
  BY <1>2, <1>4, <1>5, <1>6 DEF ProcInv

(* A step of p that leaves the outbox alone.                               *)
LEMMA QuietFrame ==
  ASSUME Inv, NEW p \in Procs, TypeOK', ProcInv(p)', Others(p), HolderStep(p),
         UNCHANGED outbox, UNCHANGED delivered
  PROVE  GoodStep
<1>1. EventInv'
  BY DEF Inv, EventInv, Settled, Ready, RequiredPhases, outbox
<1>2. KeepsSettled
  BY DEF KeepsSettled, Settled, outbox
<1>3. OutboxStep
  BY DEF OutboxStep, StageOf, Committed, outbox
<1> QED
  BY <1>1, <1>2, <1>3, Frame DEF outbox, Inv, TypeOK, OutboxOK

(* The parts of a Task file, and what a change of one part leaves.         *)
LEMMA TaskDataFields ==
  ASSUME NEW d \in TaskData
  PROVE  /\ d.dir \in {"none", "tasks", "archive"} /\ d.status \in Status
         /\ d.completedAt \in {"none", "recent", "aged"} /\ d.archivedAt \in BOOLEAN
  BY DEF TaskData

(* A Task file that was moved is a Task file.                              *)
LEMMA WithDir ==
  ASSUME NEW d \in TaskData, NEW x \in {"none", "tasks", "archive"}
  PROVE  [d EXCEPT !.dir = x] \in TaskData
  BY DEF TaskData

(* A Task file whose clocks were set is a Task file.                       *)
LEMMA WithClocks ==
  ASSUME NEW d \in TaskData, NEW c \in {"none", "recent", "aged"}, NEW a \in BOOLEAN
  PROVE  /\ [d EXCEPT !.completedAt = c] \in TaskData
         /\ [d EXCEPT !.completedAt = c, !.archivedAt = a] \in TaskData
  BY DEF TaskData

(* ApplyStatusTransition returns a Task file.                              *)
LEMMA TransitionType ==
  ASSUME NEW d \in TaskData, NEW s \in Status
  PROVE  ApplyStatusTransition(d, s) \in TaskData
<1>1. CASE d.status = s
  BY <1>1 DEF ApplyStatusTransition
<1>2. CASE d.status # s
  BY <1>2 DEF ApplyStatusTransition, TaskData, Status
<1> QED
  BY <1>1, <1>2

(* So do the operators that say what an operation wants.                   *)
LEMMA FormTypes ==
  ASSUME NEW d \in TaskData
  PROVE  /\ Content(d) \in TaskData
         /\ ArchivedForm(d) \in TaskData
         /\ \A s \in Status : ReopenedForm(d, s) \in TaskData
         /\ NoTask \in TaskData /\ NewTask \in TaskData
<1>1. Content(d) \in TaskData
  BY DEF Content, TaskData
<1>2. ArchivedForm(d) \in TaskData
  BY DEF ArchivedForm, TaskData
<1>3. ASSUME NEW s \in Status PROVE ReopenedForm(d, s) \in TaskData
  BY WithDir, TransitionType, WithClocks, Zenon DEF ReopenedForm
<1>4. NoTask \in TaskData /\ NewTask \in TaskData
  BY DEF NoTask, NewTask, TaskData, Status
<1> QED
  BY <1>1, <1>2, <1>3, <1>4

(* The parts of a pending record.                                          *)
LEMMA RecordFields ==
  ASSUME NEW r \in Record
  PROVE  /\ r.op \in {"archive", "reopen", "hard_delete"} /\ r.task \in Tasks
         /\ r.original \in TaskData /\ r.desired \in TaskData
         /\ r.done \in SUBSET Phases /\ r.applied \in SUBSET Effects
         /\ r.claim \in [Effects -> Claim] /\ r # NoRecord
  BY NoRecordAssumption DEF Record

(* Claiming, releasing and marking an effect leaves a record.              *)
LEMMA RecordClaim ==
  ASSUME NEW r \in Record, NEW k \in Effects, NEW c \in Claim
  PROVE  /\ [r EXCEPT !.claim[k] = c] \in Record
         /\ [r EXCEPT !.applied = @ \cup {k}, !.claim[k] = c] \in Record
<1>1. [r.claim EXCEPT ![k] = c] \in [Effects -> Claim]
  BY RecordFields
<1> QED
  BY <1>1, RecordFields DEF Record

(* Checkpointing a phase leaves a record.                                  *)
LEMMA RecordDone ==
  ASSUME NEW r \in Record, NEW x \in Phases
  PROVE  [r EXCEPT !.done = @ \cup {x}] \in Record
  BY RecordFields DEF Record

(* A new record is a record.                                               *)
LEMMA PendingRecordType ==
  ASSUME NEW op \in {"archive", "reopen", "hard_delete"}, NEW t \in Tasks,
         NEW original \in TaskData, NEW desired \in TaskData
  PROVE  PendingRecord(op, t, original, desired) \in Record
<1>1. [k \in Effects |-> NoClaim] \in [Effects -> Claim]
  BY DEF NoClaim, Claim
<1> QED
  BY <1>1 DEF PendingRecord, Record

(* The parts of a call.                                                    *)
LEMMA JobFields ==
  ASSUME NEW j \in Job
  PROVE  /\ j.op \in AllCalls \cup {"none"} /\ j.task \in Tasks \cup {NoParent}
         /\ j.arg \in Reasons \cup Status \cup {NoReason} /\ j.batch \in SUBSET Tasks
         /\ j.queue \in SUBSET Events /\ j.ev \in Events \cup {NoEvent}
         /\ j.effect \in Effects /\ j.stage \in {"pre", "post", "last"}
         /\ j.quiet \in BOOLEAN /\ j.snap \in TaskData
         /\ j.op = "reopen" => j.arg \in Status
         /\ j.op = "delete" => j.arg \in Reasons
  BY DEF Job

(* No call is a call.                                                      *)
LEMMA NoJobType == NoJob \in Job /\ NoJob.queue = {}
<1>1. NoTask \in TaskData
  BY DEF NoTask, TaskData, Status
<1> QED
  BY <1>1 DEF NoJob, Job, Effects

(* A new call is a call with nothing to flush.                             *)
LEMMA NewJobType ==
  ASSUME NEW op \in AllCalls \cup {"none"}, NEW t \in Tasks \cup {NoParent},
         NEW arg \in Reasons \cup Status \cup {NoReason},
         op = "reopen" => arg \in Status, op = "delete" => arg \in Reasons
  PROVE  /\ NewJob(op, t, arg) \in Job
         /\ NewJob(op, t, arg).task = t
         /\ NewJob(op, t, arg).queue = {}
<1>1. NewJob(op, t, arg) \in Job
  BY NoJobType, JobFields, Zenon DEF NewJob, NoJob, Job
<1>2. NewJob(op, t, arg).task = t /\ NewJob(op, t, arg).queue = {}
  BY DEF NewJob, NoJob
<1> QED
  BY <1>1, <1>2

(* A call that the sweep makes for one of its Tasks.                       *)
LEMMA BatchJobType ==
  ASSUME NEW t \in Tasks, NEW b \in SUBSET Tasks
  PROVE  /\ [NewJob("sweep", t, NoReason) EXCEPT !.batch = b] \in Job
         /\ [NewJob("sweep", t, NoReason) EXCEPT !.batch = b].queue = {}
         /\ [NewJob("sweep", t, NoReason) EXCEPT !.batch = b].task = t
         /\ [NoJob EXCEPT !.op = "sweep", !.batch = b] \in Job
         /\ [NoJob EXCEPT !.op = "sweep", !.batch = b].queue = {}
<1>1. /\ NewJob("sweep", t, NoReason) \in Job
      /\ NewJob("sweep", t, NoReason).queue = {}
      /\ NewJob("sweep", t, NoReason).task = t
  BY NewJobType DEF AllCalls
<1>2. ASSUME NEW j \in Job
      PROVE  /\ [j EXCEPT !.batch = b] \in Job
             /\ [j EXCEPT !.batch = b].queue = j.queue
             /\ [j EXCEPT !.batch = b].task = j.task
  BY DEF Job
<1>3. /\ [NoJob EXCEPT !.op = "sweep", !.batch = b] \in Job
      /\ [NoJob EXCEPT !.op = "sweep", !.batch = b].queue = {}
  BY NoJobType, Zenon DEF Job, AllCalls
<1> QED
  BY <1>1, <1>2, <1>3

(* Goto moves one process.                                                 *)
LEMMA GotoStep ==
  ASSUME Inv, NEW p \in Procs, NEW place \in Places, Goto(p, place)
  PROVE  /\ pc' \in [Procs -> Places] /\ pc'[p] = place
         /\ \A q \in Procs \ {p} : pc'[q] = pc[q]
  BY DEF Inv, TypeOK, MemoryOK, Goto

(* An update of one call.                                                  *)
LEMMA JobStep ==
  ASSUME Inv, NEW p \in Procs, NEW j \in Job, job' = [job EXCEPT ![p] = j]
  PROVE  /\ job' \in [Procs -> Job] /\ job'[p] = j
         /\ \A q \in Procs \ {p} : job'[q] = job[q]
  BY DEF Inv, TypeOK, MemoryOK

(* What the invariant says of one process.                                 *)
LEMMA ProcTypes ==
  ASSUME Inv, NEW p \in Procs
  PROVE  /\ job[p] \in Job /\ pc[p] \in Places /\ ProcInv(p)
         /\ holder \in Procs \cup {NoProc} /\ p # NoProc
         /\ BoundsOK
  BY ProcsAssumption DEF Inv, TypeOK, MemoryOK

(* The lock is taken by p or given back by p, or stays where it is.        *)
HolderMoves(p) == holder' = holder \/ (holder \in {p, NoProc} /\ holder' \in {p, NoProc})

(* A step of p that moves it and gives it the call j.                      *)
LEMMA Control ==
  ASSUME Inv, NEW p \in Procs, NEW place \in Places, NEW j \in Job,
         Goto(p, place), job' = [job EXCEPT ![p] = j], HolderMoves(p)
  PROVE  /\ MemoryOK' /\ Others(p) /\ HolderStep(p)
         /\ pc'[p] = place /\ job'[p] = j
  BY GotoStep, JobStep, ProcTypes, ProcsAssumption, Zenon DEF MemoryOK, Others, HolderMoves, HolderStep

(* A step of p that only moves it.                                         *)
LEMMA ControlSameJob ==
  ASSUME Inv, NEW p \in Procs, NEW place \in Places,
         Goto(p, place), UNCHANGED job, HolderMoves(p)
  PROVE  /\ MemoryOK' /\ Others(p) /\ HolderStep(p)
         /\ pc'[p] = place /\ job'[p] = job[p]
  BY GotoStep, ProcTypes, ProcsAssumption DEF Inv, TypeOK, MemoryOK, Others, HolderMoves, HolderStep

(* What a step of p has to show of p itself.                               *)
StepOK(p) == MemoryOK' /\ Others(p) /\ HolderStep(p) /\ ProcInv(p)'

(* The call of p returns.                                                  *)
LEMMA FinishStep ==
  ASSUME Inv, NEW p \in Procs, Finish(p), holder' = IF holder = p THEN NoProc ELSE holder
  PROVE  StepOK(p)
<1>1. HolderMoves(p) /\ holder' # p
  BY ProcTypes DEF HolderMoves
<1>2. job[p].batch \in SUBSET Tasks
  BY ProcTypes, JobFields
<1>3. ASSUME NEW j \in Job, NEW place \in {"idle", "batch"}, j.queue = {},
             Goto(p, place), job' = [job EXCEPT ![p] = j]
      PROVE  StepOK(p)
  <2>1. MemoryOK' /\ Others(p) /\ HolderStep(p) /\ pc'[p] = place /\ job'[p].queue = {}
    BY <1>1, <1>3, Control, Zenon
  <2> QED
    BY <1>1, <2>1 DEF StepOK, ProcInv, Located, InMutation, InDelete, InFlush
<1>4. CASE job[p].op = "sweep"
  <2> DEFINE j == [NoJob EXCEPT !.op = "sweep", !.batch = job[p].batch]
  <2>1. j \in Job /\ j.queue = {}
    <3>1. j \in Job
      BY <1>2, BatchJobType, NoJobType, Zenon DEF Job, AllCalls
    <3>2. j.queue = {}
      BY <1>2, BatchJobType, NoJobType DEF Job, AllCalls
    <3> QED
      BY <3>1, <3>2
  <2>2. Goto(p, "batch") /\ job' = [job EXCEPT ![p] = j]
    BY <1>4 DEF Finish
  <2> HIDE DEF j
  <2> QED
    BY <1>3, <2>1, <2>2
<1>5. CASE job[p].op # "sweep"
  <2>1. Goto(p, "idle") /\ job' = [job EXCEPT ![p] = NoJob]
    BY <1>5 DEF Finish
  <2> QED
    BY <1>3, <2>1, NoJobType
<1> QED
  BY <1>4, <1>5

(* The transaction of p ends: the lock is free, the post-flush follows.    *)
LEMMA EndTransactionStep ==
  ASSUME Inv, NEW p \in Procs, NEW quiet \in BOOLEAN, EndTransaction(p, quiet),
         holder \in {p, NoProc}, pc[p] \notin {"idle", "list", "batch"}, KeepsSettled
  PROVE  StepOK(p)
<1> DEFINE j == [job[p] EXCEPT !.stage = "post", !.quiet = quiet, !.ev = NoEvent]
<1>1. j \in Job /\ j.task = job[p].task /\ j.queue = job[p].queue
  <2>1. ASSUME NEW i \in Job
        PROVE  LET k == [i EXCEPT !.stage = "post", !.quiet = quiet, !.ev = NoEvent]
               IN  k \in Job /\ k.task = i.task /\ k.queue = i.queue
    BY DEF Job
  <2> QED
    BY <2>1, ProcTypes
<1>2. Goto(p, "flush") /\ job' = [job EXCEPT ![p] = j] /\ HolderMoves(p) /\ holder' # p
  BY ProcTypes DEF EndTransaction, HolderMoves
<1> HIDE DEF j
<1>3. /\ MemoryOK' /\ Others(p) /\ HolderStep(p)
      /\ pc'[p] = "flush" /\ job'[p].task = job[p].task /\ job'[p].queue = job[p].queue
  BY <1>1, <1>2, Control, Zenon
<1>4. ProcInv(p)'
  BY <1>2, <1>3, ProcTypes
     DEF ProcInv, Located, InMutation, InDelete, InFlush, KeepsSettled, Settled
<1> QED
  BY <1>3, <1>4 DEF StepOK

(* A step of p that changes neither files nor outbox nor index.            *)
LEMMA ControlFrame ==
  ASSUME Inv, NEW p \in Procs, StepOK(p), UNCHANGED <<files, outbox, outside>>, BoundsOK'
  PROVE  GoodStep
<1>1. FilesOK' /\ OutboxOK' /\ OutsideOK'
  BY DEF Inv, TypeOK, FilesOK, OutboxOK, OutsideOK, files, outbox, outside
<1> QED
  BY <1>1, QuietFrame DEF StepOK, TypeOK, outside, outbox

(* A call begins.                                                          *)
LEMMA CallStep ==
  ASSUME Inv, NEW p \in Procs, NEW t \in Tasks, NEW op \in AllCalls,
         NEW arg \in Reasons \cup Status \cup {NoReason}, Call(p, op, t, arg),
         op = "reopen" => arg \in Status, op = "delete" => arg \in Reasons
  PROVE  GoodStep
<1> DEFINE j == NewJob(op, t, arg)
<1>1. j \in Job /\ j.queue = {} /\ j.task = t
  BY NewJobType
<1>2. /\ pc[p] = "idle" /\ Goto(p, "flush") /\ job' = [job EXCEPT ![p] = j]
      /\ UNCHANGED <<files, outbox, outside>> /\ holder' = holder /\ BoundsOK'
  BY ProcTypes DEF Call, BoundsOK, bounds
<1> HIDE DEF j
<1>3. /\ MemoryOK' /\ Others(p) /\ HolderStep(p)
      /\ pc'[p] = "flush" /\ job'[p].queue = {} /\ job'[p].task = t
  BY <1>1, <1>2, Control, Zenon DEF HolderMoves
<1>4. ProcInv(p)'
  BY <1>2, <1>3, ProcTypes DEF ProcInv, Located, InMutation, InDelete, InFlush
<1> QED
  BY <1>2, <1>3, <1>4, ControlFrame DEF StepOK

(* A sweep begins.                                                         *)
LEMMA CallSweepStep ==
  ASSUME Inv, NEW p \in Procs, CallSweep(p)
  PROVE  GoodStep
<1> DEFINE j == NewJob("sweep", NoParent, NoReason)
<1>1. j \in Job /\ j.queue = {}
  BY NewJobType DEF AllCalls
<1>2. /\ pc[p] = "idle" /\ Goto(p, "list") /\ job' = [job EXCEPT ![p] = j]
      /\ UNCHANGED <<files, outbox, outside>> /\ holder' = holder /\ BoundsOK'
  BY ProcTypes DEF CallSweep, BoundsOK, bounds
<1> HIDE DEF j
<1>3. /\ MemoryOK' /\ Others(p) /\ HolderStep(p)
      /\ pc'[p] = "list" /\ job'[p].queue = {}
  BY <1>1, <1>2, Control, Zenon DEF HolderMoves
<1>4. ProcInv(p)'
  BY <1>2, <1>3, ProcTypes DEF ProcInv, Located, InMutation, InDelete, InFlush
<1> QED
  BY <1>2, <1>3, <1>4, ControlFrame DEF StepOK

(* The sweep resolves its Task IDs.                                        *)
LEMMA ResolveBatchIDsStep ==
  ASSUME Inv, NEW p \in Procs, ResolveBatchIDs(p)
  PROVE  GoodStep
<1> DEFINE B == {t \in Tasks : task[t].dir = "tasks" /\ task[t].status = "done"}
       \cup {pending[e].task : e \in {f \in Events : pending[f] # NoRecord /\ pending[f].op = "archive"}}
           j == [job[p] EXCEPT !.batch = B]
<1>1. B \in SUBSET Tasks
  BY RecordFields DEF Inv, TypeOK, OutboxOK
<1>2. /\ pc[p] = "list" /\ Goto(p, "batch") /\ job' = [job EXCEPT ![p] = j]
      /\ UNCHANGED <<files, outbox, outside>> /\ holder' = holder /\ BoundsOK'
  BY ProcTypes DEF ResolveBatchIDs, BoundsOK, bounds
<1> HIDE DEF B
<1>3. j \in Job /\ j.queue = job[p].queue
  BY <1>1, ProcTypes, JobFields DEF Job
<1> HIDE DEF j
<1>4. /\ MemoryOK' /\ Others(p) /\ HolderStep(p)
      /\ pc'[p] = "batch" /\ job'[p].queue = job[p].queue
  BY <1>2, <1>3, Control, Zenon DEF HolderMoves
<1>5. ProcInv(p)'
  BY <1>2, <1>4, ProcTypes
     DEF ProcInv, Located, InMutation, InDelete, InFlush, Settled, outbox, outside
<1> QED
  BY <1>2, <1>4, <1>5, ControlFrame DEF StepOK

(* The sweep takes its next Task.                                          *)
LEMMA NextInBatchStep ==
  ASSUME Inv, NEW p \in Procs, NextInBatch(p)
  PROVE  GoodStep
<1>1. UNCHANGED <<files, outbox, outside, holder, bounds>> /\ pc[p] = "batch"
  BY DEF NextInBatch
<1>2. BoundsOK' /\ HolderMoves(p) /\ holder' # p
  BY <1>1, ProcTypes DEF BoundsOK, bounds, HolderMoves, ProcInv, Located
<1>3. CASE Goto(p, "idle") /\ job' = [job EXCEPT ![p] = NoJob]
  <2>1. MemoryOK' /\ Others(p) /\ HolderStep(p) /\ pc'[p] = "idle" /\ job'[p].queue = {}
    BY <1>2, <1>3, NoJobType, Control, Zenon
  <2>2. ProcInv(p)'
    BY <1>2, <2>1 DEF ProcInv, Located, InMutation, InDelete, InFlush
  <2> QED
    BY <1>1, <1>2, <2>1, <2>2, ControlFrame DEF StepOK
<1>4. ASSUME NEW t \in job[p].batch, Goto(p, "flush"),
             job' = [job EXCEPT ![p] = [NewJob("sweep", t, NoReason) EXCEPT !.batch = job[p].batch \ {t}]]
      PROVE  GoodStep
  <2> DEFINE j == [NewJob("sweep", t, NoReason) EXCEPT !.batch = job[p].batch \ {t}]
  <2>1. t \in Tasks /\ job[p].batch \ {t} \in SUBSET Tasks
    BY ProcTypes, JobFields
  <2>2. j \in Job /\ j.queue = {} /\ j.task = t
    BY <2>1, BatchJobType
  <2>3. Goto(p, "flush") /\ job' = [job EXCEPT ![p] = j]
    BY <1>4
  <2> HIDE DEF j
  <2>4. /\ MemoryOK' /\ Others(p) /\ HolderStep(p)
        /\ pc'[p] = "flush" /\ job'[p].queue = {} /\ job'[p].task = t
    BY <1>2, <2>2, <2>3, Control, Zenon
  <2>5. ProcInv(p)'
    BY <1>2, <2>1, <2>4 DEF ProcInv, Located, InMutation, InDelete, InFlush
  <2> QED
    BY <1>1, <1>2, <2>4, <2>5, ControlFrame DEF StepOK
<1> QED
  BY <1>3, <1>4 DEF NextInBatch

(* What ListReady lists is settled: it is ready, hence canonical.          *)
LEMMA ListReadyStep ==
  ASSUME Inv, NEW p \in Procs, ListReady(p)
  PROVE  GoodStep
<1> DEFINE R == ReadyRecords(job[p].task)
           j == [job[p] EXCEPT !.queue = R, !.quiet = @ /\ R = {}]
<1>1. R \in SUBSET Events /\ (job[p].quiet /\ R = {}) \in BOOLEAN
  BY DEF ReadyRecords
<1>2. /\ pc[p] = "flush" /\ Goto(p, "next") /\ job' = [job EXCEPT ![p] = j]
      /\ UNCHANGED <<files, outbox, outside>> /\ holder' = holder /\ BoundsOK'
  BY ProcTypes DEF ListReady, BoundsOK, bounds
<1>3. \A f \in R : Settled(f)
  <2> SUFFICES ASSUME NEW f \in R PROVE Settled(f)
    OBVIOUS
  <2>1. f \in Events /\ pending[f] # NoRecord /\ Ready(pending[f]) /\ pending[f] \in Record
    BY DEF ReadyRecords, Inv, TypeOK, OutboxOK
  <2>2. "canonical" \in pending[f].done
    BY <2>1 DEF Ready, RequiredPhases, Phases
  <2>3. f < nextEvent
    BY <2>1, BoundsAssumption DEF Inv, EventInv, TypeOK, OutboxOK, Events
  <2> QED
    BY <2>1, <2>2, <2>3 DEF Settled
<1> HIDE DEF R
<1>4. j \in Job /\ j.queue = R /\ j.task = job[p].task
  BY <1>1, ProcTypes, JobFields DEF Job
<1> HIDE DEF j
<1>5. /\ MemoryOK' /\ Others(p) /\ HolderStep(p)
      /\ pc'[p] = "next" /\ job'[p].queue = R /\ job'[p].task = job[p].task
  BY <1>2, <1>4, Control, Zenon DEF HolderMoves
<1>6. ProcInv(p)'
  BY <1>2, <1>3, <1>5, ProcTypes
     DEF ProcInv, Located, InMutation, InDelete, InFlush, Settled, outbox, outside
<1> QED
  BY <1>2, <1>5, <1>6, ControlFrame DEF StepOK

(* The flush goes to its next record, or ends.                             *)
LEMMA NextRecordStep ==
  ASSUME Inv, NEW p \in Procs, NextRecord(p)
  PROVE  GoodStep
<1>1. UNCHANGED <<files, outbox, outside, holder, bounds>> /\ pc[p] = "next"
  BY Zenon DEF NextRecord
<1>2. BoundsOK' /\ HolderMoves(p) /\ holder' # p /\ holder # p /\ job[p].task \in Tasks
  BY <1>1, ProcTypes DEF BoundsOK, bounds, HolderMoves, ProcInv, Located
<1>3. ASSUME NEW f \in Events, Settled(f) PROVE Settled(f)'
  BY <1>1, <1>3 DEF Settled, outbox, outside
<1>4. \A f \in job[p].queue : f \in Events /\ Settled(f)
  BY ProcTypes, JobFields DEF ProcInv, InFlush
<1>5. ASSUME NEW e \in job[p].queue, Goto(p, "claim"),
             job' = [job EXCEPT ![p].queue = @ \ {e}, ![p].ev = e, ![p].effect = "event"]
      PROVE  GoodStep
  <2> DEFINE j == [job[p] EXCEPT !.queue = @ \ {e}, !.ev = e, !.effect = "event"]
  <2>1. job' = [job EXCEPT ![p] = j]
    BY <1>5
  <2>2. j \in Job /\ j.queue = job[p].queue \ {e} /\ j.ev = e /\ j.task = job[p].task
    <3>1. ASSUME NEW i \in Job
          PROVE  LET k == [i EXCEPT !.queue = @ \ {e}, !.ev = e, !.effect = "event"]
                 IN  k \in Job /\ k.queue = i.queue \ {e} /\ k.ev = e /\ k.task = i.task
      BY <1>4 DEF Job, Effects
    <3> QED
      BY <3>1, ProcTypes
  <2> HIDE DEF j
  <2>3. /\ MemoryOK' /\ Others(p) /\ HolderStep(p) /\ pc'[p] = "claim"
        /\ job'[p].queue = job[p].queue \ {e} /\ job'[p].ev = e /\ job'[p].task = job[p].task
    BY <1>2, <1>5, <2>1, <2>2, Control, Zenon
  <2>4. ProcInv(p)'
    BY <1>2, <1>3, <1>4, <2>3 DEF ProcInv, Located, InMutation, InDelete, InFlush
  <2> QED
    BY <1>1, <1>2, <2>3, <2>4, ControlFrame DEF StepOK
<1>6. CASE job[p].queue = {} /\ Goto(p, "txn") /\ UNCHANGED job
  <2>1. MemoryOK' /\ Others(p) /\ HolderStep(p) /\ pc'[p] = "txn" /\ job'[p] = job[p]
    BY <1>2, <1>6, ControlSameJob
  <2>2. ProcInv(p)'
    BY <1>2, <1>6, <2>1 DEF ProcInv, Located, InMutation, InDelete, InFlush
  <2> QED
    BY <1>1, <1>2, <2>1, <2>2, ControlFrame DEF StepOK
<1>7. ASSUME job[p].queue = {}, NEW place \in {"removeIndex", "readIndex"}, Goto(p, place),
             job' = [job EXCEPT ![p].stage = "last", ![p].ev = NoEvent]
      PROVE  GoodStep
  <2> DEFINE j == [job[p] EXCEPT !.stage = "last", !.ev = NoEvent]
  <2>1. job' = [job EXCEPT ![p] = j]
    BY <1>7
  <2>2. j \in Job /\ j.queue = {} /\ j.stage = "last" /\ j.task = job[p].task
    <3>1. ASSUME NEW i \in Job
          PROVE  LET k == [i EXCEPT !.stage = "last", !.ev = NoEvent]
                 IN  k \in Job /\ k.queue = i.queue /\ k.stage = "last" /\ k.task = i.task
      BY DEF Job
    <3> QED
      BY <3>1, <1>7, ProcTypes
  <2> HIDE DEF j
  <2>3. /\ MemoryOK' /\ Others(p) /\ HolderStep(p) /\ pc'[p] = place
        /\ job'[p].queue = {} /\ job'[p].stage = "last" /\ job'[p].task = job[p].task
    <3>1. MemoryOK' /\ Others(p) /\ HolderStep(p) /\ pc'[p] = place /\ job'[p] = j
      BY <1>2, <1>7, <2>1, <2>2, Control, Zenon
    <3> QED
      BY <3>1, <2>2
  <2>4. ProcInv(p)'
    BY <1>2, <2>3 DEF ProcInv, Located, InMutation, InDelete, InFlush
  <2> QED
    BY <1>1, <1>2, <2>3, <2>4, ControlFrame DEF StepOK
<1>8. CASE Finish(p)
  BY <1>1, <1>2, <1>8, FinishStep, ControlFrame
<1> QED
  BY <1>5, <1>6, <1>7, <1>8, Zenon DEF NextRecord

(* Emit announces an event that is settled.                                *)
LEMMA EmitEventStep ==
  ASSUME Inv, NEW p \in Procs, EmitEvent(p)
  PROVE  GoodStep
<1>1. /\ pc[p] = "emit" /\ Goto(p, "complete") /\ UNCHANGED job /\ HolderMoves(p) /\ holder' = holder
      /\ UNCHANGED <<files, outbox>> /\ index' = index /\ BoundsOK'
      /\ delivered' = delivered \cup {job[p].ev}
  BY ProcTypes DEF EmitEvent, HolderMoves, BoundsOK, bounds
<1>2. MemoryOK' /\ Others(p) /\ HolderStep(p) /\ pc'[p] = "complete" /\ job'[p] = job[p]
  BY <1>1, ControlSameJob
<1>3. Settled(job[p].ev) /\ holder # p
  BY <1>1, ProcTypes DEF ProcInv, InFlush, Located
<1>4. KeepsSettled
  BY <1>1 DEF KeepsSettled, Settled, outbox
<1>5. EventInv'
  BY <1>1, <1>3 DEF Inv, EventInv, Settled, outbox, Ready
<1>6. ProcInv(p)'
  BY <1>1, <1>2, <1>3, <1>4, ProcTypes, JobFields
     DEF ProcInv, Located, InMutation, InDelete, InFlush, KeepsSettled, Settled
<1>7. TypeOK'
  BY <1>1, <1>2, <1>3 DEF Inv, TypeOK, FilesOK, OutboxOK, OutsideOK, Settled, files, outbox
<1>8. OutboxStep
  <2>1. PICK e \in Events : e = job[p].ev /\ Settled(e)
    BY <1>3 DEF Settled
  <2>2. StageOf(e) \in {"committed", "closed"}
    BY <2>1 DEF Settled, StageOf, Committed, Inv, TypeOK, OutboxOK, Events
  <2>3. \A f \in Events : StageOf(f)' = StageOf(f)
    BY <1>1, <2>1 DEF Settled, StageOf, Committed, outbox
  <2>4. Outbox!Announce(e)
    BY <1>1, <2>1, <2>2, <2>3 DEF Outbox!Announce
  <2> QED
    BY <2>4 DEF OutboxStep, Outbox!Next
<1> QED
  BY <1>1, <1>2, <1>4, <1>5, <1>6, <1>7, <1>8, Frame DEF outbox, Inv, TypeOK, OutboxOK

(* A step of p that changes the outbox, while nobody else holds the lock.  *)
LEMMA RecordFrame ==
  ASSUME Inv, NEW p \in Procs, StepOK(p), BoundsOK', UNCHANGED <<files, outside>>,
         OutboxOK', EventInv', KeepsSettled, OutboxStep, nextEvent <= nextEvent', holder \in {NoProc, p}
  PROVE  GoodStep
<1>1. FilesOK' /\ OutsideOK'
  BY DEF Inv, TypeOK, FilesOK, OutsideOK, files, outside
<1> QED
  BY <1>1, Frame DEF StepOK, TypeOK, outside

(* A step that changes the stage of one event, in one of the ways the      *)
(* abstract outbox allows, is a step of the abstract outbox.               *)
LEMMA StageStep ==
  ASSUME NEW e \in Events, \A f \in Events \ {e} : StageOf(f)' = StageOf(f), UNCHANGED delivered,
         \/ StageOf(e)' = StageOf(e)
         \/ StageOf(e) = "unused" /\ StageOf(e)' = "prepared"
         \/ StageOf(e) = "prepared" /\ StageOf(e)' \in {"committed", "withdrawn"}
         \/ StageOf(e) = "committed" /\ StageOf(e)' = "closed" /\ e \in delivered
  PROVE  OutboxStep
<1> DEFINE S == [f \in Events |-> StageOf(f)]
<1>1. S' = [S EXCEPT ![e] = StageOf(e)'] /\ S[e] = StageOf(e)
  BY Zenon
<1>2. CASE StageOf(e)' = StageOf(e)
  BY <1>2 DEF OutboxStep
<1>3. CASE StageOf(e) = "unused" /\ StageOf(e)' = "prepared"
  <2>1. Outbox!Prepare(e)
    BY <1>1, <1>3 DEF Outbox!Prepare, Outbox!Become
  <2> QED
    BY <2>1 DEF OutboxStep, Outbox!Next
<1>4. CASE StageOf(e) = "prepared" /\ StageOf(e)' = "committed"
  <2>1. Outbox!Commit(e)
    BY <1>1, <1>4 DEF Outbox!Commit, Outbox!Become
  <2> QED
    BY <2>1 DEF OutboxStep, Outbox!Next
<1>5. CASE StageOf(e) = "prepared" /\ StageOf(e)' = "withdrawn"
  <2>1. Outbox!Withdraw(e)
    BY <1>1, <1>5 DEF Outbox!Withdraw, Outbox!Become
  <2> QED
    BY <2>1 DEF OutboxStep, Outbox!Next
<1>6. CASE StageOf(e) = "committed" /\ StageOf(e)' = "closed" /\ e \in delivered
  <2>1. Outbox!Close(e)
    BY <1>1, <1>6 DEF Outbox!Close, Outbox!Become
  <2> QED
    BY <2>1 DEF OutboxStep, Outbox!Next
<1> QED
  BY <1>2, <1>3, <1>4, <1>5, <1>6

(* A record is used only for the events that were given out.               *)
(* A record is there only for events that were given out.                  *)
LEMMA RecordIsUsed ==
  ASSUME Inv, NEW e \in Events, pending[e] # NoRecord
  PROVE  e < nextEvent /\ StageOf(e) = IF "canonical" \in pending[e].done THEN "committed" ELSE "prepared"
<1>1. e < nextEvent /\ ~(e >= nextEvent)
  BY BoundsAssumption DEF Inv, EventInv, TypeOK, OutboxOK, Events
<1> QED
  BY <1>1 DEF StageOf, Committed

(* A record that is changed: a stutter or a commit of the outbox.          *)
LEMMA RecordChanged ==
  ASSUME Inv, NEW e \in Events, NEW r \in Record, pending[e] # NoRecord,
         pending' = [pending EXCEPT ![e] = r], UNCHANGED <<nextEvent, delivered>>,
         pending[e].done \subseteq r.done,
         "event" \in r.applied => e \in delivered,
         "canonical" \in r.done => Ready(r)
  PROVE  OutboxOK' /\ EventInv' /\ KeepsSettled /\ OutboxStep
<1>1. pending'[e] = r /\ r # NoRecord /\ \A f \in Events \ {e} : pending'[f] = pending[f]
  BY RecordFields DEF Inv, TypeOK, OutboxOK
<1>2. OutboxOK'
  BY DEF Inv, TypeOK, OutboxOK
<1>3. KeepsSettled
  BY <1>1 DEF KeepsSettled, Settled
<1>4. EventInv'
  BY <1>1, <1>3 DEF Inv, TypeOK, OutsideOK, EventInv, KeepsSettled, Ready
<1>5. e < nextEvent /\ ~(e >= nextEvent)
  BY BoundsAssumption, RecordIsUsed DEF Inv, TypeOK, OutboxOK, Events
<1>6. StageOf(e)' = IF "canonical" \in r.done THEN "committed" ELSE "prepared"
  BY <1>1, <1>5 DEF StageOf, Committed
<1>7. \A f \in Events \ {e} : StageOf(f)' = StageOf(f)
  BY <1>1 DEF StageOf, Committed
<1>8. OutboxStep
  BY <1>6, <1>7, RecordIsUsed, StageStep
<1> QED
  BY <1>2, <1>3, <1>4, <1>8

(* A record that is removed: a close or a withdrawal.                      *)
LEMMA RecordRemoved ==
  ASSUME Inv, NEW e \in Events, pending[e] # NoRecord,
         pending' = [pending EXCEPT ![e] = NoRecord], UNCHANGED <<nextEvent, delivered>>,
         "canonical" \in pending[e].done => e \in delivered
  PROVE  OutboxOK' /\ EventInv' /\ KeepsSettled /\ OutboxStep
<1>1. pending'[e] = NoRecord /\ \A f \in Events \ {e} : pending'[f] = pending[f]
  BY DEF Inv, TypeOK, OutboxOK
<1>2. OutboxOK'
  BY DEF Inv, TypeOK, OutboxOK
<1>3. KeepsSettled
  BY <1>1 DEF KeepsSettled, Settled
<1>4. EventInv'
  BY <1>1, <1>3 DEF Inv, TypeOK, OutsideOK, EventInv, KeepsSettled, Ready
<1>5. e < nextEvent /\ ~(e >= nextEvent)
  BY BoundsAssumption, RecordIsUsed DEF Inv, TypeOK, OutboxOK, Events
<1>6. e \in delivered => "canonical" \in pending[e].done
  BY DEF Inv, EventInv, Settled
<1>7. StageOf(e)' = IF e \in delivered THEN "closed" ELSE "withdrawn"
  BY <1>1, <1>5 DEF StageOf
<1>8. \A f \in Events \ {e} : StageOf(f)' = StageOf(f)
  BY <1>1 DEF StageOf, Committed
<1>9. OutboxStep
  BY <1>6, <1>7, <1>8, RecordIsUsed, StageStep
<1> QED
  BY <1>2, <1>3, <1>4, <1>9

(* A record that is created: a preparation.                                *)
LEMMA RecordCreated ==
  ASSUME Inv, nextEvent <= MaxEvents, NEW r \in Record, r.done = {}, r.applied = {},
         pending' = [pending EXCEPT ![nextEvent] = r], nextEvent' = nextEvent + 1,
         UNCHANGED delivered
  PROVE  /\ OutboxOK' /\ EventInv' /\ KeepsSettled /\ OutboxStep
         /\ nextEvent \in Events /\ pending'[nextEvent] = r
<1>1. nextEvent \in Events /\ nextEvent \in Nat /\ MaxEvents \in Nat
  BY BoundsAssumption DEF Inv, TypeOK, OutboxOK, Events
<1>2. /\ pending'[nextEvent] = r /\ r # NoRecord
      /\ \A f \in Events \ {nextEvent} : pending'[f] = pending[f]
  BY <1>1, RecordFields DEF Inv, TypeOK, OutboxOK
<1>3. OutboxOK'
  BY <1>1 DEF Inv, TypeOK, OutboxOK
<1>4. KeepsSettled
  BY <1>1, <1>2 DEF KeepsSettled, Settled, Events
<1>5. \A e \in Events : e >= nextEvent' => pending'[e] = NoRecord
  BY <1>1, <1>2 DEF Inv, EventInv, Events
<1>6. EventInv'
  BY <1>2, <1>4, <1>5 DEF Inv, TypeOK, OutsideOK, EventInv, KeepsSettled, Ready
<1>7. PICK e \in Events : e = nextEvent
  BY <1>1
<1>8. StageOf(e) = "unused" /\ StageOf(e)' = "prepared"
  BY <1>1, <1>2, <1>7 DEF StageOf, Committed, Events
<1>9. \A f \in Events \ {e} : StageOf(f)' = StageOf(f)
  BY <1>1, <1>2, <1>7 DEF StageOf, Committed, Events
<1>10. OutboxStep
  BY <1>8, <1>9, StageStep
<1> QED
  BY <1>1, <1>2, <1>3, <1>4, <1>6, <1>10

(* claimPendingPhase.                                                      *)
LEMMA ClaimEffectStep ==
  ASSUME Inv, NEW p \in Procs, ClaimEffect(p)
  PROVE  GoodStep
<1> DEFINE e == job[p].ev
           k == job[p].effect
           r == pending[e]
<1>1. /\ UNCHANGED <<files, nextEvent, outside, holder, bounds>> /\ pc[p] = "claim" /\ holder = NoProc
  BY Zenon DEF ClaimEffect, LockFree
<1>2. /\ BoundsOK' /\ HolderMoves(p) /\ holder' # p /\ job[p].task \in Tasks
      /\ e \in Events /\ Settled(e) /\ k \in Effects
  BY <1>1, ProcTypes, JobFields
     DEF BoundsOK, bounds, HolderMoves, ProcInv, Located, InFlush, Settled
<1>3. ASSUME r # NoRecord, k \notin r.applied, pending' = [pending EXCEPT ![e].claim[k] = ClaimBy(p)],
             NEW place \in {"emit", "removeIndex", "readIndex"}, Goto(p, place), UNCHANGED job,
             place # "emit" => k = "derived"
      PROVE  GoodStep
  <2> DEFINE s == [r EXCEPT !.claim[k] = ClaimBy(p)]
  <2>1. r \in Record
    BY <1>2, <1>3 DEF Inv, TypeOK, OutboxOK
  <2>2. ClaimBy(p) \in Claim
    BY DEF ClaimBy, Claim
  <2>3. s \in Record
    BY <1>2, <2>1, <2>2, RecordClaim, Zenon
  <2>4. s.op = r.op /\ s.done = r.done /\ s.applied = r.applied
    BY <2>1 DEF Record
  <2>5. pending' = [pending EXCEPT ![e] = s]
    BY <1>3
  <2>6. "event" \in r.applied => e \in delivered
    BY <1>2, <1>3 DEF Inv, EventInv
  <2>7. "canonical" \in r.done => Ready(r)
    BY <1>2, <1>3, Zenon DEF Inv, EventInv
  <2> HIDE DEF s
  <2>8. OutboxOK' /\ EventInv' /\ KeepsSettled /\ OutboxStep
    BY <1>1, <1>2, <1>3, <2>3, <2>4, <2>5, <2>6, <2>7, RecordChanged, Zenon DEF outside, Ready
  <2>9. MemoryOK' /\ Others(p) /\ HolderStep(p) /\ pc'[p] = place /\ job'[p] = job[p]
    BY <1>2, <1>3, ControlSameJob
  <2>10. ProcInv(p)'
    BY <1>2, <1>3, <2>8, <2>9, ProcTypes, Zenon
       DEF ProcInv, Located, InMutation, InDelete, InFlush, KeepsSettled, Settled
  <2> QED
    BY <1>1, <1>2, <2>8, <2>9, <2>10, RecordFrame DEF StepOK, Inv, TypeOK, OutboxOK
<1>4. ASSUME UNCHANGED pending, NEW j \in Job, job' = [job EXCEPT ![p] = j],
             j.ev = e, j.queue = job[p].queue, j.task = job[p].task,
             NEW place \in {"claim", "next"}, Goto(p, place)
      PROVE  GoodStep
  <2>1. /\ MemoryOK' /\ Others(p) /\ HolderStep(p) /\ pc'[p] = place
        /\ job'[p].ev = e /\ job'[p].queue = job[p].queue /\ job'[p].task = job[p].task
    BY <1>2, <1>4, Control, Zenon
  <2>2. ProcInv(p)'
    BY <1>1, <1>2, <1>4, <2>1, ProcTypes
       DEF ProcInv, Located, InMutation, InDelete, InFlush, Settled, outside
  <2> QED
    BY <1>1, <1>2, <1>4, <2>1, <2>2, ControlFrame DEF StepOK, outbox
<1>5. CASE job' = [job EXCEPT ![p].effect = "derived"] /\ UNCHANGED <<pending, pc>>
  <2> DEFINE j == [job[p] EXCEPT !.effect = "derived"]
  <2>1. j \in Job /\ j.ev = e /\ j.queue = job[p].queue /\ j.task = job[p].task
    BY ProcTypes, JobFields DEF Job, Effects
  <2>2. job' = [job EXCEPT ![p] = j] /\ Goto(p, "claim")
    BY <1>1, <1>5 DEF Goto, Inv, TypeOK, MemoryOK
  <2> HIDE DEF j
  <2> QED
    BY <1>4, <1>5, <2>1, <2>2
<1>6. CASE Goto(p, "next") /\ UNCHANGED <<pending, job>>
  <2>1. job' = [job EXCEPT ![p] = job[p]]
    BY <1>6 DEF Inv, TypeOK, MemoryOK
  <2> QED
    BY <1>4, <1>6, <2>1, ProcTypes
<1>7. CASE /\ r # NoRecord /\ k \notin r.applied
           /\ pending' = [pending EXCEPT ![e].claim[k] = ClaimBy(p)]
           /\ Goto(p, IF k = "event" THEN "emit"
                      ELSE IF r.op = "hard_delete" THEN "removeIndex" ELSE "readIndex")
           /\ UNCHANGED job
  BY <1>2, <1>3, <1>7 DEF Effects
<1> QED
  BY <1>5, <1>6, <1>7, Zenon DEF ClaimEffect

(* The flush goes on after an effect.                                      *)
LEMMA AfterEffectStep ==
  ASSUME Inv, NEW p \in Procs, AfterEffect(p), UNCHANGED holder,
         pc[p] \in {"complete", "release"}, KeepsSettled
  PROVE  StepOK(p)
<1>1. HolderMoves(p) /\ holder' # p /\ job[p].task \in Tasks
  BY ProcTypes DEF HolderMoves, ProcInv, Located
<1>2. /\ Settled(job[p].ev) /\ \A f \in job[p].queue : Settled(f)
      /\ \A f : Settled(f) => Settled(f)'
  BY ProcTypes DEF ProcInv, InFlush, KeepsSettled, Settled
<1>3. CASE Goto(p, "claim") /\ job' = [job EXCEPT ![p].effect = "derived"]
  <2> DEFINE j == [job[p] EXCEPT !.effect = "derived"]
  <2>1. j \in Job /\ j.ev = job[p].ev /\ j.queue = job[p].queue /\ j.task = job[p].task
    BY ProcTypes, JobFields DEF Job, Effects
  <2>2. job' = [job EXCEPT ![p] = j]
    BY <1>3
  <2> HIDE DEF j
  <2>3. /\ MemoryOK' /\ Others(p) /\ HolderStep(p) /\ pc'[p] = "claim"
        /\ job'[p].ev = job[p].ev /\ job'[p].queue = job[p].queue /\ job'[p].task = job[p].task
    BY <1>1, <1>3, <2>1, <2>2, Control, Zenon
  <2> QED
    BY <1>1, <1>2, <2>3 DEF StepOK, ProcInv, Located, InMutation, InDelete, InFlush
<1>4. CASE Goto(p, "next") /\ UNCHANGED job
  <2>1. MemoryOK' /\ Others(p) /\ HolderStep(p) /\ pc'[p] = "next" /\ job'[p] = job[p]
    BY <1>1, <1>4, ControlSameJob
  <2> QED
    BY <1>1, <1>2, <2>1 DEF StepOK, ProcInv, Located, InMutation, InDelete, InFlush
<1> QED
  BY <1>3, <1>4 DEF AfterEffect

(* A step that leaves the outbox alone is a stutter of the abstract one.   *)
LEMMA OutboxUnchanged ==
  ASSUME Inv, UNCHANGED <<pending, nextEvent, delivered>>
  PROVE  OutboxOK' /\ EventInv' /\ KeepsSettled /\ OutboxStep
  BY DEF Inv, TypeOK, OutboxOK, EventInv, KeepsSettled, Settled, Ready, OutboxStep, StageOf, Committed

(* completePendingPhase removes a record only when its event is delivered: *)
(* the claim a process completes may have been lost, its delivery is not.  *)
LEMMA CompleteEffectStep ==
  ASSUME Inv, NEW p \in Procs, CompleteEffect(p)
  PROVE  GoodStep
<1> DEFINE e == job[p].ev
           k == job[p].effect
           r == pending[e]
<1>1. /\ UNCHANGED <<files, nextEvent, outside, holder, bounds>> /\ pc[p] = "complete"
      /\ holder = NoProc /\ AfterEffect(p)
      /\ pending' = IF r = NoRecord THEN pending ELSE [pending EXCEPT ![e] = WithEffect(r, k)]
  BY DEF CompleteEffect, LockFree
<1>2. /\ BoundsOK' /\ e \in Events /\ Settled(e) /\ k \in Effects
      /\ k = "event" => e \in delivered
  BY <1>1, ProcTypes, JobFields
     DEF BoundsOK, bounds, ProcInv, InFlush, Settled
<1>3. OutboxOK' /\ EventInv' /\ KeepsSettled /\ OutboxStep
  <2>1. CASE r = NoRecord
    BY <1>1, <2>1, OutboxUnchanged DEF outside
  <2>2. CASE r # NoRecord
    <3>1. /\ r \in Record /\ ("canonical" \in r.done => Ready(r))
          /\ ("event" \in r.applied => e \in delivered)
      BY <1>2, <2>2 DEF Inv, TypeOK, OutboxOK, EventInv
    <3>2. CASE r.applied \cup {k} = Effects
      <4>1. e \in delivered
        BY <1>2, <3>1, <3>2 DEF Effects
      <4>2. pending' = [pending EXCEPT ![e] = NoRecord]
        BY <1>1, <2>2, <3>2 DEF WithEffect
      <4> QED
        BY <1>1, <1>2, <2>2, <4>1, <4>2, RecordRemoved DEF outside
    <3>3. CASE r.applied \cup {k} # Effects
      <4> DEFINE s == [r EXCEPT !.applied = @ \cup {k}, !.claim[k] = NoClaim]
      <4>1. NoClaim \in Claim
        BY DEF NoClaim, Claim
      <4>2. s \in Record
        BY <1>2, <3>1, <4>1, RecordClaim, Zenon
      <4>3. s.op = r.op /\ s.done = r.done /\ s.applied = r.applied \cup {k}
        BY <3>1 DEF Record
      <4>4. pending' = [pending EXCEPT ![e] = s]
        BY <1>1, <2>2, <3>3 DEF WithEffect
      <4> HIDE DEF s
      <4> QED
        BY <1>1, <1>2, <2>2, <3>1, <4>2, <4>3, <4>4, RecordChanged, Zenon DEF outside, Ready
    <3> QED
      BY <3>2, <3>3
  <2> QED
    BY <2>1, <2>2
<1>4. StepOK(p)
  BY <1>1, <1>3, AfterEffectStep
<1> QED
  BY <1>1, <1>2, <1>3, <1>4, RecordFrame DEF Inv, TypeOK, OutboxOK

(* releasePendingClaim.                                                    *)
LEMMA ReleaseClaimStep ==
  ASSUME Inv, NEW p \in Procs, ReleaseClaim(p)
  PROVE  GoodStep
<1> DEFINE e == job[p].ev
           k == job[p].effect
           r == pending[e]
<1>1. /\ UNCHANGED <<files, nextEvent, outside, holder, bounds>> /\ pc[p] = "release"
      /\ holder = NoProc
      /\ pending' = IF r # NoRecord /\ r.claim[k].by = p
                    THEN [pending EXCEPT ![e].claim[k] = NoClaim] ELSE pending
  BY DEF ReleaseClaim, LockFree
<1>2. BoundsOK' /\ e \in Events /\ Settled(e) /\ k \in Effects
  BY <1>1, ProcTypes, JobFields DEF BoundsOK, bounds, ProcInv, InFlush, Settled
<1>3. OutboxOK' /\ EventInv' /\ KeepsSettled /\ OutboxStep
  <2>1. CASE ~(r # NoRecord /\ r.claim[k].by = p)
    BY <1>1, <2>1, OutboxUnchanged, Zenon DEF outside
  <2>2. CASE r # NoRecord /\ r.claim[k].by = p
    <3> DEFINE s == [r EXCEPT !.claim[k] = NoClaim]
    <3>1. /\ r \in Record /\ ("canonical" \in r.done => Ready(r))
          /\ ("event" \in r.applied => e \in delivered)
      BY <1>2, <2>2 DEF Inv, TypeOK, OutboxOK, EventInv
    <3>2. NoClaim \in Claim
      BY DEF NoClaim, Claim
    <3>3. s \in Record
      BY <1>2, <3>1, <3>2, RecordClaim, Zenon
    <3>4. s.op = r.op /\ s.done = r.done /\ s.applied = r.applied
      BY <3>1 DEF Record
    <3>5. pending' = [pending EXCEPT ![e] = s]
      BY <1>1, <2>2
    <3> HIDE DEF s
    <3> QED
      BY <1>1, <1>2, <2>2, <3>1, <3>3, <3>4, <3>5, RecordChanged, Zenon DEF outside, Ready
  <2> QED
    BY <2>1, <2>2, Zenon
<1>4. StepOK(p)
  <2>1. holder' = IF holder = p THEN NoProc ELSE holder
    BY <1>1
  <2>2. CASE AfterEffect(p)
    BY <1>1, <1>3, <2>2, AfterEffectStep
  <2>3. CASE Finish(p)
    BY <2>1, <2>3, FinishStep
  <2> QED
    BY <2>2, <2>3 DEF ReleaseClaim
<1> QED
  <2>1. BoundsOK' /\ nextEvent <= nextEvent' /\ holder \in {NoProc, p}
    BY <1>1, <1>2 DEF Inv, TypeOK, OutboxOK
  <2>2. UNCHANGED <<files, outside>>
    BY <1>1, Zenon
  <2> QED
    BY <1>3, <1>4, <2>1, <2>2, RecordFrame

(* An index hook returns.                                                  *)
LEMMA IndexDoneStep ==
  ASSUME Inv, NEW p \in Procs, NEW ok \in BOOLEAN, IndexDone(p, ok),
         UNCHANGED <<holder, pending, nextEvent, delivered>>, pc[p] \in Hooks
  PROVE  StepOK(p)
<1>1. HolderMoves(p) /\ holder' # p /\ holder # p /\ job[p].task \in Tasks
  BY ProcTypes DEF HolderMoves, ProcInv, Located
<1>2. CASE job[p].stage = "last"
  BY <1>1, <1>2, FinishStep DEF IndexDone
<1>3. CASE job[p].stage # "last"
  <2>1. PICK place \in {"complete", "release"} : Goto(p, place) /\ UNCHANGED job
    BY <1>3 DEF IndexDone
  <2>2. MemoryOK' /\ Others(p) /\ HolderStep(p) /\ pc'[p] = place /\ job'[p] = job[p]
    BY <1>1, <2>1, ControlSameJob
  <2>3. Settled(job[p].ev) /\ job[p].effect = "derived" /\ \A f \in job[p].queue : Settled(f)
    BY <1>3, ProcTypes DEF ProcInv, InFlush
  <2>4. \A f : Settled(f) => Settled(f)'
    BY DEF Settled
  <2> QED
    BY <1>1, <2>1, <2>2, <2>3, <2>4 DEF StepOK, ProcInv, Located, InMutation, InDelete, InFlush
<1> QED
  BY <1>2, <1>3

(* IndexTask reads.                                                        *)
LEMMA ReadForIndexStep ==
  ASSUME Inv, NEW p \in Procs, ReadForIndex(p)
  PROVE  GoodStep
<1>1. UNCHANGED <<files, outbox, outside, holder, bounds>> /\ pc[p] = "readIndex"
  BY DEF ReadForIndex
<1>2. BoundsOK' /\ HolderMoves(p) /\ holder' # p /\ holder # p /\ job[p].task \in Tasks
  BY <1>1, ProcTypes DEF BoundsOK, bounds, HolderMoves, ProcInv, Located
<1>3. CASE /\ Goto(p, "commitIndex")
           /\ job' = [job EXCEPT ![p].snap = Content(task[job[p].task])]
  <2> DEFINE j == [job[p] EXCEPT !.snap = Content(task[job[p].task])]
  <2>1. Content(task[job[p].task]) \in TaskData
    BY <1>2, FormTypes DEF Inv, TypeOK, FilesOK
  <2>2. /\ j \in Job /\ j.ev = job[p].ev /\ j.queue = job[p].queue /\ j.task = job[p].task
        /\ j.stage = job[p].stage /\ j.effect = job[p].effect
    BY <2>1, ProcTypes, JobFields DEF Job
  <2>3. job' = [job EXCEPT ![p] = j]
    BY <1>3
  <2> HIDE DEF j
  <2>4. /\ MemoryOK' /\ Others(p) /\ HolderStep(p) /\ pc'[p] = "commitIndex"
        /\ job'[p].ev = job[p].ev /\ job'[p].queue = job[p].queue /\ job'[p].task = job[p].task
        /\ job'[p].stage = job[p].stage /\ job'[p].effect = job[p].effect
    BY <1>2, <1>3, <2>2, <2>3, Control, Zenon
  <2>5. ProcInv(p)'
    BY <1>1, <1>2, <2>4, ProcTypes
       DEF ProcInv, Located, InMutation, InDelete, InFlush, Settled, outbox, outside
  <2> QED
    BY <1>1, <1>2, <2>4, <2>5, ControlFrame DEF StepOK
<1>4. CASE IndexDone(p, FALSE)
  BY <1>1, <1>2, <1>4, IndexDoneStep, ControlFrame DEF outbox, outside
<1> QED
  BY <1>3, <1>4 DEF ReadForIndex

(* A step that ends an index hook with a new index entry.                  *)
LEMMA IndexFrame ==
  ASSUME Inv, NEW p \in Procs, NEW ok \in BOOLEAN, IndexDone(p, ok), pc[p] \in Hooks,
         UNCHANGED <<files, outbox, delivered, holder, bounds>>,
         NEW t \in Tasks, NEW d \in TaskData, index' = [index EXCEPT ![t] = d]
  PROVE  GoodStep
<1>1. StepOK(p)
  BY IndexDoneStep DEF outbox
<1>2. FilesOK' /\ OutsideOK' /\ OutboxOK' /\ BoundsOK'
  BY DEF Inv, TypeOK, FilesOK, OutsideOK, OutboxOK, BoundsOK, files, bounds, outbox
<1> QED
  BY <1>1, <1>2, QuietFrame DEF StepOK, TypeOK

(* IndexTask commits.                                                      *)
LEMMA CommitIndexStep ==
  ASSUME Inv, NEW p \in Procs, CommitIndex(p)
  PROVE  GoodStep
<1> DEFINE t == job[p].task
           now == Content(task[t])
<1>1. /\ UNCHANGED <<files, outbox, delivered, holder, bounds>> /\ pc[p] = "commitIndex"
  BY DEF CommitIndex
<1>2. t \in Tasks /\ NoTask \in TaskData /\ job[p].snap \in TaskData
  BY <1>1, ProcTypes, JobFields, NoJobType DEF ProcInv, Located, NoJob, Job
<1>3. now \in TaskData
  BY <1>2, FormTypes DEF Inv, TypeOK, FilesOK
<1>4. IsIDReserved(t) \in BOOLEAN /\ (now = index[t]) \in BOOLEAN
  BY DEF IsIDReserved
<1>5. CASE index' = [index EXCEPT ![t] = NoTask] /\ IndexDone(p, IsIDReserved(t))
  BY <1>1, <1>2, <1>4, <1>5, IndexFrame
<1>6. CASE index' = [index EXCEPT ![t] = job[p].snap] /\ IndexDone(p, TRUE)
  BY <1>1, <1>2, <1>6, IndexFrame
<1>7. CASE /\ index' = [index EXCEPT ![t] = IF now = @ THEN now ELSE NoTask]
           /\ IndexDone(p, now = index[t])
  <2>1. (IF now = index[t] THEN now ELSE NoTask) \in TaskData
    BY <1>2, <1>3
  <2> QED
    BY <1>1, <1>2, <1>4, <1>7, <2>1, IndexFrame
<1> QED
  BY <1>5, <1>6, <1>7 DEF CommitIndex

(* RemoveTask.                                                             *)
LEMMA RemoveFromIndexStep ==
  ASSUME Inv, NEW p \in Procs, RemoveFromIndex(p)
  PROVE  GoodStep
<1>1. /\ UNCHANGED <<files, outbox, delivered, holder, bounds>> /\ pc[p] = "removeIndex"
      /\ index' = [index EXCEPT ![job[p].task] = NoTask] /\ IndexDone(p, TRUE)
  BY DEF RemoveFromIndex
<1>2. job[p].task \in Tasks /\ NoTask \in TaskData
  BY <1>1, ProcTypes, JobFields, NoJobType DEF ProcInv, Located, NoJob, Job
<1> QED
  BY <1>1, <1>2, IndexFrame

(* A call that fails in its transaction.                                   *)
LEMMA RefuseStep ==
  ASSUME Inv, NEW p \in Procs, Refuse(p)
  PROVE  GoodStep
<1>1. /\ UNCHANGED <<files, outbox, outside, bounds>> /\ Finish(p)
      /\ holder' = IF holder = p THEN NoProc ELSE holder
  BY DEF Refuse
<1>2. BoundsOK'
  BY <1>1, ProcTypes DEF BoundsOK, bounds
<1> QED
  BY <1>1, <1>2, FinishStep, ControlFrame

(* A transaction that changes nothing.                                     *)
LEMMA EndUnchangedStep ==
  ASSUME Inv, NEW p \in Procs, NEW quiet \in BOOLEAN, EndUnchanged(p, quiet),
         holder \in {p, NoProc}, pc[p] \notin {"idle", "list", "batch"}
  PROVE  GoodStep
<1>1. UNCHANGED <<files, outbox, outside, bounds>> /\ EndTransaction(p, quiet)
  BY DEF EndUnchanged
<1>2. BoundsOK' /\ KeepsSettled
  BY <1>1, ProcTypes, OutboxUnchanged DEF BoundsOK, bounds, outbox, outside
<1> QED
  BY <1>1, <1>2, EndTransactionStep, ControlFrame

(* An incomplete record is one whose mutation does not count yet.          *)
LEMMA ResumeStep ==
  ASSUME Inv, NEW p \in Procs, pc[p] = "txn", LockFree,
         NEW op \in {"archive", "reopen"}, Resume(p, op)
  PROVE  GoodStep
<1>1. /\ UNCHANGED <<files, outbox, outside, bounds>> /\ holder' = p /\ Goto(p, "move")
  BY DEF Resume
<1>2. BoundsOK' /\ HolderMoves(p) /\ job[p].task \in Tasks /\ holder = NoProc
  BY <1>1, ProcTypes DEF BoundsOK, bounds, HolderMoves, ProcInv, Located, LockFree
<1>3. PICK e \in Events : /\ Earliest(Incomplete(job[p].task, op), e)
                          /\ job' = [job EXCEPT ![p].ev = e, ![p].quiet = FALSE]
  BY DEF Resume
<1>4. Prepared(e)
  <2>1. pending[e] # NoRecord /\ ~Ready(pending[e])
    BY <1>3 DEF Earliest, Incomplete
  <2>2. e < nextEvent
    BY <2>1, BoundsAssumption DEF Inv, EventInv, TypeOK, OutboxOK, Events
  <2> QED
    BY <2>1, <2>2 DEF Prepared, Recorded, Inv, EventInv
<1> DEFINE j == [job[p] EXCEPT !.ev = e, !.quiet = FALSE]
<1>5. j \in Job /\ j.ev = e /\ j.queue = job[p].queue /\ j.task = job[p].task
  <2>1. ASSUME NEW i \in Job
        PROVE  LET k == [i EXCEPT !.ev = e, !.quiet = FALSE]
               IN  k \in Job /\ k.ev = e /\ k.queue = i.queue /\ k.task = i.task
    BY DEF Job
  <2> QED
    BY <2>1, ProcTypes
<1>6. job' = [job EXCEPT ![p] = j]
  BY <1>3
<1> HIDE DEF j
<1>7. /\ MemoryOK' /\ Others(p) /\ HolderStep(p) /\ pc'[p] = "move"
      /\ job'[p].ev = e /\ job'[p].queue = job[p].queue /\ job'[p].task = job[p].task
  BY <1>1, <1>2, <1>5, <1>6, Control, Zenon
<1>8. ProcInv(p)'
  BY <1>1, <1>2, <1>4, <1>7, ProcTypes
     DEF ProcInv, Located, InMutation, InDelete, InFlush, Settled, Prepared, Recorded, Before, outbox, outside
<1> QED
  BY <1>1, <1>2, <1>7, <1>8, ControlFrame DEF StepOK

(* A new mutation.                                                         *)
LEMMA BeginStep ==
  ASSUME Inv, NEW p \in Procs, pc[p] = "txn", LockFree,
         NEW op \in {"archive", "reopen"}, NEW d \in TaskData, Begin(p, op, d)
  PROVE  GoodStep
<1> DEFINE t == job[p].task
           r == PendingRecord(op, t, task[t], d)
           j == [job[p] EXCEPT !.ev = nextEvent, !.quiet = FALSE]
<1>1. t \in Tasks /\ task[t] \in TaskData /\ holder = NoProc
  BY ProcTypes DEF ProcInv, Located, LockFree, Inv, TypeOK, FilesOK
<1>2. CASE Refuse(p)
  BY <1>2, RefuseStep
<1>3. CASE /\ nextEvent <= MaxEvents
           /\ pending' = [pending EXCEPT ![nextEvent] = r]
           /\ nextEvent' = nextEvent + 1
           /\ job' = [job EXCEPT ![p].ev = nextEvent, ![p].quiet = FALSE]
           /\ holder' = p
           /\ Goto(p, "move")
           /\ UNCHANGED <<files, outside, bounds>>
  <2>1. r \in Record
    BY <1>1, PendingRecordType
  <2>2. r.done = {} /\ r.applied = {}
    BY DEF PendingRecord
  <2>3. job' = [job EXCEPT ![p] = j]
    BY <1>3
  <2> HIDE DEF r
  <2>4. /\ OutboxOK' /\ EventInv' /\ KeepsSettled /\ OutboxStep
        /\ nextEvent \in Events /\ pending'[nextEvent] = r
    BY <1>3, <2>1, <2>2, RecordCreated DEF outside
  <2>5. j \in Job /\ j.ev = nextEvent /\ j.queue = job[p].queue /\ j.task = t
    <3>1. ASSUME NEW i \in Job
          PROVE  LET k == [i EXCEPT !.ev = nextEvent, !.quiet = FALSE]
                 IN  k \in Job /\ k.ev = nextEvent /\ k.queue = i.queue /\ k.task = i.task
      BY <2>4 DEF Job
    <3> QED
      BY <3>1, ProcTypes
  <2> HIDE DEF j
  <2>6. BoundsOK' /\ HolderMoves(p)
    BY <1>1, <1>3, ProcTypes DEF BoundsOK, bounds, HolderMoves
  <2>7. /\ MemoryOK' /\ Others(p) /\ HolderStep(p) /\ pc'[p] = "move"
        /\ job'[p].ev = nextEvent /\ job'[p].queue = job[p].queue /\ job'[p].task = t
    <3>1. MemoryOK' /\ Others(p) /\ HolderStep(p) /\ pc'[p] = "move" /\ job'[p] = j
      BY <1>3, <2>3, <2>5, <2>6, Control, ZenonT(60)
    <3> QED
      BY <3>1, <2>5
  <2>8. r # NoRecord /\ nextEvent < nextEvent' /\ nextEvent <= nextEvent'
    BY <1>3, <2>1, RecordFields DEF Inv, TypeOK, OutboxOK
  <2>9. Prepared(job[p].ev)'
    BY <2>2, <2>4, <2>7, <2>8 DEF Prepared, Recorded
  <2>10. (\A f \in job[p].queue : Settled(f))'
    BY <2>4, <2>7, ProcTypes, JobFields DEF ProcInv, InFlush, KeepsSettled
  <2>11. ProcInv(p)'
    BY <1>1, <1>3, <2>7, <2>9, <2>10, Zenon DEF ProcInv, Located, InMutation, InDelete, InFlush, Before
  <2> QED
    BY <1>1, <1>3, <2>4, <2>6, <2>7, <2>8, <2>11, RecordFrame DEF StepOK
<1> QED
  BY <1>2, <1>3 DEF Begin

(* The first step of the transaction of Archive and of Reopen.             *)
LEMMA ArchiveReopenStep ==
  ASSUME Inv, NEW p \in Procs,
         \/ ArchiveResume(p) \/ ArchiveBegin(p) \/ ArchiveUnchanged(p)
         \/ ReopenResume(p) \/ ReopenBegin(p) \/ ReopenUnchanged(p) \/ TransactionRefused(p)
  PROVE  GoodStep
<1>1. pc[p] = "txn" /\ LockFree /\ holder = NoProc
  BY Zenon DEF ArchiveResume, ArchiveBegin, ArchiveUnchanged, ReopenResume, ReopenBegin,
         ReopenUnchanged, TransactionRefused, Archiving, Reopening, LockFree
<1>2. job[p].task \in Tasks /\ task[job[p].task] \in TaskData /\ job[p].quiet \in BOOLEAN
  BY <1>1, ProcTypes, JobFields DEF ProcInv, Located, Inv, TypeOK, FilesOK
<1>3. CASE ArchiveResume(p) \/ ReopenResume(p)
  BY <1>1, <1>3, ResumeStep DEF ArchiveResume, ReopenResume
<1>4. CASE ArchiveBegin(p)
  BY <1>1, <1>2, <1>4, FormTypes, BeginStep DEF ArchiveBegin
<1>5. CASE ReopenBegin(p)
  <2>1. job[p].arg \in Status
    BY <1>5, ProcTypes, JobFields DEF ReopenBegin, Reopening
  <2>2. ReopenedForm(task[job[p].task], job[p].arg) \in TaskData
    BY <1>2, <2>1, FormTypes
  <2> QED
    BY <1>1, <1>5, <2>2, BeginStep DEF ReopenBegin
<1>6. CASE ArchiveUnchanged(p) \/ ReopenUnchanged(p)
  <2>1. PICK quiet \in BOOLEAN : EndUnchanged(p, quiet)
    BY <1>2, <1>6, Zenon DEF ArchiveUnchanged, ReopenUnchanged
  <2> QED
    BY <1>1, <2>1, EndUnchangedStep
<1>7. CASE TransactionRefused(p)
  BY <1>7, RefuseStep DEF TransactionRefused
<1> QED
  BY <1>3, <1>4, <1>5, <1>6, <1>7

(* A step of p that changes Task files only.                               *)
LEMMA FileFrame ==
  ASSUME Inv, NEW p \in Procs, StepOK(p), FilesOK', UNCHANGED <<outbox, outside, bounds>>
  PROVE  GoodStep
<1>1. OutboxOK' /\ OutsideOK' /\ BoundsOK'
  BY DEF Inv, TypeOK, OutboxOK, OutsideOK, BoundsOK, outbox, outside, bounds
<1> QED
  BY <1>1, QuietFrame DEF StepOK, TypeOK, outside

(* Inside a mutation and its rollback p holds the lock and has a record.   *)
LEMMA MutationFacts ==
  ASSUME Inv, NEW p \in Procs, pc[p] \in Forward \cup Undo
  PROVE  /\ job[p].ev \in Events /\ pending[job[p].ev] \in Record
         /\ pending[job[p].ev] # NoRecord
         /\ pending[job[p].ev].task \in Tasks
         /\ pending[job[p].ev].original \in TaskData /\ pending[job[p].ev].desired \in TaskData
         /\ Prepared(job[p].ev) /\ holder = p /\ job[p].task \in Tasks
         /\ task[pending[job[p].ev].task] \in TaskData
<1>1. Prepared(job[p].ev) /\ holder = p /\ job[p].task \in Tasks
  BY ProcTypes DEF ProcInv, InMutation, Located
<1>2. job[p].ev \in Events /\ pending[job[p].ev] \in Record /\ pending[job[p].ev] # NoRecord
  BY <1>1 DEF Prepared, Recorded, Inv, TypeOK, OutboxOK
<1> QED
  BY <1>1, <1>2, RecordFields DEF Inv, TypeOK, FilesOK

(* From one place of a mutation to the next.                               *)
LEMMA WithinMutation ==
  ASSUME Inv, NEW p \in Procs, pc[p] \in Forward \cup Undo,
         NEW place \in Forward \cup Undo, Goto(p, place),
         UNCHANGED <<holder, job, outbox, outside>>,
         place \in Forward => Before(place) \subseteq pending[job[p].ev].done
  PROVE  StepOK(p)
<1>1. Prepared(job[p].ev) /\ holder = p /\ job[p].task \in Tasks
  BY MutationFacts
<1>2. MemoryOK' /\ Others(p) /\ HolderStep(p) /\ pc'[p] = place /\ job'[p] = job[p]
  BY ControlSameJob DEF HolderMoves
<1>3. \A f \in job[p].queue : Settled(f)
  BY ProcTypes DEF ProcInv, InFlush
<1>4. ProcInv(p)'
  BY <1>1, <1>2, <1>3
     DEF ProcInv, Located, InMutation, InDelete, InFlush, Settled, Prepared, Recorded, outbox, outside
<1> QED
  BY <1>2, <1>4 DEF StepOK

(* The writes of a mutation and of its rollback to the Task file.          *)
LEMMA FileSteps ==
  ASSUME Inv, NEW p \in Procs,
         MoveFile(p) \/ PatchFile(p) \/ UndoPatch(p) \/ UndoMove(p)
  PROVE  GoodStep
<1> DEFINE r == pending[job[p].ev]
<1>1. /\ pc[p] \in Forward \cup Undo
      /\ UNCHANGED <<tombstone, history, timers, outbox, outside, holder, job, bounds>>
  BY Zenon DEF MoveFile, PatchFile, UndoPatch, UndoMove
<1>2. /\ r.task \in Tasks /\ r.original \in TaskData /\ r.desired \in TaskData
      /\ task[r.task] \in TaskData
  BY <1>1, MutationFacts
<1>3. \A d, x \in TaskData : [d EXCEPT !.dir = x.dir] \in TaskData
  BY WithDir, TaskDataFields
<1>4. PICK d \in TaskData : task' = [task EXCEPT ![r.task] = d]
  <2>1. CASE MoveFile(p)
    <3>1. task' = [task EXCEPT ![r.task] = [task[r.task] EXCEPT !.dir = r.desired.dir]]
      BY <2>1 DEF MoveFile
    <3> QED
      BY <1>2, <1>3, <3>1, Zenon
  <2>2. CASE PatchFile(p)
    BY <1>2, <2>2 DEF PatchFile
  <2>3. CASE UndoPatch(p)
    <3>1. task' = [task EXCEPT ![r.task] = [r.original EXCEPT !.dir = task[r.task].dir]]
      BY <2>3 DEF UndoPatch
    <3> QED
      BY <1>2, <1>3, <3>1, Zenon
  <2>4. CASE UndoMove(p)
    <3>1. task' = [task EXCEPT ![r.task] = [task[r.task] EXCEPT !.dir = r.original.dir]]
      BY <2>4 DEF UndoMove
    <3> QED
      BY <1>2, <1>3, <3>1, Zenon
  <2> QED
    BY <2>1, <2>2, <2>3, <2>4
<1>5. FilesOK'
  BY <1>1, <1>2, <1>4 DEF Inv, TypeOK, FilesOK
<1>6. PICK place \in {"saveMove", "savePatch", "undoMove", "undoRecord"} :
        /\ Goto(p, place)
        /\ place = "saveMove" => pc[p] = "move"
        /\ place = "savePatch" => pc[p] = "patch"
  BY Zenon DEF MoveFile, PatchFile, UndoPatch, UndoMove
<1>7. place \in Forward => Before(place) \subseteq r.done
  BY <1>6, ProcTypes DEF ProcInv, InMutation, Before
<1>8. StepOK(p)
  BY <1>1, <1>6, <1>7, WithinMutation
<1> QED
  BY <1>1, <1>5, <1>8, FileFrame

(* Its writes to the versions.                                             *)
LEMMA VersionSteps ==
  ASSUME Inv, NEW p \in Procs, SaveTaskVersion(p) \/ UndoVersion(p)
  PROVE  GoodStep
<1> DEFINE e == job[p].ev
           t == pending[e].task
           h == history[t]
<1>1. /\ pc[p] \in Forward \cup Undo
      /\ UNCHANGED <<task, tombstone, timers, outbox, outside, holder, job, bounds>>
  BY Zenon DEF SaveTaskVersion, UndoVersion
<1>2. e \in Events /\ t \in Tasks
  BY <1>1, MutationFacts
<1>3. h \in Seq(Events \cup {NoEvent})
  BY <1>2 DEF Inv, TypeOK, FilesOK
<1>4. history' \in [Tasks -> Seq(Events \cup {NoEvent})]
  <2>1. CASE UNCHANGED history
    BY <2>1 DEF Inv, TypeOK, FilesOK
  <2>2. CASE history' = [history EXCEPT ![t] = Append(@, e)]
    <3>1. Append(h, e) \in Seq(Events \cup {NoEvent})
      BY <1>2, <1>3
    <3> QED
      BY <1>2, <2>2, <3>1, Zenon DEF Inv, TypeOK, FilesOK
  <2>3. CASE h # <<>> /\ history' = [history EXCEPT ![t] = SubSeq(h, 1, Len(h) - 1)]
    <3>1. SubSeq(h, 1, Len(h) - 1) \in Seq(Events \cup {NoEvent})
      BY <1>3, <2>3
    <3> QED
      BY <1>2, <2>3, <3>1, Zenon DEF Inv, TypeOK, FilesOK
  <2> QED
    BY <2>1, <2>2, <2>3, Zenon DEF SaveTaskVersion, UndoVersion
<1>5. FilesOK'
  BY <1>1, <1>4 DEF Inv, TypeOK, FilesOK
<1>6. PICK place \in {"saveVersion", "undoVersion", "undoPatch"} :
        Goto(p, place) /\ (place = "saveVersion" => pc[p] = "version")
  BY Zenon DEF SaveTaskVersion, UndoVersion
<1>7. place \in Forward => Before(place) \subseteq pending[e].done
  BY <1>6, ProcTypes DEF ProcInv, InMutation, Before
<1>8. StepOK(p)
  BY <1>1, <1>6, <1>7, WithinMutation
<1> QED
  BY <1>1, <1>5, <1>8, FileFrame

(* The checkpoint after a phase.                                           *)
LEMMA SavePhaseStep ==
  ASSUME Inv, NEW p \in Procs, SavePhase(p)
  PROVE  GoodStep
<1> DEFINE e == job[p].ev
           r == pending[e]
           x == PhaseAt(pc[p])
           s == [r EXCEPT !.done = @ \cup {x}]
<1>1. /\ pc[p] \in {"saveMove", "savePatch", "saveVersion"} /\ Goto(p, AfterPhase(pc[p]))
      /\ UNCHANGED <<files, nextEvent, outside, holder, job, bounds>>
      /\ pending' = [pending EXCEPT ![e] = s]
  BY DEF SavePhase
<1>2. e \in Events /\ r \in Record /\ r # NoRecord /\ Prepared(e) /\ holder = p /\ job[p].task \in Tasks
  BY <1>1, MutationFacts
<1>3. x \in Phases /\ x # "canonical"
  BY <1>1 DEF PhaseAt, Phases
<1>4. /\ AfterPhase(pc[p]) \in Forward
      /\ Before(AfterPhase(pc[p])) = Before(pc[p]) \cup {x}
      /\ Before(pc[p]) \subseteq r.done
  BY <1>1, ProcTypes DEF AfterPhase, PhaseAt, Before, ProcInv, InMutation
<1>5. "event" \in r.applied => e \in delivered
  BY <1>2 DEF Inv, EventInv
<1> HIDE DEF x
<1>6. s \in Record /\ s.done = r.done \cup {x} /\ s.applied = r.applied
  BY <1>2, <1>3, RecordDone, Zenon DEF Record
<1> HIDE DEF s
<1>7. OutboxOK' /\ EventInv' /\ KeepsSettled /\ OutboxStep
  BY <1>1, <1>2, <1>3, <1>5, <1>6, RecordChanged DEF outside, Prepared
<1>8. pending'[e] = s /\ s # NoRecord
  BY <1>1, <1>2, <1>6, RecordFields DEF Inv, TypeOK, OutboxOK
<1>9. /\ MemoryOK' /\ Others(p) /\ HolderStep(p)
      /\ pc'[p] = AfterPhase(pc[p]) /\ job'[p] = job[p]
  BY <1>1, <1>4, ControlSameJob DEF HolderMoves
<1>10. \A f \in job[p].queue : Settled(f) /\ (Settled(f) => Settled(f)')
  BY <1>7, ProcTypes, JobFields DEF ProcInv, InFlush, KeepsSettled
<1>11. ProcInv(p)'
  BY <1>1, <1>2, <1>3, <1>4, <1>6, <1>8, <1>9, <1>10
     DEF ProcInv, Located, InMutation, InDelete, InFlush, Prepared, Recorded
<1>12. BoundsOK' /\ nextEvent <= nextEvent'
  BY <1>1, ProcTypes DEF BoundsOK, bounds, Inv, TypeOK, OutboxOK
<1> QED
  BY <1>1, <1>2, <1>7, <1>9, <1>11, <1>12, RecordFrame DEF StepOK

(* The checkpoint that makes the mutation count: all phases are done.      *)
LEMMA SaveCanonicalStep ==
  ASSUME Inv, NEW p \in Procs, SaveCanonical(p)
  PROVE  GoodStep
<1> DEFINE e == job[p].ev
           r == pending[e]
           s == [r EXCEPT !.done = @ \cup {"canonical"}]
<1>1. /\ pc[p] = "saveCanonical" /\ EndTransaction(p, FALSE)
      /\ UNCHANGED <<files, nextEvent, outside, bounds>>
      /\ pending' = [pending EXCEPT ![e] = s]
  BY DEF SaveCanonical
<1>2. e \in Events /\ r \in Record /\ r # NoRecord /\ Prepared(e) /\ holder = p
  BY <1>1, MutationFacts
<1>3. {"move", "patch", "version"} \subseteq r.done
  BY <1>1, ProcTypes DEF Before, ProcInv, InMutation
<1>4. "event" \in r.applied => e \in delivered
  BY <1>2 DEF Inv, EventInv
<1>5. s \in Record /\ s.done = r.done \cup {"canonical"} /\ s.applied = r.applied /\ s.op = r.op
  BY <1>2, RecordDone, Zenon DEF Record, Phases
<1> HIDE DEF s
<1>6. Ready(s)
  BY <1>3, <1>5 DEF Ready, RequiredPhases, Phases
<1>7. OutboxOK' /\ EventInv' /\ KeepsSettled /\ OutboxStep
  BY <1>1, <1>2, <1>4, <1>5, <1>6, RecordChanged DEF outside
<1>8. StepOK(p)
  BY <1>1, <1>2, <1>7, EndTransactionStep
<1>9. BoundsOK' /\ nextEvent <= nextEvent'
  BY <1>1, ProcTypes DEF BoundsOK, bounds, Inv, TypeOK, OutboxOK
<1> QED
  BY <1>1, <1>2, <1>7, <1>8, <1>9, RecordFrame

(* A rolled back mutation is withdrawn: it was not canonical.              *)
LEMMA UndoRecordStep ==
  ASSUME Inv, NEW p \in Procs, UndoRecord(p)
  PROVE  GoodStep
<1>1. /\ pc[p] = "undoRecord" /\ Finish(p) /\ holder' = NoProc
      /\ UNCHANGED <<files, nextEvent, outside, bounds>>
      /\ pending' = [pending EXCEPT ![job[p].ev] = NoRecord]
  BY DEF UndoRecord
<1>2. /\ job[p].ev \in Events /\ pending[job[p].ev] # NoRecord /\ Prepared(job[p].ev)
      /\ holder = p
  BY <1>1, MutationFacts
<1>3. OutboxOK' /\ EventInv' /\ KeepsSettled /\ OutboxStep
  BY <1>1, <1>2, RecordRemoved DEF Prepared, outside
<1>4. StepOK(p)
  BY <1>1, <1>2, FinishStep
<1>5. BoundsOK' /\ nextEvent <= nextEvent'
  BY <1>1, ProcTypes DEF BoundsOK, bounds, Inv, TypeOK, OutboxOK
<1> QED
  BY <1>1, <1>2, <1>3, <1>4, <1>5, RecordFrame

(* The record a hard-delete continues with is a hard-delete record.        *)
LEMMA HardDeleteRecord ==
  ASSUME Inv, NEW t \in Tasks, NEW e \in Events, DeleteRecordOf(t, e)
  PROVE  Recorded(e) /\ pending[e].op = "hard_delete"
<1>1. pending[e] # NoRecord /\ pending[e].op = "hard_delete"
  BY DEF DeleteRecordOf, DeleteRecords, Earliest, Incomplete
<1> QED
  BY <1>1, BoundsAssumption DEF Recorded, Inv, EventInv, TypeOK, OutboxOK, Events

(* What a hard-delete does after its tombstone.                            *)
LEMMA DeleteFromStep ==
  ASSUME Inv, NEW p \in Procs, NEW quiet \in BOOLEAN, Deletable(p), DeleteFrom(p, quiet),
         UNCHANGED <<outbox, outside>>
  PROVE  StepOK(p)
<1>1. pc[p] = "txn" /\ holder = NoProc /\ holder' = p /\ HolderMoves(p) /\ job[p].task \in Tasks
  BY ProcTypes DEF Deletable, LockFree, DeleteFrom, HolderMoves, ProcInv, Located
<1>2. \A f \in job[p].queue : Settled(f)
  BY ProcTypes DEF ProcInv, InFlush
<1>3. ASSUME NEW e \in Events \cup {NoEvent}, NEW place \in {"deleteFile", "deleteRecord", "deleteHistory"},
             job' = [job EXCEPT ![p].ev = e, ![p].quiet = quiet], Goto(p, place),
             \/ e = NoEvent /\ place # "deleteFile"
             \/ Recorded(e) /\ pending[e].op = "hard_delete"
      PROVE  StepOK(p)
  <2> DEFINE j == [job[p] EXCEPT !.ev = e, !.quiet = quiet]
  <2>1. j \in Job /\ j.ev = e /\ j.queue = job[p].queue /\ j.task = job[p].task
    <3>1. ASSUME NEW i \in Job
          PROVE  LET k == [i EXCEPT !.ev = e, !.quiet = quiet]
                 IN  k \in Job /\ k.ev = e /\ k.queue = i.queue /\ k.task = i.task
      BY DEF Job
    <3> QED
      BY <3>1, ProcTypes
  <2>2. job' = [job EXCEPT ![p] = j]
    BY <1>3
  <2> HIDE DEF j
  <2>3. /\ MemoryOK' /\ Others(p) /\ HolderStep(p) /\ pc'[p] = place
        /\ job'[p].ev = e /\ job'[p].queue = job[p].queue /\ job'[p].task = job[p].task
    <3>1. place \in Places /\ Goto(p, place) /\ HolderMoves(p)
      BY <1>1, <1>3
    <3>2. MemoryOK' /\ Others(p) /\ HolderStep(p) /\ pc'[p] = place /\ job'[p] = j
      BY <2>1, <2>2, <3>1, Control, Zenon
    <3> QED
      BY <3>2, <2>1
  <2>4. ProcInv(p)'
    BY <1>1, <1>2, <1>3, <2>3
       DEF ProcInv, Located, InMutation, InDelete, InFlush, Settled, Recorded, outbox, outside
  <2> QED
    BY <2>3, <2>4 DEF StepOK
<1>4. CASE \E e \in Events :
             /\ DeleteRecordOf(job[p].task, e)
             /\ Goto(p, "deleteFile")
             /\ job' = [job EXCEPT ![p].ev = e, ![p].quiet = quiet]
  BY <1>1, <1>3, <1>4, HardDeleteRecord
<1>5. CASE \E place \in {"deleteRecord", "deleteHistory"} :
             Goto(p, place) /\ job' = [job EXCEPT ![p].ev = NoEvent, ![p].quiet = quiet]
  BY <1>3, <1>5
<1> QED
  BY <1>4, <1>5 DEF DeleteFrom

(* The tombstone.                                                          *)
LEMMA DeleteBeginStep ==
  ASSUME Inv, NEW p \in Procs, DeleteBegin(p)
  PROVE  GoodStep
<1>1. Deletable(p) /\ UNCHANGED <<task, history, timers, outbox, outside, bounds>>
  BY DEF DeleteBegin
<1>2. job[p].task \in Tasks /\ job[p].arg \in Reasons /\ job[p].quiet \in BOOLEAN
  BY <1>1, ProcTypes, JobFields DEF Deletable, ProcInv, Located
<1>3. PICK quiet \in BOOLEAN : DeleteFrom(p, quiet)
  BY <1>2 DEF DeleteBegin
<1>4. tombstone' \in [Tasks -> Reasons \cup {NoReason}]
  BY <1>2 DEF DeleteBegin, Inv, TypeOK, FilesOK
<1>5. FilesOK'
  BY <1>1, <1>4 DEF Inv, TypeOK, FilesOK
<1> QED
  BY <1>1, <1>3, <1>5, DeleteFromStep, FileFrame

(* The hard-delete record.                                                 *)
LEMMA DeleteRecordStep ==
  ASSUME Inv, NEW p \in Procs, DeleteRecord(p)
  PROVE  GoodStep
<1> DEFINE t == job[p].task
           r == PendingRecord("hard_delete", t, NoTask, NoTask)
           j == [job[p] EXCEPT !.ev = nextEvent]
<1>1. pc[p] = "deleteRecord"
  BY DEF DeleteRecord
<1>2. t \in Tasks /\ NoTask \in TaskData /\ holder = p
  BY <1>1, ProcTypes, JobFields, NoJobType DEF ProcInv, Located, NoJob, Job
<1>3. CASE Refuse(p)
  BY <1>3, RefuseStep
<1>4. CASE /\ nextEvent <= MaxEvents
           /\ pending' = [pending EXCEPT ![nextEvent] = r]
           /\ nextEvent' = nextEvent + 1
           /\ job' = [job EXCEPT ![p].ev = nextEvent]
           /\ Goto(p, "deleteFile")
           /\ UNCHANGED <<files, outside, holder, bounds>>
  <2>1. r \in Record
    BY <1>2, PendingRecordType
  <2>2. r.done = {} /\ r.applied = {} /\ r.op = "hard_delete"
    BY DEF PendingRecord
  <2>3. job' = [job EXCEPT ![p] = j]
    BY <1>4
  <2> HIDE DEF r
  <2>4. /\ OutboxOK' /\ EventInv' /\ KeepsSettled /\ OutboxStep
        /\ nextEvent \in Events /\ pending'[nextEvent] = r
    BY <1>4, <2>1, <2>2, RecordCreated DEF outside
  <2>5. j \in Job /\ j.ev = nextEvent /\ j.queue = job[p].queue /\ j.task = t
    BY <2>4, ProcTypes, JobFields DEF Job
  <2> HIDE DEF j
  <2>6. BoundsOK' /\ HolderMoves(p)
    BY <1>2, <1>4, ProcTypes DEF BoundsOK, bounds, HolderMoves
  <2>7. /\ MemoryOK' /\ Others(p) /\ HolderStep(p) /\ pc'[p] = "deleteFile"
        /\ job'[p].ev = nextEvent /\ job'[p].queue = job[p].queue /\ job'[p].task = t
    BY <1>4, <2>3, <2>5, <2>6, Control, Zenon
  <2>8. r # NoRecord /\ nextEvent < nextEvent' /\ nextEvent <= nextEvent'
    BY <1>4, <2>1, RecordFields DEF Inv, TypeOK, OutboxOK
  <2>9. Recorded(job[p].ev)' /\ (pending[job[p].ev].op)' = "hard_delete"
    BY <2>2, <2>4, <2>7, <2>8 DEF Recorded
  <2>10. (\A f \in job[p].queue : Settled(f))'
    BY <2>4, <2>7, ProcTypes, JobFields DEF ProcInv, InFlush, KeepsSettled
  <2>11. ProcInv(p)'
    BY <1>2, <1>4, <2>7, <2>9, <2>10 DEF ProcInv, Located, InMutation, InDelete, InFlush
  <2> QED
    BY <1>2, <1>4, <2>4, <2>6, <2>7, <2>8, <2>11, RecordFrame DEF StepOK
<1> QED
  BY <1>3, <1>4 DEF DeleteRecord

(* The file and the versions go.                                           *)
LEMMA DeleteFilesStep ==
  ASSUME Inv, NEW p \in Procs, DeleteFile(p) \/ DeleteHistory(p)
  PROVE  GoodStep
<1>1. /\ pc[p] \in {"deleteFile", "deleteHistory"}
      /\ UNCHANGED <<tombstone, timers, outbox, outside, holder, bounds>>
  BY DEF DeleteFile, DeleteHistory
<1>2. job[p].task \in Tasks /\ holder = p /\ HolderMoves(p)
  BY <1>1, ProcTypes DEF ProcInv, Located, HolderMoves
<1>3. \A f \in job[p].queue : Settled(f)
  BY ProcTypes DEF ProcInv, InFlush
<1>4. FilesOK'
  <2>1. NoTask \in TaskData
    BY NoJobType, JobFields DEF NoJob, Job
  <2>2. task' \in [Tasks -> TaskData]
    BY <1>2, <2>1 DEF DeleteFile, DeleteHistory, Inv, TypeOK, FilesOK
  <2>3. history' \in [Tasks -> Seq(Events \cup {NoEvent})]
    <3>1. <<>> \in Seq(Events \cup {NoEvent})
      OBVIOUS
    <3>2. UNCHANGED history \/ history' = [history EXCEPT ![job[p].task] = <<>>]
      BY DEF DeleteFile, DeleteHistory
    <3> QED
      BY <1>2, <3>1, <3>2 DEF Inv, TypeOK, FilesOK
  <2> QED
    BY <1>1, <2>2, <2>3 DEF Inv, TypeOK, FilesOK
<1>5. ASSUME NEW j \in Job, job' = [job EXCEPT ![p] = j], NEW place \in {"deleteHistory", "deleteTime"},
             Goto(p, place), j.ev = job[p].ev, j.queue = job[p].queue, j.task = job[p].task
      PROVE  StepOK(p)
  <2>1. /\ MemoryOK' /\ Others(p) /\ HolderStep(p) /\ pc'[p] = place
        /\ job'[p].ev = job[p].ev /\ job'[p].queue = job[p].queue /\ job'[p].task = job[p].task
    BY <1>2, <1>5, Control, Zenon
  <2>2. \/ job[p].ev = NoEvent
        \/ Recorded(job[p].ev) /\ pending[job[p].ev].op = "hard_delete"
    BY <1>1, ProcTypes DEF ProcInv, InDelete
  <2>3. ProcInv(p)'
    BY <1>1, <1>2, <1>3, <1>5, <2>1, <2>2
       DEF ProcInv, Located, InMutation, InDelete, InFlush, Settled, Recorded, outbox, outside
  <2> QED
    BY <2>1, <2>3 DEF StepOK
<1>6. CASE DeleteFile(p)
  <2> DEFINE q == job[p].quiet /\ ~Exists(task[job[p].task])
             j == [job[p] EXCEPT !.quiet = q]
  <2>1. Goto(p, "deleteHistory") /\ job' = [job EXCEPT ![p] = j]
    BY <1>6 DEF DeleteFile
  <2>2. q \in BOOLEAN
    OBVIOUS
  <2> HIDE DEF q
  <2>3. j \in Job /\ j.ev = job[p].ev /\ j.queue = job[p].queue /\ j.task = job[p].task
    BY <2>2, ProcTypes, JobFields DEF Job
  <2> HIDE DEF j
  <2> QED
    BY <1>1, <1>4, <1>5, <2>1, <2>3, FileFrame
<1>7. CASE DeleteHistory(p)
  <2>1. Goto(p, "deleteTime") /\ job' = [job EXCEPT ![p] = job[p]]
    BY <1>7 DEF DeleteHistory, Inv, TypeOK, MemoryOK
  <2> QED
    BY <1>1, <1>4, <1>5, <2>1, ProcTypes, FileFrame
<1> QED
  BY <1>6, <1>7

(* The time data goes.                                                     *)
LEMMA DeleteTimeDataStep ==
  ASSUME Inv, NEW p \in Procs, DeleteTimeData(p)
  PROVE  GoodStep
<1>1. /\ pc[p] = "deleteTime" /\ UNCHANGED <<task, tombstone, history, outbox, outside, bounds>>
      /\ timers' = timers \ {job[p].task}
  BY DEF DeleteTimeData
<1>2. holder = p /\ job[p].task \in Tasks /\ job[p].quiet \in BOOLEAN
  BY <1>1, ProcTypes, JobFields DEF ProcInv, Located
<1>3. FilesOK'
  BY <1>1 DEF Inv, TypeOK, FilesOK
<1>4. KeepsSettled
  BY <1>1, OutboxUnchanged DEF outbox, outside
<1>5. CASE EndTransaction(p, job[p].quiet)
  BY <1>1, <1>2, <1>3, <1>4, <1>5, EndTransactionStep, FileFrame
<1>6. CASE job[p].ev # NoEvent /\ Goto(p, "deleteSave") /\ UNCHANGED <<holder, job>>
  <2>1. MemoryOK' /\ Others(p) /\ HolderStep(p) /\ pc'[p] = "deleteSave" /\ job'[p] = job[p]
    BY <1>6, ControlSameJob DEF HolderMoves
  <2>2. ProcInv(p)'
    BY <1>1, <1>2, <1>6, <2>1, ProcTypes
       DEF ProcInv, Located, InMutation, InDelete, InFlush, Settled, Recorded, outbox, outside
  <2> QED
    BY <1>1, <1>3, <2>1, <2>2, FileFrame DEF StepOK
<1> QED
  BY <1>5, <1>6 DEF DeleteTimeData

(* The checkpoint of a hard-delete, which may not be the first one.        *)
LEMMA DeleteSaveStep ==
  ASSUME Inv, NEW p \in Procs, DeleteSave(p)
  PROVE  GoodStep
<1> DEFINE e == job[p].ev
           r == pending[e]
           s == [r EXCEPT !.done = @ \cup {"canonical"}]
<1>1. /\ pc[p] = "deleteSave" /\ EndTransaction(p, job[p].quiet)
      /\ UNCHANGED <<files, nextEvent, outside, bounds>>
      /\ pending' = [pending EXCEPT ![e] = s]
  BY DEF DeleteSave
<1>2. /\ e \in Events /\ r \in Record /\ r # NoRecord /\ r.op = "hard_delete" /\ holder = p
      /\ job[p].quiet \in BOOLEAN
  BY <1>1, ProcTypes, JobFields DEF ProcInv, InDelete, Located, Recorded, Inv, TypeOK, OutboxOK
<1>3. "event" \in r.applied => e \in delivered
  BY <1>2 DEF Inv, EventInv
<1>4. s \in Record /\ s.done = r.done \cup {"canonical"} /\ s.applied = r.applied /\ s.op = r.op
  BY <1>2, RecordDone, Zenon DEF Record, Phases
<1> HIDE DEF s
<1>5. Ready(s)
  BY <1>2, <1>4 DEF Ready, RequiredPhases
<1>6. OutboxOK' /\ EventInv' /\ KeepsSettled /\ OutboxStep
  BY <1>1, <1>2, <1>3, <1>4, <1>5, RecordChanged DEF outside
<1>7. StepOK(p)
  BY <1>1, <1>2, <1>6, EndTransactionStep
<1>8. BoundsOK' /\ nextEvent <= nextEvent'
  BY <1>1, ProcTypes DEF BoundsOK, bounds, Inv, TypeOK, OutboxOK
<1> QED
  BY <1>1, <1>2, <1>6, <1>7, <1>8, RecordFrame

(* UpdateTask and StopTimer take the lock.                                 *)
LEMMA EditBegins ==
  ASSUME Inv, NEW p \in Procs, pc[p] = "idle", LockFree, NEW j \in Job,
         NEW place \in {"editVersion", "stopVersion"}, Goto(p, place), holder' = p,
         job' = [job EXCEPT ![p] = j], j.task \in Tasks, j.queue = {}, j.stage = "last"
  PROVE  StepOK(p)
<1>1. HolderMoves(p)
  BY ProcTypes DEF LockFree, HolderMoves
<1>2. /\ MemoryOK' /\ Others(p) /\ HolderStep(p) /\ pc'[p] = place
      /\ job'[p].task \in Tasks /\ job'[p].queue = {} /\ job'[p].stage = "last"
  BY <1>1, Control, Zenon
<1> QED
  BY <1>2 DEF StepOK, ProcInv, Located, InMutation, InDelete, InFlush

(* UpdateTask.                                                             *)
LEMMA UpdateTaskStep ==
  ASSUME Inv, NEW p \in Procs, NEW t \in Tasks, NEW s \in Status, UpdateTask(p, t, s)
  PROVE  GoodStep
<1> DEFINE j == [NewJob("update", t, s) EXCEPT !.snap = task[t], !.stage = "last"]
<1>1. /\ pc[p] = "idle" /\ LockFree /\ holder' = p /\ Goto(p, "editVersion")
      /\ job' = [job EXCEPT ![p] = j]
      /\ UNCHANGED <<tombstone, history, timers, outbox, outside, bounds>>
      /\ task' = [task EXCEPT ![t] = ApplyStatusTransition(task[t], s)]
  BY DEF UpdateTask
<1>2. task[t] \in TaskData /\ ApplyStatusTransition(task[t], s) \in TaskData
  BY TransitionType DEF Inv, TypeOK, FilesOK
<1>3. FilesOK'
  BY <1>1, <1>2 DEF Inv, TypeOK, FilesOK
<1>4. j \in Job /\ j.task = t /\ j.queue = {} /\ j.stage = "last"
  <2>1. /\ NewJob("update", t, s) \in Job /\ NewJob("update", t, s).task = t
        /\ NewJob("update", t, s).queue = {}
    BY NewJobType DEF AllCalls
  <2> QED
    BY <1>2, <2>1, Zenon DEF Job
<1> HIDE DEF j
<1> QED
  BY <1>1, <1>3, <1>4, EditBegins, FileFrame

(* StopTimer.                                                              *)
LEMMA StopTimerStep ==
  ASSUME Inv, NEW p \in Procs, NEW t \in Tasks, StopTimer(p, t)
  PROVE  GoodStep
<1> DEFINE j == [NewJob("stopTimer", t, NoReason) EXCEPT !.stage = "last"]
<1>1. /\ pc[p] = "idle" /\ LockFree /\ holder' = p /\ Goto(p, "stopVersion")
      /\ job' = [job EXCEPT ![p] = j]
      /\ UNCHANGED <<task, tombstone, history, outbox, outside, bounds>>
      /\ timers' = timers \ {t}
  BY DEF StopTimer
<1>2. FilesOK'
  BY <1>1 DEF Inv, TypeOK, FilesOK
<1>3. j \in Job /\ j.task = t /\ j.queue = {} /\ j.stage = "last"
  <2>1. /\ NewJob("stopTimer", t, NoReason) \in Job /\ NewJob("stopTimer", t, NoReason).task = t
        /\ NewJob("stopTimer", t, NoReason).queue = {}
    BY NewJobType DEF AllCalls
  <2> QED
    BY <2>1 DEF Job
<1> HIDE DEF j
<1> QED
  BY <1>1, <1>2, <1>3, EditBegins, FileFrame

(* A version without event is a version.                                   *)
LEMMA Append0Type ==
  ASSUME NEW h \in Seq(Events \cup {NoEvent})
  PROVE  Append0(h) \in Seq(Events \cup {NoEvent})
  BY DEF Append0

(* The version of an edit.                                                 *)
LEMMA EditVersionStep ==
  ASSUME Inv, NEW p \in Procs, EditVersion(p)
  PROVE  GoodStep
<1> DEFINE t == job[p].task
<1>1. /\ pc[p] \in {"editVersion", "stopVersion"}
      /\ UNCHANGED <<task, tombstone, timers, outbox, outside, job, bounds>>
  BY DEF EditVersion
<1>2. t \in Tasks /\ holder = p /\ job[p].stage = "last" /\ \A f \in job[p].queue : Settled(f)
  BY <1>1, ProcTypes DEF ProcInv, Located, InFlush
<1>3. history' \in [Tasks -> Seq(Events \cup {NoEvent})]
  <2>1. UNCHANGED history \/ history' = [history EXCEPT ![t] = Append0(history[t])]
    BY DEF EditVersion
  <2> QED
    BY <1>2, <2>1, Append0Type DEF Inv, TypeOK, FilesOK
<1>4. FilesOK'
  BY <1>1, <1>3 DEF Inv, TypeOK, FilesOK
<1>5. PICK place \in {"readIndex", "editUndo", "stopUndo"} :
        Goto(p, place) /\ holder' = IF place = "readIndex" THEN NoProc ELSE holder
  BY <1>1 DEF EditVersion
<1>6. HolderMoves(p)
  BY <1>2, <1>5 DEF HolderMoves
<1>7. MemoryOK' /\ Others(p) /\ HolderStep(p) /\ pc'[p] = place /\ job'[p] = job[p]
  BY <1>1, <1>5, <1>6, ControlSameJob
<1>8. ProcInv(p)'
  BY <1>1, <1>2, <1>5, <1>7, ProcTypes
     DEF ProcInv, Located, InMutation, InDelete, InFlush, Settled, outbox, outside
<1> QED
  BY <1>1, <1>4, <1>7, <1>8, FileFrame DEF StepOK

(* The rollback of an edit.                                                *)
LEMMA EditUndoStep ==
  ASSUME Inv, NEW p \in Procs, EditUndo(p)
  PROVE  GoodStep
<1>1. /\ pc[p] \in {"editUndo", "stopUndo"} /\ holder' = NoProc /\ Finish(p)
      /\ UNCHANGED <<tombstone, history, outbox, outside, bounds>>
  BY DEF EditUndo
<1>2. job[p].task \in Tasks /\ holder = p /\ job[p].snap \in TaskData
  BY <1>1, ProcTypes, JobFields DEF ProcInv, Located
<1>3. task' \in [Tasks -> TaskData] /\ timers' \in SUBSET Tasks
  BY <1>2 DEF EditUndo, Inv, TypeOK, FilesOK
<1>4. FilesOK'
  BY <1>1, <1>3 DEF Inv, TypeOK, FilesOK
<1> QED
  BY <1>1, <1>2, <1>4, FinishStep, FileFrame

(* Create.                                                                 *)
LEMMA CreateTaskStep ==
  ASSUME Inv, NEW p \in Procs, NEW t \in Tasks, NEW s \in Status, CreateTask(p, t, s)
  PROVE  GoodStep
<1> DEFINE j == NewJob("create", t, s)
<1>1. /\ pc[p] = "idle" /\ Goto(p, "createVersion") /\ job' = [job EXCEPT ![p] = j]
      /\ UNCHANGED <<tombstone, history, timers, outbox, outside, holder, bounds>>
      /\ task' = [task EXCEPT ![t] = ApplyStatusTransition(NewTask, s)]
  BY DEF CreateTask
<1>2. NewTask \in TaskData
  BY NoJobType, JobFields, WithDir DEF NewTask, NoJob, Job
<1>3. FilesOK'
  BY <1>1, <1>2, TransitionType DEF Inv, TypeOK, FilesOK
<1>4. j \in Job /\ j.task = t /\ j.queue = {}
  BY NewJobType DEF AllCalls
<1> HIDE DEF j
<1>5. holder' # p /\ HolderMoves(p)
  BY <1>1, ProcTypes DEF ProcInv, Located, HolderMoves
<1>6. /\ MemoryOK' /\ Others(p) /\ HolderStep(p)
      /\ pc'[p] = "createVersion" /\ job'[p].task = t /\ job'[p].queue = {}
  BY <1>1, <1>4, <1>5, Control, Zenon
<1>7. ProcInv(p)'
  BY <1>5, <1>6 DEF ProcInv, Located, InMutation, InDelete, InFlush
<1> QED
  BY <1>1, <1>3, <1>6, <1>7, FileFrame DEF StepOK

(* The first version.                                                      *)
LEMMA CreateVersionStep ==
  ASSUME Inv, NEW p \in Procs, CreateVersion(p)
  PROVE  GoodStep
<1>1. /\ pc[p] = "createVersion" /\ Finish(p) /\ holder' = holder /\ holder = NoProc
      /\ UNCHANGED <<task, tombstone, timers, outbox, outside, bounds>>
  BY DEF CreateVersion, LockFree
<1>2. history' \in [Tasks -> Seq(Events \cup {NoEvent})]
  <2>1. \/ UNCHANGED history
        \/ history' = [history EXCEPT ![job[p].task] = Append0(history[job[p].task])]
    BY DEF CreateVersion
  <2>2. job[p].task \in Tasks /\ history \in [Tasks -> Seq(Events \cup {NoEvent})]
    BY <1>1, ProcTypes DEF ProcInv, Located, Inv, TypeOK, FilesOK
  <2>3. Append0(history[job[p].task]) \in Seq(Events \cup {NoEvent})
    BY <2>2, Append0Type
  <2> QED
    BY <2>1, <2>2, <2>3
<1>3. FilesOK'
  BY <1>1, <1>2 DEF Inv, TypeOK, FilesOK
<1>4. holder' = IF holder = p THEN NoProc ELSE holder
  BY <1>1
<1> QED
  BY <1>1, <1>3, <1>4, FinishStep, FileFrame

(* A step that leaves the processes alone.                                 *)
LEMMA BackgroundFrame ==
  ASSUME Inv, UNCHANGED memory, FilesOK', OutboxOK', OutsideOK', BoundsOK', EventInv', KeepsSettled,
         OutboxStep, nextEvent <= nextEvent', delivered \subseteq delivered',
         \A e \in Events :
           pending[e] # NoRecord =>
             /\ pending'[e] # NoRecord
             /\ pending'[e].done = pending[e].done
             /\ pending'[e].op = pending[e].op
  PROVE  GoodStep
<1>1. TypeOK'
  BY DEF Inv, TypeOK, MemoryOK, memory
<1> SUFFICES ASSUME NEW q \in Procs PROVE ProcInv(q)'
  BY <1>1 DEF Inv, GoodStep
<1>2. pc'[q] = pc[q] /\ job'[q] = job[q] /\ holder' = holder
  BY DEF memory
<1>3. \A e : Recorded(e) => Recorded(e)'
  BY DEF Recorded, Inv, TypeOK, OutboxOK, Events
<1>4. \A e : Settled(e) => Settled(e)'
  BY DEF KeepsSettled, Settled
<1>5. Located(q)' /\ InFlush(q)'
  BY <1>2, <1>4, ProcTypes DEF ProcInv, Located, InFlush
<1>6. InMutation(q)' /\ InDelete(q)'
  BY <1>2, <1>3, ProcTypes DEF ProcInv, InMutation, InDelete, Prepared, Recorded
<1> QED
  BY <1>5, <1>6 DEF ProcInv

(* StartTimer.                                                             *)
LEMMA StartTimerStep ==
  ASSUME Inv, NEW p \in Procs, NEW t \in Tasks, StartTimer(p, t)
  PROVE  GoodStep
<1>1. /\ UNCHANGED <<task, tombstone, history, outbox, outside, memory, bounds>>
      /\ timers' = timers \cup {t}
  BY DEF StartTimer
<1>2. FilesOK' /\ OutsideOK' /\ BoundsOK'
  BY <1>1 DEF Inv, TypeOK, FilesOK, OutsideOK, BoundsOK, outside, bounds
<1>3. OutboxOK' /\ EventInv' /\ KeepsSettled /\ OutboxStep
  BY <1>1, OutboxUnchanged DEF outbox, outside
<1> QED
  BY <1>1, <1>2, <1>3, BackgroundFrame DEF outbox, outside, Inv, TypeOK, OutboxOK

(* Time passes for a Task.                                                 *)
LEMMA AgeStep ==
  ASSUME Inv, NEW t \in Tasks, Age(t)
  PROVE  GoodStep
<1>1. /\ UNCHANGED <<tombstone, history, timers, outbox, outside, memory, bounds>>
      /\ task' = [task EXCEPT ![t] = [task[t] EXCEPT !.completedAt = "aged"]]
  BY DEF Age
<1>2. task[t] \in TaskData /\ [task[t] EXCEPT !.completedAt = "aged"] \in TaskData
  BY WithClocks, Zenon DEF Inv, TypeOK, FilesOK
<1>3. FilesOK' /\ OutsideOK' /\ BoundsOK'
  BY <1>1, <1>2 DEF Inv, TypeOK, FilesOK, OutsideOK, BoundsOK, outside, bounds
<1>4. OutboxOK' /\ EventInv' /\ KeepsSettled /\ OutboxStep
  BY <1>1, OutboxUnchanged DEF outbox, outside
<1> QED
  BY <1>1, <1>3, <1>4, BackgroundFrame DEF outbox, outside, Inv, TypeOK, OutboxOK

(* A lease ends.                                                           *)
LEMMA LeaseEndsStep ==
  ASSUME Inv, NEW e \in Events, NEW k \in Effects, LeaseEnds(e, k)
  PROVE  GoodStep
<1> DEFINE r == pending[e]
           c == [r.claim[k] EXCEPT !.fresh = FALSE]
           s == [r EXCEPT !.claim[k] = c]
<1>1. /\ r # NoRecord /\ UNCHANGED <<files, nextEvent, outside, memory, bounds>>
      /\ pending' = [pending EXCEPT ![e] = s]
  BY DEF LeaseEnds
<1>2. r \in Record /\ ("event" \in r.applied => e \in delivered) /\ ("canonical" \in r.done => Ready(r))
  BY <1>1 DEF Inv, TypeOK, OutboxOK, EventInv
<1>3. c \in Claim
  <2>1. r.claim[k] \in Claim
    BY <1>2, RecordFields
  <2> QED
    BY <2>1 DEF Claim
<1> HIDE DEF c
<1>4. s \in Record /\ s.op = r.op /\ s.done = r.done /\ s.applied = r.applied
  BY <1>2, <1>3, RecordClaim DEF Record
<1> HIDE DEF s
<1>5. OutboxOK' /\ EventInv' /\ KeepsSettled /\ OutboxStep
  BY <1>1, <1>2, <1>4, RecordChanged DEF outside, Ready
<1>6. FilesOK' /\ OutsideOK' /\ BoundsOK'
  BY <1>1 DEF Inv, TypeOK, FilesOK, OutsideOK, BoundsOK, files, outside, bounds
<1>7. \A f \in Events : pending'[f] = IF f = e THEN s ELSE pending[f]
  BY <1>1 DEF Inv, TypeOK, OutboxOK
<1> QED
  BY <1>1, <1>4, <1>5, <1>6, <1>7, RecordFields, BackgroundFrame DEF outside, Inv, TypeOK, OutboxOK

(* A process dies.                                                         *)
LEMMA CrashStep ==
  ASSUME Inv, NEW p \in Procs, Crash(p)
  PROVE  GoodStep
<1>1. /\ UNCHANGED <<files, outbox, outside, faults>> /\ crashes < MaxCrashes /\ crashes' = crashes + 1
      /\ holder' = IF holder = p THEN NoProc ELSE holder
      /\ Goto(p, "idle") /\ job' = [job EXCEPT ![p] = NoJob]
  BY DEF Crash
<1>2. BoundsOK'
  BY <1>1, BoundsAssumption, ProcTypes DEF BoundsOK
<1>3. HolderMoves(p) /\ holder' # p
  BY <1>1, ProcTypes DEF HolderMoves
<1>4. MemoryOK' /\ Others(p) /\ HolderStep(p) /\ pc'[p] = "idle" /\ job'[p].queue = {}
  BY <1>1, <1>3, NoJobType, Control, Zenon
<1>5. ProcInv(p)'
  BY <1>3, <1>4 DEF ProcInv, Located, InMutation, InDelete, InFlush
<1> QED
  BY <1>1, <1>2, <1>4, <1>5, ControlFrame DEF StepOK

(* Something fails: the rollback of a mutation still has its record.       *)
LEMMA FaultStep ==
  ASSUME Inv, NEW p \in Procs, Fault(p)
  PROVE  GoodStep
<1>1. /\ UNCHANGED <<files, outbox, outside, crashes>> /\ faults < MaxFaults /\ faults' = faults + 1
      /\ pc[p] \notin {"idle", "batch", "next"}
  BY DEF Fault
<1>2. BoundsOK'
  BY <1>1, BoundsAssumption, ProcTypes DEF BoundsOK
<1>3. CASE /\ AfterFailure(pc[p]) # "return" /\ Goto(p, AfterFailure(pc[p]))
           /\ UNCHANGED <<job, holder>>
  <2>1. CASE pc[p] \in Forward \cup {"undoVersion", "undoPatch", "undoMove"}
    <3>1. AfterFailure(pc[p]) \in Undo
      BY <2>1 DEF AfterFailure
    <3>2. StepOK(p)
      BY <1>1, <1>3, <2>1, <3>1, WithinMutation
    <3> QED
      BY <1>1, <1>2, <3>2, ControlFrame
  <2>2. CASE pc[p] \in {"editVersion", "stopVersion", "emit"}
    <3>1. PICK place \in {"editUndo", "stopUndo", "release"} :
            Goto(p, place) /\ (place = "release" <=> pc[p] = "emit")
      BY <1>3, <2>2 DEF AfterFailure
    <3>2. MemoryOK' /\ Others(p) /\ HolderStep(p) /\ pc'[p] = place /\ job'[p] = job[p]
      BY <1>3, <3>1, ControlSameJob DEF HolderMoves
    <3>3. ProcInv(p)'
      BY <1>1, <1>3, <2>2, <3>1, <3>2, ProcTypes
         DEF ProcInv, Located, InMutation, InDelete, InFlush, Settled, outbox, outside
    <3> QED
      BY <1>1, <1>2, <3>2, <3>3, ControlFrame DEF StepOK
  <2>3. pc[p] \in Forward \cup {"undoVersion", "undoPatch", "undoMove"} \cup {"editVersion", "stopVersion", "emit"}
    BY <1>3, ProcTypes DEF AfterFailure
  <2> QED
    BY <2>1, <2>2, <2>3
<1>4. CASE /\ pc[p] \in {"readIndex", "commitIndex", "removeIndex"}
           /\ IndexDone(p, FALSE) /\ UNCHANGED holder
  BY <1>1, <1>2, <1>4, IndexDoneStep, ControlFrame DEF outbox, outside
<1>5. CASE holder' = (IF holder = p THEN NoProc ELSE holder) /\ Finish(p)
  BY <1>1, <1>2, <1>5, FinishStep, ControlFrame
<1> QED
  BY <1>3, <1>4, <1>5 DEF Fault

-----------------------------------------------------------------------------
(* The invariant holds initially.                                          *)
LEMMA InitInv == Init => Inv
<1> SUFFICES ASSUME Init PROVE Inv
  OBVIOUS
<1>1. FilesOK
  <2>1. \A t \in Tasks : <<>> \in Seq(Events \cup {NoEvent})
    OBVIOUS
  <2> QED
    BY <2>1, InitialTasksAssumption DEF Init, FilesOK
<1>2. OutboxOK
  BY BoundsAssumption DEF Init, OutboxOK
<1>3. OutsideOK
  BY <1>1, FormTypes DEF Init, OutsideOK, FilesOK
<1>4. MemoryOK
  BY NoJobType DEF Init, MemoryOK
<1>5. BoundsOK
  BY BoundsAssumption DEF Init, BoundsOK
<1>6. EventInv
  BY DEF Init, EventInv
<1>7. ASSUME NEW p \in Procs PROVE ProcInv(p)
  BY NoJobType, ProcsAssumption DEF Init, ProcInv, Located, InMutation, InDelete, InFlush
<1> QED
  BY <1>1, <1>2, <1>3, <1>4, <1>5, <1>6, <1>7 DEF Inv, TypeOK

(* Every request keeps it.                                                 *)
LEMMA RequestStep ==
  ASSUME Inv, NEW p \in Procs, Request(p)
  PROVE  GoodStep
<1>1. ASSUME NEW t \in Tasks, Call(p, "archive", t, NoReason) PROVE GoodStep
  BY <1>1, CallStep DEF AllCalls
<1>2. ASSUME NEW t \in Tasks, NEW s \in Status, Call(p, "reopen", t, s) PROVE GoodStep
  BY <1>2, CallStep DEF AllCalls
<1>3. ASSUME NEW t \in Tasks, NEW r \in Reasons, Call(p, "delete", t, r) PROVE GoodStep
  BY <1>3, CallStep DEF AllCalls
<1> QED
  BY <1>1, <1>2, <1>3, UpdateTaskStep, CreateTaskStep, StartTimerStep, StopTimerStep, CallSweepStep
     DEF Request

(* Every step of a call keeps it.                                          *)
LEMMA ProcessStep ==
  ASSUME Inv, NEW p \in Procs, Step(p)
  PROVE  GoodStep
<1>1. CASE Flushing(p)
  BY <1>1, ListReadyStep, NextRecordStep, ClaimEffectStep, EmitEventStep, CompleteEffectStep,
     ReleaseClaimStep, ReadForIndexStep, CommitIndexStep, RemoveFromIndexStep DEF Flushing
<1>2. CASE Mutating(p)
  BY <1>2, ArchiveReopenStep, FileSteps, VersionSteps, SavePhaseStep, SaveCanonicalStep,
     UndoRecordStep DEF Mutating
<1>3. CASE HardDeleting(p)
  <2>1. CASE DeleteRefused(p)
    BY <2>1, RefuseStep DEF DeleteRefused
  <2> QED
    BY <1>3, <2>1, DeleteBeginStep, DeleteRecordStep, DeleteFilesStep, DeleteTimeDataStep,
       DeleteSaveStep DEF HardDeleting
<1> QED
  BY <1>1, <1>2, <1>3, ResolveBatchIDsStep, NextInBatchStep, EditVersionStep, EditUndoStep,
     CreateVersionStep DEF Step

(* Every step keeps the invariant and is a step of the abstract outbox.    *)
LEMMA NextInv == Inv /\ [Next]_vars => GoodStep
<1> SUFFICES ASSUME Inv, [Next]_vars PROVE GoodStep
  OBVIOUS
<1>1. CASE UNCHANGED vars
  <2>1. FilesOK' /\ OutsideOK' /\ BoundsOK' /\ UNCHANGED memory
    BY <1>1 DEF vars, memory, Inv, TypeOK, FilesOK, OutsideOK, BoundsOK
  <2>2. OutboxOK' /\ EventInv' /\ KeepsSettled /\ OutboxStep
    BY <1>1, OutboxUnchanged DEF vars
  <2> QED
    BY <1>1, <2>1, <2>2, BackgroundFrame DEF vars, Inv, TypeOK, OutboxOK
<1>2. CASE Time
  BY <1>2, AgeStep, LeaseEndsStep DEF Time
<1>3. ASSUME NEW p \in Procs, Step(p) \/ Request(p) \/ Crash(p) \/ Fault(p) PROVE GoodStep
  BY <1>3, ProcessStep, RequestStep, CrashStep, FaultStep
<1> QED
  BY <1>1, <1>2, <1>3 DEF Next

(* The invariant holds in every state, for any number of Tasks, processes, *)
(* events, crashes and faults.                                             *)
THEOREM Invariance == Spec => []Inv
<1>1. Inv /\ [Next]_vars => Inv'
  BY NextInv DEF GoodStep
<1> QED
  BY InitInv, <1>1, PTL DEF Spec

(* Every variable keeps its type: in particular the record a mutation, a   *)
(* rollback or a flush works on is there when it is used, although other   *)
(* processes complete and remove records in between.                       *)
THEOREM TypeCorrect == Spec => []TypeOK
<1>1. Inv => TypeOK
  BY DEF Inv
<1> QED
  BY Invariance, <1>1, PTL

(* The lifecycle service implements the event outbox: an event is emitted  *)
(* only for a mutation whose canonical checkpoint was written, such a      *)
(* mutation is never rolled back, and its record goes away only after its  *)
(* event was delivered.                                                    *)
THEOREM OutboxImplemented == Spec => EventsFollowOutbox
<1>1. Init => Outbox!Init
  <2> SUFFICES ASSUME Init PROVE Outbox!Init
    OBVIOUS
  <2>1. \A e \in Events : StageOf(e) = "unused"
    BY DEF Init, StageOf, Events
  <2> QED
    BY <2>1 DEF Init, Outbox!Init
<1>2. Inv /\ [Next]_vars => [Outbox!Next]_<<[e \in Events |-> StageOf(e)], delivered>>
  BY NextInv DEF GoodStep, OutboxStep
<1> QED
  BY Invariance, <1>1, <1>2, PTL DEF Spec, EventsFollowOutbox, Outbox!Spec
=============================================================================
