------------------------------ MODULE AgentProofs ------------------------------
(***************************************************************************)
(* Proofs about AgentWorkflow, for any servers, Tasks, calls, runs, exits   *)
(* and faults: no root has two runs at work, no server takes a run of its   *)
(* own for lost, and one server alone keeps every run at work on record;    *)
(* and about AdapterProcess: a prompt that succeeds has the whole answer.   *)
(***************************************************************************)
EXTENDS AgentWorkflow, AdapterProcess, WellFoundedInduction, TLAPS

-----------------------------------------------------------------------------
(* Types.                                                                  *)

Stages ==
  {"none", "reconcile", "act", "saveTree", "launch", "root", "savePlan", "task",
   "save", "saveRun", "answer", "saveChat", "saveAnswer", "recover"}
Ops == AllActions \cup {"none", "resume-chat", "recover"}

LEMMA Constants ==
  /\ Base \in Roots /\ Tasks \subseteq Roots /\ AnyTask \in Tasks
  /\ NewWorkflow \in Workflow /\ NoRunRecord \in RunRecord /\ NewTask \in Task
  /\ NoCall \in Calls /\ NoCall.snap \in State /\ NoWorker \in Worker
  /\ NoSession \in Session
<1>1. Base \in Roots /\ Tasks \subseteq Roots /\ AnyTask \in Tasks
  BY TasksAssumption DEF Roots, AnyTask
<1>2. NewWorkflow \in Workflow /\ NoRunRecord \in RunRecord /\ NewTask \in Task
  BY <1>1 DEF NewWorkflow, Workflow, Phases, NoRun, NoRunRecord, RunRecord, NewTask, Task, TaskStatus
<1>3. [wf |-> [t \in Tasks |-> NewWorkflow], runs |-> [r \in Runs |-> NoRunRecord]] \in State
  BY <1>2 DEF State
<1>4. NoCall \in Calls /\ NoCall.snap \in State
  BY <1>1, <1>2, <1>3 DEF NoCall, Calls
<1>5. NoWorker \in Worker
  BY <1>1 DEF NoWorker, Worker, Phases
<1>6. NoSession \in Session
  BY <1>1 DEF NoSession, Session
<1> QED BY <1>1, <1>2, <1>4, <1>5, <1>6

LEMMA CallFields ==
  ASSUME TypeOK, NEW s \in Servers
  PROVE  /\ call[s] \in Calls /\ T(s) \in Tasks /\ W(s) \in Workflow
         /\ call[s].op \in Ops /\ call[s].snap \in State /\ call[s].seen \in Task
         /\ RootOf(W(s), T(s)) \in Roots
<1>1. call[s] \in Calls
  BY DEF TypeOK
<1>2. call[s].snap \in State /\ call[s].seen \in Task /\ T(s) \in Tasks /\ call[s].op \in Ops
  BY <1>1 DEF Calls, T, Ops
<1>3. W(s) \in Workflow
  BY <1>2 DEF W, State
<1>4. RootOf(W(s), T(s)) \in Roots
  BY <1>2, Constants DEF RootOf
<1> QED BY <1>1, <1>2, <1>3, <1>4

LEMMA WorkerFields ==
  ASSUME TypeOK, NEW r \in Runs
  PROVE  /\ worker[r] \in Worker /\ worker[r].task \in Tasks /\ worker[r].root \in Roots
         /\ worker[r].session \in {"none", "live", "dead"}
<1>1. worker[r] \in Worker
  BY DEF TypeOK
<1> QED BY <1>1 DEF Worker

LEMMA CallSet ==
  ASSUME TypeOK, NEW s \in Servers, NEW c \in Calls, call' = [call EXCEPT ![s] = c]
  PROVE  call' \in [Servers -> Calls]
BY DEF TypeOK

LEMMA StageSet ==
  ASSUME TypeOK, NEW s \in Servers, NEW stage \in Stages, GoTo(s, stage)
  PROVE  call' \in [Servers -> Calls]
<1>1. [call[s] EXCEPT !.stage = stage] \in Calls
  BY CallFields DEF Calls, Stages
<1> QED BY <1>1 DEF GoTo, SetCall, TypeOK

LEMMA LeaveTypes ==
  ASSUME TypeOK, NEW s \in Servers, Leave(s)
  PROVE  /\ mu' \in [Servers -> Runs \cup Servers \cup {Nobody}] /\ call' \in [Servers -> Calls]
         /\ lock' \in [Roots -> Runs \cup Servers \cup {Nobody}]
BY Constants DEF TypeOK, Leave, SetCall

(* A workflow in a copy of the state may be replaced.                      *)
LEMMA CopySet ==
  ASSUME NEW X \in State, NEW t \in Tasks, NEW w \in Workflow
  PROVE  [X EXCEPT !.wf[t] = w] \in State
BY DEF State

LEMMA RefuseTypes == ASSUME TypeOK, NEW s \in Servers, Refuse(s) PROVE TypeOK'
BY LeaveTypes DEF TypeOK, Refuse, disk, bounds

LEMMA PhaseTypes ==
  ASSUME NEW w \in Workflow, NEW task \in Task, NEW op
  PROVE  /\ DefaultPhase(task, w) \in Phases
         /\ Launch(op, w).run \in RunPhases \cup {"none"}
         /\ Launch(op, w).phase \in Phases /\ Launch(op, w).restore \in Phases
<1>1. w.phase \in Phases /\ w.resume \in RunPhases \cup {"none"}
  BY DEF Workflow
<1>2. DefaultPhase(task, w) \in Phases
  BY <1>1 DEF DefaultPhase, Phases
<1>3. \A p : RunningPhase(p) \in Phases /\ RestorePhase(p) \in Phases
  BY DEF RunningPhase, RestorePhase, Phases
<1>4. CASE op \in {"start-investigation", "request-plan-changes"}
  BY <1>2, <1>4 DEF Launch, RunPhases, Phases
<1>5. CASE op \in {"approve-plan", "create-worktree"}
  BY <1>2, <1>5 DEF Launch, RunPhases, Phases
<1>6. CASE op = "start-fix"
  BY <1>2, <1>6 DEF Launch, RunPhases, Phases
<1>7. CASE op = "resume" /\ w.resume # "chat"
  BY <1>1, <1>2, <1>3, <1>7 DEF Launch, RunPhases
<1>8. CASE /\ op \notin {"start-investigation", "request-plan-changes", "approve-plan", "create-worktree", "start-fix"}
           /\ ~(op = "resume" /\ w.resume # "chat")
  BY <1>1, <1>2, <1>8 DEF Launch, RunPhases
<1> QED BY <1>2, <1>4, <1>5, <1>6, <1>7, <1>8

LEMMA ReconciledType ==
  ASSUME NEW X \in State, NEW t \in Tasks, NEW task \in Task, NEW run
  PROVE  Reconciled(X, t, task, run) \in State
<1>1. X.wf[t] \in Workflow /\ DefaultPhase(task, X.wf[t]) \in Phases
  BY PhaseTypes DEF State
<1>2. ASSUME NEW a \in Runs \cup {NoRun}, NEW q \in Phases
      PROVE  [X.wf EXCEPT ![t].active = a, ![t].phase = q] \in [Tasks -> Workflow]
  <2>1. [X.wf[t] EXCEPT !.active = a, !.phase = q] \in Workflow
    BY <1>1 DEF Workflow
  <2> QED BY <2>1 DEF State
<1>3. \A r \in Runs : X.runs[r] \in RunRecord /\ [X.runs[r] EXCEPT !.status = "interrupted"] \in RunRecord
  BY DEF State, RunRecord, RunStatus
<1> DEFINE w == X.wf[t]
           lost == w.active # 0 /\ run # w.active
           a == IF lost THEN 0 ELSE w.active
           p == IF a = 0 /\ w.phase \in {"investigating", "implementing"}
                THEN DefaultPhase(task, w) ELSE w.phase
           q == IF task.status = "done" THEN "completed"
                ELSE IF a = 0 /\ p = "idle" /\ task.plan THEN "plan-review" ELSE p
           runs == [r \in DOMAIN X.runs |->
                     IF lost /\ r = w.active /\ X.runs[r].status = "running"
                     THEN [X.runs[r] EXCEPT !.status = "interrupted"] ELSE X.runs[r]]
<1>4. a \in Runs \cup {NoRun}
  BY <1>1 DEF Workflow, NoRun
<1>5. p \in Phases
  BY <1>1 DEF Workflow
<1>6. q \in Phases
  BY <1>5 DEF Phases
<1>7. runs \in [Runs -> RunRecord]
  BY <1>3 DEF State
<1>8. Reconciled(X, t, task, run) = [wf |-> [X.wf EXCEPT ![t].active = a, ![t].phase = q], runs |-> runs]
  BY DEF Reconciled
<1> HIDE DEF a, q, runs
<1> QED BY <1>2, <1>4, <1>6, <1>7, <1>8 DEF State

(* A nonempty set of runs has a last one.                                   *)
LEMMA LastRun ==
  ASSUME NEW Q, Q \subseteq Runs, Q # {}
  PROVE  \E r \in Q : \A q \in Q : q <= r
<1> DEFINE Less == OpToRel(<, Nat)
           Back == {MaxRuns - r : r \in Q}
<1>1. MaxRuns \in Nat
  BY BoundsAssumption
<1>2. Back \subseteq Nat /\ Back # {}
  <2>1. Back # {}
    OBVIOUS
  <2>2. \A q \in Q : MaxRuns - q \in Nat
    BY <1>1 DEF Runs
  <2> QED BY <2>1, <2>2
<1>3. \E x \in Back : \A y \in Back : ~(<<y, x>> \in Less)
  <2> HIDE DEF Back
  <2> QED BY <1>2, NatLessThanWellFounded, WFMin, Zenon
<1>4. PICK r \in Q : \A y \in Back : ~(<<y, MaxRuns - r>> \in Less)
  BY <1>3
<1>5. \A q \in Q : MaxRuns - q \in Nat /\ MaxRuns - q \in Back
  BY <1>1 DEF Runs
<1>6. \A q \in Q : ~(MaxRuns - q < MaxRuns - r)
  BY <1>4, <1>5, Zenon DEF OpToRel
<1> QED BY <1>1, <1>6 DEF Runs

LEMMA InterruptedType == ASSUME NEW X \in State PROVE Interrupted(X) \in State
<1> DEFINE hit == {r \in DOMAIN X.runs : X.runs[r].status = "running"}
           of(t) == {r \in hit : X.runs[r].task = t}
           last(t) == CHOOSE r \in of(t) : \A q \in of(t) : q <= r
<1>1. DOMAIN X.runs = Runs /\ (\A r \in Runs : X.runs[r] \in RunRecord) /\ \A t \in Tasks : X.wf[t] \in Workflow
  BY DEF State
<1>2. \A r \in Runs : [X.runs[r] EXCEPT !.status = "interrupted"] \in RunRecord
  BY <1>1 DEF RunRecord, RunStatus
<1>3. ASSUME NEW t \in Tasks, of(t) # {}
      PROVE  [X.wf[t] EXCEPT !.active = 0, !.phase = "interrupted", !.resume = X.runs[last(t)].phase] \in Workflow
  <2>1. of(t) \subseteq Runs
    BY <1>1
  <2>2. last(t) \in Runs
    <3> HIDE DEF of
    <3> QED BY <1>3, <2>1, LastRun
  <2>3. X.runs[last(t)].phase \in RunPhases \cup {"none"}
    BY <1>1, <2>2 DEF RunRecord
  <2> HIDE DEF last
  <2> QED BY <1>1, <2>3, Zenon DEF Workflow, NoRun, Phases
<1>4. [t \in Tasks |-> IF of(t) = {} THEN X.wf[t]
         ELSE [X.wf[t] EXCEPT !.active = 0, !.phase = "interrupted", !.resume = X.runs[last(t)].phase]]
        \in [Tasks -> Workflow]
  <2> HIDE DEF of, last
  <2> QED BY <1>3 DEF State
<1>5. [r \in DOMAIN X.runs |-> IF r \in hit THEN [X.runs[r] EXCEPT !.status = "interrupted"] ELSE X.runs[r]]
        \in [Runs -> RunRecord]
  <2> HIDE DEF hit
  <2> QED BY <1>1, <1>2
<1> QED BY <1>4, <1>5, Zenon DEF Interrupted, State

LEMMA FinishedType ==
  ASSUME NEW X \in State, NEW t \in Tasks, NEW r \in Runs, NEW phase \in RunPhases \cup {"none"}, NEW restore \in Phases,
         NEW result \in {"none", "ok", "failed", "cancelled"}, NEW known \in BOOLEAN
  PROVE  Finished(X, t, r, phase, restore, result, known) \in State
<1>1. X.wf[t] \in Workflow /\ X.runs[r] \in RunRecord
  BY DEF State
<1> DEFINE after ==
             CASE result = "cancelled" -> restore
               [] result = "failed" -> "interrupted"
               [] result = "ok" /\ phase = "investigation" -> "plan-review"
               [] result = "ok" /\ phase \in {"implementation", "fix"} -> "code-review"
               [] OTHER -> X.wf[t].phase
           status == CASE result = "ok" -> "succeeded" [] OTHER -> result
<1>2. after \in Phases
  BY <1>1 DEF Phases, Workflow
<1>3. status \in RunStatus \cup {"none"}
  BY DEF RunStatus
<1>4. Finished(X, t, r, phase, restore, result, known) =
        [wf |-> [X.wf EXCEPT ![t] = [X.wf[t] EXCEPT
           !.active = 0, !.phase = after, !.session = @ \/ known,
           !.resume = IF result = "failed" THEN phase ELSE @]],
         runs |-> [X.runs EXCEPT ![r].status = status]]
  BY DEF Finished
<1> HIDE DEF after, status
<1>5. [X.wf[t] EXCEPT !.active = 0, !.phase = after, !.session = @ \/ known,
                      !.resume = IF result = "failed" THEN phase ELSE @] \in Workflow
  BY <1>1, <1>2 DEF Workflow, NoRun
<1>6. [X.runs[r] EXCEPT !.status = status] \in RunRecord
  BY <1>1, <1>3 DEF RunRecord
<1> QED BY <1>4, <1>5, <1>6 DEF State

LEMMA StartedType ==
  ASSUME NEW X \in State, NEW t \in Tasks, NEW r \in Runs, NEW w \in Workflow, NEW op
  PROVE  Started(X, t, r, Launch(op, w), op) \in State
<1> DEFINE l == Launch(op, w)
<1>1. l.run \in RunPhases \cup {"none"} /\ l.phase \in Phases
  BY PhaseTypes, Constants
<1>2. Started(X, t, r, l, op) =
        [wf |-> [X.wf EXCEPT ![t] = [X.wf[t] EXCEPT
           !.active = r, !.phase = l.phase, !.chat = TRUE,
           !.resume = IF op = "chat" THEN @ ELSE "none",
           !.feedback = IF l.run = "investigation" THEN FALSE ELSE @]],
         runs |-> [X.runs EXCEPT ![r] = [task |-> t, phase |-> l.run, status |-> "running"]]]
  BY DEF Started
<1> HIDE DEF l
<1>3. [X.wf[t] EXCEPT !.active = r, !.phase = l.phase, !.chat = TRUE,
                      !.resume = IF op = "chat" THEN @ ELSE "none",
                      !.feedback = IF l.run = "investigation" THEN FALSE ELSE @] \in Workflow
  BY <1>1 DEF State, Workflow
<1>4. [task |-> t, phase |-> l.run, status |-> "running"] \in RunRecord
  BY <1>1 DEF RunRecord, RunStatus
<1>5. Started(X, t, r, l, op) \in State
  BY <1>2, <1>3, <1>4 DEF State
<1> QED BY <1>5 DEF l

-----------------------------------------------------------------------------
(* Every step keeps the types.                                             *)

LEMMA EnterTypes ==
  ASSUME TypeOK, NEW s \in Servers, NEW t \in Tasks, NEW op \in Actions, Enter(s, t, op) PROVE TypeOK'
<1> DEFINE st == IF op \in {"chat", "stop-chat", "snapshot"} THEN file
                 ELSE Reconciled(file, t, tasks[t], Running(s, file.wf[t], t))
           stage == IF op = "snapshot" THEN "answer" ELSE IF st = file THEN "act" ELSE "reconcile"
           c == [NoCall EXCEPT !.op = op, !.task = t, !.stage = stage, !.seen = tasks[t], !.snap = st]
<1>1. st \in State /\ tasks[t] \in Task
  BY ReconciledType DEF TypeOK
<1>2. stage \in {"answer", "act", "reconcile"}
  OBVIOUS
<1>3. call' = [call EXCEPT ![s] = c] /\ mu' = [mu EXCEPT ![s] = s] /\ UNCHANGED <<disk, lock, up, active, session, worker, bounds>>
  BY DEF Enter, SetCall
<1> HIDE DEF st, stage
<1>4. c \in Calls
  BY <1>1, <1>2, Constants, ActionsAssumption DEF Calls
<1> HIDE DEF c
<1> QED BY <1>3, <1>4, CallSet DEF TypeOK, disk, bounds

(* The shape a call's record takes when its stage and its copy change.      *)
LEMMA CallCopy ==
  ASSUME TypeOK, NEW s \in Servers, NEW stage \in Stages, NEW X \in State
  PROVE  [call[s] EXCEPT !.stage = stage, !.snap = X] \in Calls
BY CallFields DEF Calls, Stages

LEMMA SaveTypes ==
  ASSUME TypeOK, NEW s \in Servers, NEW stage \in Stages, SaveCopy(s, stage)
  PROVE  file' \in State /\ call' \in [Servers -> Calls]
BY StageSet, CallFields DEF SaveCopy

LEMMA SavingTypes ==
  ASSUME TypeOK, NEW s \in Servers,
         SaveReconciled(s) \/ SaveTree(s) \/ SavePlanFeedback(s) \/ Save(s) \/ SaveAnswer(s) \/ SaveRecovered(s)
  PROVE  TypeOK'
<1>1. CASE SaveReconciled(s)
  BY <1>1, SaveTypes DEF SaveReconciled, TypeOK, Stages, bounds
<1>2. \A q \in Servers, t \in Tasks : [session EXCEPT ![q][t] = NoSession] \in [Servers -> [Tasks -> Session]]
  BY Constants DEF TypeOK
<1>3. CASE SaveTree(s)
  BY <1>2, <1>3, SaveTypes, CallFields DEF SaveTree, TypeOK, Stages, bounds
<1>4. CASE SavePlanFeedback(s)
  BY <1>4, SaveTypes DEF SavePlanFeedback, TypeOK, Stages, bounds
<1>5. CASE Save(s)
  BY <1>2, <1>5, SaveTypes, CallFields DEF Save, TypeOK, Stages, bounds
<1>6. CASE SaveAnswer(s)
  BY <1>6, SaveTypes, LeaveTypes, CallFields DEF SaveAnswer, TypeOK, Stages, bounds
<1>7. CASE SaveRecovered(s)
  BY <1>7, LeaveTypes, CallFields DEF SaveRecovered, TypeOK, bounds
<1> QED BY <1>1, <1>3, <1>4, <1>5, <1>6, <1>7

LEMMA RefusingTypes ==
  ASSUME TypeOK, NEW s \in Servers, Refused(s) \/ NoTree(s) \/ GiveUp(s) \/ GitRefuses(s) PROVE TypeOK'
BY RefuseTypes DEF Refused, NoTree, GiveUp, GitRefuses

LEMMA TreeTypes == ASSUME TypeOK, NEW s \in Servers, StartAgent(s) \/ PrepareRun(s) PROVE TypeOK'
<1>1. PICK stage \in {"save", "saveTree"} : WithTree(s, stage)
  BY DEF StartAgent, PrepareRun
<1>2. [W(s) EXCEPT !.worktree = TRUE] \in Workflow
  BY CallFields DEF Workflow
<1> DEFINE X == [call[s].snap EXCEPT !.wf[T(s)] = [W(s) EXCEPT !.worktree = TRUE]]
<1>3. X \in State
  BY <1>2, CallFields, CopySet
<1>4. [call[s] EXCEPT !.stage = stage, !.snap.wf[T(s)] = [W(s) EXCEPT !.worktree = TRUE]]
      = [call[s] EXCEPT !.stage = stage, !.snap = X]
  BY CallFields DEF Calls, State
<1>5. call' = [call EXCEPT ![s] = [call[s] EXCEPT !.stage = stage, !.snap = X]]
  BY <1>1, <1>4 DEF WithTree, SetCall
<1> HIDE DEF X
<1>6. call' \in [Servers -> Calls]
  BY <1>3, <1>5, CallCopy, CallSet, Zenon DEF Stages
<1>7. tree' \in [Roots -> {"none", "clean", "dirty"}] /\ branches' \subseteq Tasks
  BY <1>1, CallFields, Constants DEF WithTree, TypeOK
<1> QED BY <1>1, <1>6, <1>7 DEF WithTree, TypeOK, bounds

LEMMA GoLaunchTypes == ASSUME TypeOK, NEW s \in Servers, GoLaunch(s) PROVE TypeOK'
<1>1. call' \in [Servers -> Calls]
  BY StageSet DEF GoLaunch, Stages
<1> QED BY <1>1 DEF GoLaunch, TypeOK, disk, bounds

LEMMA ResumeChatTypes == ASSUME TypeOK, NEW s \in Servers, ResumeChat(s) PROVE TypeOK'
<1> DEFINE w == [W(s) EXCEPT !.resume = "none", !.phase = DefaultPhase(call[s].seen, W(s))]
           X == [call[s].snap EXCEPT !.wf[T(s)] = w]
<1>1. w \in Workflow
  BY CallFields, PhaseTypes DEF Workflow
<1>2. X \in State
  BY <1>1, CallFields, CopySet
<1>3. [call[s] EXCEPT !.op = "resume-chat", !.stage = "launch", !.snap.wf[T(s)] = w]
      = [call[s] EXCEPT !.op = "resume-chat", !.stage = "launch", !.snap = X]
  BY CallFields DEF Calls, State
<1> HIDE DEF X
<1>4. [call[s] EXCEPT !.op = "resume-chat", !.stage = "launch", !.snap = X] \in Calls
  BY <1>2, CallFields DEF Calls
<1>5. call' \in [Servers -> Calls]
  BY <1>3, <1>4 DEF ResumeChat, SetCall, TypeOK
<1> QED BY <1>5 DEF ResumeChat, TypeOK, disk, bounds

LEMMA StartChatTypes == ASSUME TypeOK, NEW s \in Servers, StartChat(s) PROVE TypeOK'
<1>1. CASE Refuse(s)
  BY <1>1, RefuseTypes
<1>2. CASE GoTo(s, "launch") /\ UNCHANGED <<disk, lock, up, mu, active, session, worker, bounds>>
  <2>1. call' \in [Servers -> Calls]
    BY <1>2, StageSet DEF Stages
  <2> QED BY <1>2, <2>1 DEF TypeOK, disk, bounds
<1> QED BY <1>1, <1>2, Zenon DEF StartChat

LEMMA AcquireTypes == ASSUME TypeOK, NEW s \in Servers, Acquire(s) PROVE TypeOK'
<1> DEFINE x == RootOf(W(s), T(s))
           l == Launch(call[s].op, W(s))
           X == Started(call[s].snap, T(s), nextRun, l, call[s].op)
           w == [NoWorker EXCEPT !.server = s, !.task = T(s), !.root = x, !.stage = "recorded",
                   !.phase = l.run, !.restore = l.restore]
<1>1. nextRun \in Runs /\ nextRun + 1 \in 1 .. MaxRuns + 1
  BY BoundsAssumption DEF Acquire, TypeOK, Runs
<1>2. X \in State
  BY <1>1, CallFields, StartedType
<1>3. w \in Worker
  BY CallFields, PhaseTypes, Constants, Zenon DEF Worker
<1>4. /\ call' = [call EXCEPT ![s] = [call[s] EXCEPT !.stage = "saveRun", !.snap = X]]
      /\ worker' = [worker EXCEPT ![nextRun] = w]
      /\ lock' = [lock EXCEPT ![x] = nextRun] /\ nextRun' = nextRun + 1
      /\ chat' = [chat EXCEPT ![T(s)] = "streaming"]
  BY DEF Acquire, SetCall
<1> HIDE DEF X, w, x
<1>5. call' \in [Servers -> Calls]
  BY <1>2, <1>4, CallCopy, CallSet DEF Stages
<1>6. worker' \in [Runs -> Worker] /\ chat' \in [Tasks -> {"none", "idle", "streaming", "error"}]
  BY <1>3, <1>4 DEF TypeOK
<1>7. lock' \in [Roots -> Runs \cup Servers \cup {Nobody}] /\ nextRun' \in 1 .. MaxRuns + 1
  BY <1>1, <1>4 DEF TypeOK
<1>8. UNCHANGED <<file, tasks, tree, branches, git, up, mu, active, session, crashes, faults>>
  BY DEF Acquire
<1> QED BY <1>5, <1>6, <1>7, <1>8 DEF TypeOK

LEMMA SaveRunTypes == ASSUME TypeOK, NEW s \in Servers, SaveRun(s) \/ SaveRunFails(s) PROVE TypeOK'
<1>1. CASE SaveRun(s)
  <2>1. PICK r \in Runs : /\ active' = [active EXCEPT ![s][worker[r].root] = r]
                          /\ worker' = [worker EXCEPT ![r].stage = "start"]
    BY <1>1 DEF SaveRun
  <2>2. active' \in [Servers -> [Roots -> Runs \cup {NoRun}]]
    BY <2>1 DEF TypeOK
  <2>3. worker' \in [Runs -> Worker]
    <3>1. [worker[r] EXCEPT !.stage = "start"] \in Worker
      BY WorkerFields DEF Worker
    <3> QED BY <2>1, <3>1 DEF TypeOK
  <2>4. CASE Leave(s) /\ file' = call[s].snap
    BY <1>1, <2>2, <2>3, <2>4, LeaveTypes, CallFields DEF SaveRun, TypeOK, bounds
  <2>5. CASE SaveCopy(s, "answer") /\ UNCHANGED <<mu, lock>>
    BY <1>1, <2>2, <2>3, <2>5, SaveTypes DEF SaveRun, TypeOK, Stages, bounds
  <2> QED BY <1>1, <2>4, <2>5 DEF SaveRun
<1>2. CASE SaveRunFails(s)
  <2>1. faults' \in 0 .. MaxFaults
    BY <1>2, BoundsAssumption DEF SaveRunFails, MayFault, TypeOK
  <2>2. worker' \in [Runs -> Worker] /\ call' \in [Servers -> Calls]
    BY <1>2, Constants DEF SaveRunFails, SetCall, TypeOK
  <2> QED BY <1>2, <2>1, <2>2 DEF SaveRunFails, TypeOK, disk
<1> QED BY <1>1, <1>2

LEMMA LockRootTypes == ASSUME TypeOK, NEW s \in Servers, LockRoot(s) PROVE TypeOK'
<1>1. CASE GoTo(s, "root") /\ UNCHANGED <<disk, lock, up, mu, active, session, worker, bounds>>
  <2>1. call' \in [Servers -> Calls]
    BY <1>1, StageSet DEF Stages
  <2> QED BY <1>1, <2>1 DEF TypeOK, disk, bounds
<1>2. CASE ~(GoTo(s, "root") /\ UNCHANGED <<disk, lock, up, mu, active, session, worker, bounds>>)
  <2> DEFINE w == [W(s) EXCEPT !.phase = "idle", !.feedback = TRUE]
             X == [call[s].snap EXCEPT !.wf[T(s)] = w]
  <2>1. w \in Workflow
    BY CallFields DEF Workflow, Phases
  <2>2. X \in State
    BY <2>1, CallFields, CopySet
  <2>3. [call[s] EXCEPT !.stage = "savePlan", !.snap.wf[T(s)] = w] = [call[s] EXCEPT !.stage = "savePlan", !.snap = X]
    BY CallFields DEF Calls, State
  <2>4. GoTo(s, "task") \/ call' = [call EXCEPT ![s] = [call[s] EXCEPT !.stage = "savePlan", !.snap = X]]
    BY <1>2, <2>3 DEF LockRoot, SetCall
  <2> HIDE DEF X
  <2>5. call' \in [Servers -> Calls]
    BY <2>2, <2>4, StageSet, CallCopy, CallSet DEF Stages
  <2>6. lock' = [lock EXCEPT ![RootOf(W(s), T(s))] = s] /\ UNCHANGED <<disk, up, mu, active, session, worker, bounds>>
    BY <1>2 DEF LockRoot
  <2> QED BY <2>5, <2>6 DEF TypeOK, disk, bounds
<1> QED BY <1>1, <1>2

LEMMA ReviewTypes == ASSUME TypeOK, NEW s \in Servers, Commit(s) \/ Merge(s) \/ UpdateTask(s) \/ SaveFails(s) PROVE TypeOK'
<1>0. T(s) \in Roots /\ T(s) \in Tasks
  BY CallFields, Constants
<1>1. CASE Commit(s)
  <2> DEFINE w == [W(s) EXCEPT !.phase = "ready-to-merge", !.commit = TRUE]
             X == [call[s].snap EXCEPT !.wf[T(s)] = w]
  <2>1. w \in Workflow
    BY CallFields DEF Workflow, Phases
  <2>2. X \in State
    BY <2>1, CallFields, CopySet
  <2>3. [call[s] EXCEPT !.stage = "save", !.snap.wf[T(s)] = w] = [call[s] EXCEPT !.stage = "save", !.snap = X]
    BY CallFields DEF Calls, State
  <2>4. call' = [call EXCEPT ![s] = [call[s] EXCEPT !.stage = "save", !.snap = X]]
    BY <1>1, <2>3 DEF Commit, SetCall
  <2> HIDE DEF X
  <2>5. call' \in [Servers -> Calls]
    BY <2>2, <2>4, CallCopy, CallSet, Zenon DEF Stages
  <2> QED BY <1>0, <1>1, <2>5 DEF Commit, TypeOK, bounds
<1>2. CASE Merge(s)
  <2>1. call' \in [Servers -> Calls]
    BY <1>2, StageSet DEF Merge, Stages
  <2> QED BY <1>0, <1>2, <2>1 DEF Merge, TypeOK, bounds
<1>3. CASE UpdateTask(s)
  <2> DEFINE w == [W(s) EXCEPT
               !.phase = IF call[s].op = "request-implementation-changes" THEN "fix-ready" ELSE "completed",
               !.worktree = @ /\ call[s].op # "merge-worktree"]
             X == [call[s].snap EXCEPT !.wf[T(s)] = w]
  <2>1. w \in Workflow
    BY CallFields DEF Workflow, Phases
  <2>2. X \in State
    BY <2>1, CallFields, CopySet
  <2>3. [call[s] EXCEPT !.stage = "save", !.undo = call[s].seen.status, !.snap.wf[T(s)] = w]
        = [call[s] EXCEPT !.stage = "save", !.undo = call[s].seen.status, !.snap = X]
    BY CallFields DEF Calls, State
  <2>4. call' = [call EXCEPT ![s] = [call[s] EXCEPT !.stage = "save", !.undo = call[s].seen.status, !.snap = X]]
    BY <1>3, <2>3 DEF UpdateTask, SetCall
  <2> HIDE DEF X
  <2>5. [call[s] EXCEPT !.stage = "save", !.undo = call[s].seen.status, !.snap = X] \in Calls
    BY <2>2, CallFields DEF Calls, Task
  <2>6. tasks' \in [Tasks -> Task]
    <3>1. NextStatus(call[s].op, tasks[T(s)].status) \in TaskStatus
      BY <1>0 DEF NextStatus, TaskStatus, TypeOK, Task
    <3>2. tasks' = [tasks EXCEPT ![T(s)].status = NextStatus(call[s].op, tasks[T(s)].status)]
      BY <1>3 DEF UpdateTask
    <3> QED BY <1>0, <3>1, <3>2 DEF TypeOK, Task
  <2> QED BY <1>3, <2>4, <2>5, <2>6, CallSet DEF UpdateTask, TypeOK, bounds
<1>4. CASE SaveFails(s)
  <2>1. faults' \in 0 .. MaxFaults
    BY <1>4, BoundsAssumption DEF SaveFails, MayFault, TypeOK
  <2>2. tasks' \in [Tasks -> Task]
    <3>1. call[s].undo \in TaskStatus \cup {"none"}
      BY CallFields DEF Calls
    <3> QED BY <1>0, <1>4, <3>1 DEF SaveFails, TypeOK, Task, TaskStatus
  <2> QED BY <1>4, <2>1, <2>2, LeaveTypes DEF SaveFails, TypeOK
<1> QED BY <1>1, <1>2, <1>3, <1>4

LEMMA StopTypes ==
  ASSUME TypeOK, NEW s \in Servers, NEW r \in Runs, Stop(s, r)
  PROVE  worker' \in [Runs -> Worker] /\ session' \in [Servers -> [Tasks -> Session]]
<1>1. worker[r] \in Worker
  BY DEF TypeOK
<1>2. [worker[r] EXCEPT !.cancelled = TRUE, !.session = IF worker[r].stage = "prompt" THEN "dead" ELSE worker[r].session] \in Worker
  BY <1>1 DEF Worker
<1>3. worker' = [worker EXCEPT ![r] =
        [worker[r] EXCEPT !.cancelled = TRUE, !.session = IF worker[r].stage = "prompt" THEN "dead" ELSE worker[r].session]]
  BY <1>1 DEF Stop, TypeOK, Worker
<1>4. worker' \in [Runs -> Worker]
  BY <1>2, <1>3 DEF TypeOK
<1>5. session' \in [Servers -> [Tasks -> Session]]
  <2>1. worker[r].task \in Tasks
    BY <1>1 DEF Worker
  <2>2. [session[s][worker[r].task] EXCEPT !.state = "dead"] \in Session
    <3>1. session[s][worker[r].task] \in Session
      BY <2>1 DEF TypeOK
    <3> QED BY <3>1 DEF Session
  <2> QED BY <2>1, <2>2 DEF Stop, TypeOK
<1> QED BY <1>4, <1>5

LEMMA RunningType ==
  ASSUME TypeOK, NEW s \in Servers, NEW w, NEW t \in Tasks PROVE Running(s, w, t) \in Runs \cup {NoRun}
<1>1. RootOf(w, t) \in Roots
  BY Constants DEF RootOf
<1> QED BY <1>1 DEF Running, TypeOK

LEMMA StoppingTypes == ASSUME TypeOK, NEW s \in Servers, Cancel(s) \/ StopChat(s) PROVE TypeOK'
<1> DEFINE r == Running(s, W(s), T(s))
<1>0. r \in Runs \cup {NoRun}
  BY CallFields, RunningType
<1> HIDE DEF r
<1>1. CASE Cancel(s)
  <2>1. CASE r = NoRun
    BY <1>1, <2>1, RefuseTypes DEF Cancel, r
  <2>2. CASE r # NoRun
    <3>1. Stop(s, r) /\ GoTo(s, "answer") /\ UNCHANGED <<disk, lock, up, mu, active, bounds>>
      BY <1>1, <2>2 DEF Cancel, r
    <3>2. call' \in [Servers -> Calls]
      BY <3>1, StageSet DEF Stages
    <3> QED BY <1>0, <2>2, <3>1, <3>2, StopTypes DEF TypeOK, disk, bounds
  <2> QED BY <2>1, <2>2
<1>2. CASE StopChat(s)
  <2>1. Leave(s) /\ UNCHANGED <<disk, up, active, bounds>>
        /\ (UNCHANGED <<worker, session>> \/ (r # NoRun /\ Stop(s, r)))
    BY <1>2 DEF StopChat, r
  <2>2. worker' \in [Runs -> Worker] /\ session' \in [Servers -> [Tasks -> Session]]
    BY <1>0, <2>1, StopTypes DEF TypeOK
  <2> QED BY <2>1, <2>2, LeaveTypes DEF TypeOK, disk, bounds
<1> QED BY <1>1, <1>2

LEMMA AnswerTypes == ASSUME TypeOK, NEW s \in Servers, Answer(s) PROVE TypeOK'
<1> DEFINE t == T(s)
           rec == Reconciled(file, t, tasks[t], Running(s, file.wf[t], t))
           X == [file EXCEPT !.wf[t].chat = TRUE]
<1>1. t \in Tasks /\ rec \in State
  BY CallFields, ReconciledType DEF TypeOK
<1>2. X \in State
  <2>1. [file.wf[t] EXCEPT !.chat = TRUE] \in Workflow
    <3>1. file.wf[t] \in Workflow
      BY <1>1 DEF TypeOK, State
    <3> QED BY <3>1 DEF Workflow
  <2> QED BY <1>1, <2>1 DEF TypeOK, State
<1>3. \/ Leave(s) /\ UNCHANGED chat
      \/ /\ UNCHANGED <<mu, lock>>
         /\ \/ call' = [call EXCEPT ![s] = [call[s] EXCEPT !.stage = "saveChat", !.snap = X]]
            \/ call' = [call EXCEPT ![s] = [call[s] EXCEPT !.stage = "saveAnswer", !.snap = rec]]
         /\ chat' \in {chat, [chat EXCEPT ![t] = "idle"]}
  <2>1. [chat EXCEPT ![t] = IF @ = "none" THEN "idle" ELSE @] \in {chat, [chat EXCEPT ![t] = "idle"]}
    BY <1>1 DEF TypeOK
  <2> HIDE DEF rec, X
  <2> QED BY <2>1 DEF Answer, SetCall, rec, X
<1> HIDE DEF rec, X, t
<1>4. [call[s] EXCEPT !.stage = "saveChat", !.snap = X] \in Calls /\ [call[s] EXCEPT !.stage = "saveAnswer", !.snap = rec] \in Calls
  BY <1>1, <1>2, CallCopy DEF Stages
<1>5. UNCHANGED <<file, tasks, tree, branches, git, up, active, session, worker, bounds>>
  BY DEF Answer
<1>6. CASE Leave(s) /\ UNCHANGED chat
  BY <1>5, <1>6, LeaveTypes DEF TypeOK, bounds
<1>7. CASE ~(Leave(s) /\ UNCHANGED chat)
  <2>1. call' \in [Servers -> Calls]
    BY <1>3, <1>4, <1>7, CallSet
  <2> QED BY <1>1, <1>3, <1>5, <1>7, <2>1 DEF TypeOK, bounds
<1> QED BY <1>3, <1>6, <1>7

(* The goroutines of the runs.                                             *)
LEMMA StepTypes ==
  ASSUME TypeOK, NEW r \in Runs, NEW stage \in {"prompt", "apply", "finish"}, NEW sess \in {"none", "live", "dead"},
         NEW result \in {"none", "ok", "failed", "cancelled"}, Step(r, stage, sess, result)
  PROVE  worker' \in [Runs -> Worker]
<1>1. [worker[r] EXCEPT !.stage = stage, !.session = sess, !.result = result] \in Worker
  BY WorkerFields DEF Worker
<1>2. worker' = [worker EXCEPT ![r] = [worker[r] EXCEPT !.stage = stage, !.session = sess, !.result = result]]
  BY DEF Step
<1> QED BY <1>1, <1>2 DEF TypeOK

LEMMA WorkTypes ==
  ASSUME TypeOK, NEW r \in Runs, worker[r].server \in Servers, EnsureSession(r) \/ PromptReturns(r) \/ ApplyResult(r)
  PROVE  TypeOK'
<1> DEFINE w == worker[r]
<1>0. w \in Worker /\ w.task \in Tasks /\ w.root \in Roots /\ w.session \in {"none", "live", "dead"}
  BY DEF TypeOK, Worker
<1>1. CASE EnsureSession(r)
  <2>1. Remembered(w).state \in {"none", "live", "dead"}
    BY <1>0 DEF Remembered, TypeOK, Session
  <2>2. worker' \in [Runs -> Worker]
    <3>1. PICK stage \in {"prompt", "finish"}, sess \in {"none", "live", "dead"}, result \in {"none", "cancelled", "failed"} :
            Step(r, stage, sess, result)
      BY <1>1, <2>1 DEF EnsureSession
    <3> QED BY <3>1, StepTypes
  <2>3. session' \in [Servers -> [Tasks -> Session]]
    <3>1. \A state \in {"live", "dead"} : [state |-> state, cwd |-> w.root] \in Session
      BY <1>0 DEF Session
    <3>2. \/ UNCHANGED session
          \/ \E state \in {"live", "dead"} : session' = [session EXCEPT ![w.server][w.task] = [state |-> state, cwd |-> w.root]]
      BY <1>1 DEF EnsureSession
    <3>3. ASSUME NEW e \in Session
          PROVE  [session EXCEPT ![w.server][w.task] = e] \in [Servers -> [Tasks -> Session]]
      BY <1>0 DEF TypeOK
    <3>4. CASE UNCHANGED session
      BY <3>4 DEF TypeOK
    <3>5. ASSUME NEW state \in {"live", "dead"}, session' = [session EXCEPT ![w.server][w.task] = [state |-> state, cwd |-> w.root]]
          PROVE  session' \in [Servers -> [Tasks -> Session]]
      <4> DEFINE e == [state |-> state, cwd |-> w.root]
      <4>1. e \in Session /\ session' = [session EXCEPT ![w.server][w.task] = e]
        BY <3>1, <3>5
      <4> HIDE DEF e
      <4> QED BY <3>3, <4>1
    <3> QED BY <3>2, <3>4, <3>5
  <2>4. faults' \in 0 .. MaxFaults
    BY <1>1, BoundsAssumption DEF EnsureSession, MayFault, TypeOK
  <2> QED BY <1>1, <2>2, <2>3, <2>4 DEF EnsureSession, TypeOK, disk
<1>2. CASE PromptReturns(r)
  <2>1. \E stage \in {"apply", "finish"}, result \in {"ok", "cancelled", "failed"} : Step(r, stage, w.session, result)
    BY <1>2 DEF PromptReturns
  <2>2. worker' \in [Runs -> Worker]
    BY <1>0, <2>1, StepTypes
  <2> QED BY <1>2, <2>2 DEF PromptReturns, TypeOK, disk, bounds
<1>3. CASE ApplyResult(r)
  <2>1. worker' \in [Runs -> Worker]
    BY <1>0, <1>3, StepTypes DEF ApplyResult
  <2>2. tasks' \in [Tasks -> Task]
    <3>1. PICK plan, notes \in BOOLEAN :
            tasks' = [tasks EXCEPT ![w.task].plan = @ \/ (plan /\ w.phase = "investigation"), ![w.task].notes = @ \/ notes]
      BY <1>3, Zenon DEF ApplyResult
    <3>2. tasks[w.task] \in Task
      BY <1>0 DEF TypeOK
    <3>3. \A p, n \in BOOLEAN : [tasks[w.task] EXCEPT !.plan = p, !.notes = n] \in Task
      BY <3>2 DEF Task
    <3>4. \E p, n \in BOOLEAN : tasks' = [tasks EXCEPT ![w.task] = [tasks[w.task] EXCEPT !.plan = p, !.notes = n]]
      BY <1>0, <3>1, <3>2 DEF TypeOK, Task
    <3>5. PICK p, n \in BOOLEAN : tasks' = [tasks EXCEPT ![w.task] = [tasks[w.task] EXCEPT !.plan = p, !.notes = n]]
      BY <3>4
    <3> DEFINE e == [tasks[w.task] EXCEPT !.plan = p, !.notes = n]
    <3>6. e \in Task /\ tasks' = [tasks EXCEPT ![w.task] = e]
      BY <3>3, <3>5
    <3> HIDE DEF e
    <3> QED BY <1>0, <3>6 DEF TypeOK
  <2> QED BY <1>3, <2>1, <2>2 DEF ApplyResult, TypeOK, bounds
<1> QED BY <1>1, <1>2, <1>3

LEMMA EndedTypes ==
  ASSUME TypeOK, NEW r \in Runs, worker[r].server \in Servers, Ended(r)
  PROVE  /\ mu' \in [Servers -> Runs \cup Servers \cup {Nobody}] /\ call' \in [Servers -> Calls]
         /\ lock' \in [Roots -> Runs \cup Servers \cup {Nobody}] /\ worker' \in [Runs -> Worker]
<1>1. worker[r].root \in Roots
  BY DEF TypeOK, Worker
<1> QED BY <1>1, Constants DEF Ended, SetCall, TypeOK

LEMMA FinishTypes ==
  ASSUME TypeOK, NEW r \in Runs, worker[r].server \in Servers, FinishLoad(r) \/ FinishSave(r)
  PROVE  TypeOK'
<1> DEFINE w == worker[r]
<1>0. w \in Worker /\ w.task \in Tasks /\ w.root \in Roots
  BY DEF TypeOK, Worker
<1>1. CASE FinishLoad(r)
  <2>1. active' \in [Servers -> [Roots -> Runs \cup {NoRun}]]
    BY <1>0, <1>1 DEF FinishLoad, TypeOK
  <2>2. CASE Ended(r)
    BY <1>1, <2>1, <2>2, EndedTypes DEF FinishLoad, TypeOK, disk, bounds
  <2>3. CASE ~Ended(r)
    <3> DEFINE X == Finished(file, w.task, r, w.phase, w.restore, w.result, w.session # "none")
               c == [NoCall EXCEPT !.task = w.task, !.snap = X]
    <3>1. X \in State
      BY <1>0, FinishedType DEF TypeOK, Worker
    <3>2. call' = [call EXCEPT ![w.server] = c] /\ mu' = [mu EXCEPT ![w.server] = r] /\ UNCHANGED lock
          /\ worker' = [worker EXCEPT ![r].stage = "end"]
      BY <1>1, <2>3 DEF FinishLoad, SetCall
    <3> HIDE DEF X
    <3>3. c \in Calls
      BY <1>0, <3>1, Constants DEF Calls
    <3>4. [w EXCEPT !.stage = "end"] \in Worker
      BY <1>0 DEF Worker
    <3> HIDE DEF c
    <3>5. call' \in [Servers -> Calls] /\ mu' \in [Servers -> Runs \cup Servers \cup {Nobody}] /\ worker' \in [Runs -> Worker]
      BY <3>2, <3>3, <3>4 DEF TypeOK
    <3> QED BY <1>1, <2>1, <3>2, <3>5 DEF FinishLoad, TypeOK, disk, bounds
  <2> QED BY <2>2, <2>3
<1>2. CASE FinishSave(r)
  <2>1. file' \in State /\ faults' \in 0 .. MaxFaults
    BY <1>2, CallFields, BoundsAssumption DEF FinishSave, MayFault, TypeOK
  <2>2. chat' \in [Tasks -> {"none", "idle", "streaming", "error"}]
    BY <1>0, <1>2 DEF FinishSave, ChatAfter, TypeOK
  <2> QED BY <1>2, <2>1, <2>2, EndedTypes DEF FinishSave, TypeOK
<1> QED BY <1>1, <1>2

(* The environment.                                                        *)
LEMMA GoneTypes ==
  ASSUME TypeOK, NEW s \in Servers, Gone(s)
  PROVE  /\ mu' \in [Servers -> Runs \cup Servers \cup {Nobody}] /\ call' \in [Servers -> Calls]
         /\ lock' \in [Roots -> Runs \cup Servers \cup {Nobody}] /\ worker' \in [Runs -> Worker]
         /\ active' \in [Servers -> [Roots -> Runs \cup {NoRun}]] /\ session' \in [Servers -> [Tasks -> Session]]
BY Constants DEF Gone, SetCall, TypeOK

LEMMA ExitTypes == ASSUME TypeOK, NEW s \in Servers, Close(s) \/ Crash(s) \/ Exit(s) \/ Restart(s) PROVE TypeOK'
<1>0. crashes < MaxCrashes => crashes + 1 \in 0 .. MaxCrashes
  BY BoundsAssumption DEF TypeOK
<1>1. CASE Close(s)
  <2>1. \A r \in Runs : worker[r] \in Worker
        /\ [worker[r] EXCEPT !.cancelled = TRUE, !.session = IF worker[r].stage = "prompt" THEN "dead" ELSE @] \in Worker
    BY WorkerFields, Zenon DEF Worker
  <2>2. worker' \in [Runs -> Worker]
    BY <1>1, <2>1 DEF Close
  <2>3. active' \in [Servers -> [Roots -> Runs \cup {NoRun}]] /\ session' \in [Servers -> [Tasks -> Session]]
    BY <1>1, Constants DEF Close, TypeOK
  <2> QED BY <1>0, <1>1, <2>2, <2>3 DEF Close, MayExit, TypeOK, disk
<1>2. CASE Crash(s)
  BY <1>0, <1>2, GoneTypes DEF Crash, MayExit, TypeOK, disk
<1>3. CASE Exit(s)
  BY <1>3, GoneTypes DEF Exit, TypeOK, disk, bounds
<1>4. CASE Restart(s)
  <2> DEFINE X == Interrupted(file)
             c == [NoCall EXCEPT !.op = "recover", !.stage = "recover", !.snap = X]
  <2>1. X \in State
    BY InterruptedType DEF TypeOK
  <2>2. UNCHANGED <<mu, call>> \/ (mu' = [mu EXCEPT ![s] = s] /\ call' = [call EXCEPT ![s] = c])
    BY <1>4 DEF Restart, SetCall
  <2> HIDE DEF X
  <2>3. c \in Calls
    BY <2>1, Constants DEF Calls
  <2> HIDE DEF c
  <2>4. call' \in [Servers -> Calls]
    BY <2>2, <2>3, CallSet DEF TypeOK
  <2>6. mu' \in [Servers -> Runs \cup Servers \cup {Nobody}]
    <3>1. mu \in [Servers -> Runs \cup Servers \cup {Nobody}]
      BY DEF TypeOK
    <3>2. mu' = mu \/ mu' = [mu EXCEPT ![s] = s]
      BY <2>2
    <3> QED BY <3>1, <3>2
  <2>5. chat' \in [Tasks -> {"none", "idle", "streaming", "error"}] /\ up' \subseteq Servers
    BY <1>4 DEF Restart, TypeOK
  <2> QED BY <1>4, <2>4, <2>5, <2>6 DEF Restart, TypeOK, bounds
<1> QED BY <1>1, <1>2, <1>3, <1>4

LEMMA OthersTypes ==
  ASSUME TypeOK,
         \/ \E s \in Servers, t \in Tasks : AdapterDies(s, t)
         \/ \E r \in Runs : Edit(r) /\ worker[r].server \in Servers
         \/ \E t \in Tasks : EditTask(t)
  PROVE  TypeOK'
<1>0. MayFault => faults + 1 \in 0 .. MaxFaults
  BY BoundsAssumption DEF TypeOK, MayFault
<1>1. ASSUME NEW s \in Servers, NEW t \in Tasks, AdapterDies(s, t) PROVE TypeOK'
  <2>1. \A r \in Runs : worker[r] \in Worker /\ [worker[r] EXCEPT !.session = "dead"] \in Worker
    BY WorkerFields DEF Worker
  <2>2. worker' \in [Runs -> Worker]
    BY <1>1, <2>1 DEF AdapterDies
  <2>3. session' \in [Servers -> [Tasks -> Session]]
    <3>0. session[s][t] \in Session
      BY DEF TypeOK
    <3>1. [session[s][t] EXCEPT !.state = "dead"] \in Session
      BY <3>0 DEF Session
    <3> QED BY <1>1, <3>1 DEF AdapterDies, TypeOK
  <2> QED BY <1>0, <1>1, <2>2, <2>3 DEF AdapterDies, TypeOK, disk
<1>2. ASSUME NEW r \in Runs, Edit(r), worker[r].server \in Servers PROVE TypeOK'
  <2>1. Remembered(worker[r]).cwd \in Roots
    BY <1>2 DEF Remembered, TypeOK, Worker, Session
  <2> QED BY <1>2, <2>1 DEF Edit, TypeOK, memory, bounds
<1>3. ASSUME NEW t \in Tasks, EditTask(t) PROVE TypeOK'
  <2>1. tasks' \in [Tasks -> Task]
    <3>1. tasks[t] \in Task
      BY DEF TypeOK
    <3>2. [tasks[t] EXCEPT !.plan = TRUE] \in Task /\ [tasks[t] EXCEPT !.notes = TRUE] \in Task
          /\ \A status \in TaskStatus : [tasks[t] EXCEPT !.status = status] \in Task
      BY <3>1 DEF Task
    <3>3. tasks \in [Tasks -> Task]
      BY DEF TypeOK
    <3>4. ASSUME NEW e \in Task, tasks' = [tasks EXCEPT ![t] = e] PROVE tasks' \in [Tasks -> Task]
      BY <3>3, <3>4
    <3>5. \/ \E status \in TaskStatus : tasks' = [tasks EXCEPT ![t] = [tasks[t] EXCEPT !.status = status]]
          \/ tasks' = [tasks EXCEPT ![t] = [tasks[t] EXCEPT !.plan = TRUE]]
          \/ tasks' = [tasks EXCEPT ![t] = [tasks[t] EXCEPT !.notes = TRUE]]
      BY <1>3, <3>3 DEF EditTask
    <3> QED BY <3>2, <3>4, <3>5
  <2> QED BY <1>0, <1>3, <2>1 DEF EditTask, TypeOK, memory
<1> QED BY <1>1, <1>2, <1>3
-----------------------------------------------------------------------------
(* The inductive invariant.                                                *)

AtWork == {"start", "prompt", "apply", "finish"}
Unstarted == {"saveTree", "launch", "root", "savePlan", "task"}

(* A run at work holds the flock of its root.                               *)
Locks ==
  \A r \in Runs : Works(r) => lock[worker[r].root] = r /\ r < nextRun /\ worker[r].server \in Servers

(* Manager.mu is held by the call or by the run that is recording its end,  *)
(* and a call that is about to start a run has a copy with no active run.   *)
Turn(s) ==
  /\ mu[s] \in Runs \cup {Nobody, s}
  /\ mu[s] = Nobody => call[s] = NoCall
  /\ mu[s] = s => s \in up
  /\ mu[s] \in Runs => worker[mu[s]].stage = "end" /\ worker[mu[s]].server = s
  /\ call[s].stage # "none" => mu[s] = s
  /\ call[s].stage \in Unstarted => W(s).active = 0
Turns == \A s \in Servers : Turn(s)

(* Where a run is recorded or recording its end, its server is; a run that  *)
(* executes is the active one of its root.                                  *)
Seat(r) ==
  /\ worker[r].stage = "recorded" => At(worker[r].server, "saveRun")
  /\ worker[r].stage = "end" => mu[worker[r].server] = r
  /\ worker[r].stage \in AtWork /\ worker[r].server \in up => active[worker[r].server][worker[r].root] = r
OneLaunch ==
  \A r, q \in Runs :
    worker[r].stage = "recorded" /\ worker[q].stage = "recorded" /\ worker[r].server = worker[q].server => r = q
Seats == (\A r \in Runs : Seat(r)) /\ OneLaunch

(* A copy of the state names no run that has not been started, and a run at *)
(* work only as the run of its Task, in the root the copy gives the Task.   *)
CopyOK(X, workers, next) ==
  \A t \in Tasks :
    /\ X.wf[t].active < next
    /\ \A r \in Runs : X.wf[t].active = r /\ workers[r].stage # "none" =>
         workers[r].task = t /\ workers[r].root = RootOf(X.wf[t], t)
Copies ==
  /\ CopyOK(file, worker, nextRun)
  /\ \A s \in Servers : CopyOK(call[s].snap, worker, nextRun)

Inv == TypeOK /\ Locks /\ Turns /\ Seats /\ Copies

-----------------------------------------------------------------------------
(* The kinds of steps, by what they do to the parts of the invariant.       *)

(* No run starts or ends, and none is recorded or records its end.          *)
SameShape ==
  \A r \in Runs :
    /\ worker'[r].server = worker[r].server
    /\ worker'[r].task = worker[r].task
    /\ worker'[r].root = worker[r].root
    /\ worker'[r].stage = worker[r].stage \/ {worker[r].stage, worker'[r].stage} \subseteq AtWork

(* A copy whose workflows were edited without touching an active run.       *)
Edited(Y, X) ==
  /\ Y.runs = X.runs
  /\ \A t \in Tasks :
       /\ Y.wf[t].active = X.wf[t].active
       /\ X.wf[t].active = 0 \/ Y.wf[t].worktree = X.wf[t].worktree

(* A call takes a step on its own copy.                                     *)
Going(s) ==
  /\ mu[s] = s /\ call[s].stage \notin {"none", "saveRun"}
  /\ file' \in {file, call[s].snap}
  /\ LET c == call'[s] IN
       /\ call' = [call EXCEPT ![s] = c]
       /\ c.task = T(s) /\ c.stage \notin {"none", "saveRun"}
       /\ c.stage \in Unstarted => c.snap.wf[c.task].active = 0
       /\ Edited(c.snap, call[s].snap)
  /\ \A x \in Roots : lock'[x] = lock[x] \/ (lock[x] = Nobody /\ lock'[x] = s)
  /\ SameShape
  /\ UNCHANGED <<up, mu, active, nextRun>>

(* A call takes a copy of the file.                                         *)
Loading(s) ==
  /\ s \in up
  /\ mu[s] = Nobody \/ At(s, "answer")
  /\ mu' = [mu EXCEPT ![s] = s]
  /\ LET c == call'[s] IN
       /\ call' = [call EXCEPT ![s] = c]
       /\ c.stage \in {"act", "reconcile", "answer", "saveChat", "saveAnswer"}
       /\ \/ Edited(c.snap, file)
          \/ c.snap = Reconciled(file, c.task, tasks[c.task], Running(s, file.wf[c.task], c.task))
  /\ UNCHANGED <<file, tree, lock, up, active, worker, nextRun>>

(* A call returns.                                                          *)
Returning(s) ==
  /\ mu[s] = s /\ call[s].stage # "saveRun"
  /\ file' \in {file, call[s].snap}
  /\ Leave(s)
  /\ SameShape
  /\ UNCHANGED <<tree, up, active, nextRun>>

(* A step of a run at work, of an adapter or of somebody else.              *)
Elsewhere == SameShape /\ UNCHANGED <<file, lock, up, mu, call, active, nextRun>>

Dies(s) == Crash(s) \/ Exit(s)

Kinds ==
  \/ \E s \in Servers :
       \/ Going(s) \/ Loading(s) \/ Returning(s) \/ Acquire(s) \/ SaveRun(s) \/ SaveRunFails(s)
       \/ Close(s) \/ Dies(s) \/ Restart(s)
  \/ \E r \in Runs : FinishLoad(r) \/ FinishSave(r)
  \/ Elsewhere

-----------------------------------------------------------------------------
(* Every step is of one of these kinds.                                     *)

LEMMA SameWorkers == ASSUME UNCHANGED worker PROVE SameShape
BY DEF SameShape

LEMMA EditedOne ==
  ASSUME NEW X \in State, NEW t \in Tasks, NEW w \in Workflow, w.active = X.wf[t].active,
         X.wf[t].active = 0 \/ w.worktree = X.wf[t].worktree
  PROVE  Edited([X EXCEPT !.wf[t] = w], X)
BY DEF Edited, State

LEMMA GateIdle ==
  ASSUME NEW op \in AllActions \ {"cancel", "chat", "stop-chat", "snapshot"}, NEW task, NEW w, Gate(op, task, w)
  PROVE  w.active = 0
BY DEF Gate, Working, AllActions

LEMMA AllowedIdle ==
  ASSUME NEW s \in Servers, NEW op \in AllActions \ {"cancel", "chat", "stop-chat", "snapshot"}, Allowed(s, op)
  PROVE  W(s).active = 0
BY GateIdle DEF Allowed

(* A call that goes on with its own copy unchanged, or with the workflow of *)
(* its Task edited.                                                         *)
LEMMA GoesTo ==
  ASSUME TypeOK, NEW s \in Servers, NEW from \in Stages \ {"none", "saveRun"}, At(s, from),
         NEW stage \in Stages \ {"none", "saveRun"}, GoTo(s, stage),
         stage \in Unstarted => W(s).active = 0, file' \in {file, call[s].snap},
         \A x \in Roots : lock'[x] = lock[x] \/ (lock[x] = Nobody /\ lock'[x] = s),
         SameShape, UNCHANGED <<up, mu, active, nextRun>>
  PROVE  Going(s)
<1>1. call' = [call EXCEPT ![s] = [call[s] EXCEPT !.stage = stage]] /\ call[s] \in Calls
  BY CallFields DEF GoTo, SetCall
<1>2. call'[s].task = T(s) /\ call'[s].stage = stage /\ call'[s].snap = call[s].snap /\ call' = [call EXCEPT ![s] = call'[s]]
  BY <1>1 DEF Calls, TypeOK, T
<1>3. Edited(call[s].snap, call[s].snap)
  BY DEF Edited
<1> QED BY <1>2, <1>3 DEF Going, At, W, T

LEMMA GoesEditing ==
  ASSUME TypeOK, NEW s \in Servers, NEW from \in Stages \ {"none", "saveRun"}, At(s, from),
         NEW c, call' = [call EXCEPT ![s] = c], c.task = T(s), c.stage \in Stages \ {"none", "saveRun"},
         NEW w \in Workflow, c.snap = [call[s].snap EXCEPT !.wf[T(s)] = w], w.active = W(s).active,
         W(s).active = 0 \/ w.worktree = W(s).worktree,
         c.stage \in Unstarted => W(s).active = 0, file' = file,
         \A x \in Roots : lock'[x] = lock[x] \/ (lock[x] = Nobody /\ lock'[x] = s),
         UNCHANGED <<worker, up, mu, active, nextRun>>
  PROVE  Going(s)
<1>1. call'[s] = c
  BY DEF TypeOK
<1>2. Edited(c.snap, call[s].snap)
  BY CallFields, EditedOne DEF W
<1>3. c.snap.wf[c.task].active = W(s).active
  BY CallFields DEF State
<1> QED BY <1>1, <1>2, <1>3, SameWorkers DEF Going, At

LEMMA SavingKind ==
  ASSUME TypeOK, Turns, NEW s \in Servers, SaveReconciled(s) \/ SaveTree(s) \/ SavePlanFeedback(s) \/ Save(s)
  PROVE  Going(s)
<1>1. PICK from \in {"reconcile", "saveTree", "savePlan", "save"}, stage \in {"act", "launch", "answer"} :
        /\ At(s, from) /\ SaveCopy(s, stage)
        /\ stage = "launch" => from \in {"saveTree", "savePlan"}
        /\ UNCHANGED <<lock, up, mu, active, worker, bounds>>
  BY DEF SaveReconciled, SaveTree, SavePlanFeedback, Save
<1>2. stage \in Unstarted => W(s).active = 0
  BY <1>1 DEF Turns, Turn, Unstarted, At
<1> QED BY <1>1, <1>2, GoesTo, SameWorkers DEF SaveCopy, Stages, bounds

LEMMA TreeKind == ASSUME TypeOK, Turns, NEW s \in Servers, StartAgent(s) \/ PrepareRun(s) PROVE Going(s)
<1>1. PICK stage \in {"save", "saveTree"} : WithTree(s, stage)
  BY DEF StartAgent, PrepareRun
<1>2. W(s).active = 0 /\ At(s, "act")
  BY AllowedIdle DEF StartAgent, PrepareRun, AllActions, Allowed
<1> DEFINE w == [W(s) EXCEPT !.worktree = TRUE]
           c == [call[s] EXCEPT !.stage = stage, !.snap.wf[T(s)] = w]
<1>3. w \in Workflow /\ w.active = W(s).active
  BY CallFields DEF Workflow
<1>4. c.task = T(s) /\ c.stage = stage /\ c.snap = [call[s].snap EXCEPT !.wf[T(s)] = w]
  BY CallFields DEF Calls, T
<1>5. call' = [call EXCEPT ![s] = c] /\ UNCHANGED <<file, lock, up, mu, active, worker, nextRun>>
  BY <1>1 DEF WithTree, SetCall, bounds
<1> HIDE DEF c, w
<1> QED BY <1>2, <1>3, <1>4, <1>5, GoesEditing DEF Stages

LEMMA GoLaunchKind == ASSUME TypeOK, Turns, NEW s \in Servers, GoLaunch(s) PROVE Going(s)
<1>1. W(s).active = 0 /\ At(s, "act")
  BY AllowedIdle DEF GoLaunch, AllActions, Allowed
<1> QED BY <1>1, GoesTo, SameWorkers DEF GoLaunch, Stages, disk, bounds

LEMMA ResumeChatKind == ASSUME TypeOK, Turns, NEW s \in Servers, ResumeChat(s) PROVE Going(s)
<1>1. W(s).active = 0 /\ At(s, "act")
  BY AllowedIdle DEF ResumeChat, AllActions, Allowed
<1> DEFINE w == [W(s) EXCEPT !.resume = "none", !.phase = DefaultPhase(call[s].seen, W(s))]
           c == [call[s] EXCEPT !.op = "resume-chat", !.stage = "launch", !.snap.wf[T(s)] = w]
<1>2. w \in Workflow /\ w.active = W(s).active
  BY CallFields, PhaseTypes DEF Workflow
<1>3. c.task = T(s) /\ c.stage = "launch" /\ c.snap = [call[s].snap EXCEPT !.wf[T(s)] = w]
  BY CallFields DEF Calls, T
<1>4. call' = [call EXCEPT ![s] = c] /\ UNCHANGED <<file, lock, up, mu, active, worker, nextRun>>
  BY DEF ResumeChat, SetCall, bounds, disk
<1> HIDE DEF c, w
<1> QED BY <1>1, <1>2, <1>3, <1>4, GoesEditing DEF Stages

LEMMA LockRootKind == ASSUME TypeOK, Turns, NEW s \in Servers, LockRoot(s) PROVE Going(s)
<1>1. CASE At(s, "act")
  <2>1. GoTo(s, "root") /\ UNCHANGED <<disk, lock, up, mu, active, session, worker, bounds>>
    BY <1>1 DEF LockRoot, At
  <2>2. W(s).active = 0
    BY <1>1, AllowedIdle DEF LockRoot, AllActions, At
  <2> QED BY <1>1, <2>1, <2>2, GoesTo, SameWorkers DEF Stages, disk, bounds
<1>2. CASE ~At(s, "act")
  <2>1. At(s, "root") /\ RootFree(s, RootOf(W(s), T(s))) /\ lock' = [lock EXCEPT ![RootOf(W(s), T(s))] = s]
        /\ UNCHANGED <<disk, up, mu, active, session, worker, bounds>>
    BY <1>2 DEF LockRoot, Allowed
  <2>2. W(s).active = 0
    BY <2>1 DEF Turns, Turn, Unstarted, At
  <2>3. \A x \in Roots : lock'[x] = lock[x] \/ (lock[x] = Nobody /\ lock'[x] = s)
    BY <2>1 DEF RootFree, TypeOK
  <2>4. CASE GoTo(s, "task")
    BY <2>1, <2>2, <2>3, <2>4, GoesTo, SameWorkers DEF Stages, disk, bounds
  <2>5. CASE ~GoTo(s, "task")
    <3> DEFINE w == [W(s) EXCEPT !.phase = "idle", !.feedback = TRUE]
               c == [call[s] EXCEPT !.stage = "savePlan", !.snap.wf[T(s)] = w]
    <3>1. w \in Workflow /\ w.active = W(s).active
      BY CallFields DEF Workflow, Phases
    <3>2. c.task = T(s) /\ c.stage = "savePlan" /\ c.snap = [call[s].snap EXCEPT !.wf[T(s)] = w]
      BY CallFields DEF Calls, T
    <3>3. call' = [call EXCEPT ![s] = c]
      BY <1>2, <2>5 DEF LockRoot, SetCall, Allowed
    <3> HIDE DEF c, w
    <3> QED BY <2>1, <2>2, <2>3, <3>1, <3>2, <3>3, GoesEditing DEF Stages, disk, bounds
  <2> QED BY <2>4, <2>5
<1> QED BY <1>1, <1>2

LEMMA ReviewKind == ASSUME TypeOK, Turns, NEW s \in Servers, Commit(s) \/ Merge(s) \/ UpdateTask(s) PROVE Going(s)
<1>1. CASE Merge(s)
  <2>1. At(s, "act") /\ W(s).active = 0
    BY <1>1, AllowedIdle DEF Merge, Allowed, AllActions
  <2> QED BY <1>1, <2>1, GoesTo, SameWorkers DEF Merge, Stages, bounds
<1>2. CASE Commit(s)
  <2>1. At(s, "act") /\ W(s).active = 0
    BY <1>2, AllowedIdle DEF Commit, Allowed, AllActions
  <2> DEFINE w == [W(s) EXCEPT !.phase = "ready-to-merge", !.commit = TRUE]
             c == [call[s] EXCEPT !.stage = "save", !.snap.wf[T(s)] = w]
  <2>2. w \in Workflow /\ w.active = W(s).active
    BY CallFields DEF Workflow, Phases
  <2>3. c.task = T(s) /\ c.stage = "save" /\ c.snap = [call[s].snap EXCEPT !.wf[T(s)] = w]
    BY CallFields DEF Calls, T
  <2>4. call' = [call EXCEPT ![s] = c] /\ UNCHANGED <<file, lock, up, mu, active, worker, nextRun>>
    BY <1>2 DEF Commit, SetCall, bounds
  <2> HIDE DEF c, w
  <2> QED BY <2>1, <2>2, <2>3, <2>4, GoesEditing DEF Stages
<1>3. CASE UpdateTask(s)
  <2>1. At(s, "task") /\ W(s).active = 0
    BY <1>3 DEF UpdateTask, At, Turns, Turn, Unstarted
  <2> DEFINE w == [W(s) EXCEPT
               !.phase = IF call[s].op = "request-implementation-changes" THEN "fix-ready" ELSE "completed",
               !.worktree = @ /\ call[s].op # "merge-worktree"]
             c == [call[s] EXCEPT !.stage = "save", !.undo = call[s].seen.status, !.snap.wf[T(s)] = w]
  <2>2. w \in Workflow /\ w.active = W(s).active
    BY CallFields DEF Workflow, Phases
  <2>3. c.task = T(s) /\ c.stage = "save" /\ c.snap = [call[s].snap EXCEPT !.wf[T(s)] = w]
    BY CallFields DEF Calls, T
  <2>4. call' = [call EXCEPT ![s] = c] /\ UNCHANGED <<file, lock, up, mu, active, worker, nextRun>>
    BY <1>3 DEF UpdateTask, SetCall, bounds
  <2> HIDE DEF c, w
  <2> QED BY <2>1, <2>2, <2>3, <2>4, GoesEditing DEF Stages
<1> QED BY <1>1, <1>2, <1>3

LEMMA StopShape == ASSUME TypeOK, NEW s \in Servers, NEW r \in Runs, Stop(s, r) PROVE SameShape
<1>1. worker' = [worker EXCEPT ![r] =
        [worker[r] EXCEPT !.cancelled = TRUE, !.session = IF worker[r].stage = "prompt" THEN "dead" ELSE worker[r].session]]
  BY WorkerFields DEF Stop, TypeOK, Worker
<1>2. \A q \in Runs : /\ worker'[q].server = worker[q].server /\ worker'[q].task = worker[q].task
                      /\ worker'[q].root = worker[q].root /\ worker'[q].stage = worker[q].stage
  BY <1>1, WorkerFields DEF TypeOK, Worker
<1> QED BY <1>2 DEF SameShape

LEMMA ReturnKind ==
  ASSUME TypeOK, NEW s \in Servers, mu[s] = s, call[s].stage # "saveRun", Refuse(s) PROVE Returning(s)
BY SameWorkers DEF Refuse, Returning, disk, bounds

LEMMA RefusingKind ==
  ASSUME TypeOK, NEW s \in Servers, Refused(s) \/ NoTree(s) \/ GiveUp(s) \/ GitRefuses(s) PROVE Returning(s)
<1>1. mu[s] = s /\ call[s].stage # "saveRun" /\ Refuse(s)
  BY DEF Refused, NoTree, GiveUp, GitRefuses, At, Allowed
<1> QED BY <1>1, ReturnKind

LEMMA StartChatKind == ASSUME TypeOK, NEW s \in Servers, StartChat(s) PROVE Going(s) \/ Returning(s)
<1>1. At(s, "act")
  BY DEF StartChat, Allowed
<1>2. CASE Refuse(s)
  BY <1>1, <1>2, ReturnKind DEF At
<1>3. CASE ~Refuse(s)
  <2>1. W(s).active = 0 /\ GoTo(s, "launch") /\ UNCHANGED <<disk, lock, up, mu, active, session, worker, bounds>>
    BY <1>3, Zenon DEF StartChat
  <2> QED BY <1>1, <2>1, GoesTo, SameWorkers DEF Stages, disk, bounds
<1> QED BY <1>2, <1>3

LEMMA StoppingKind == ASSUME TypeOK, NEW s \in Servers, Cancel(s) \/ StopChat(s) PROVE Going(s) \/ Returning(s)
<1> DEFINE r == Running(s, W(s), T(s))
<1>0. r \in Runs \cup {NoRun} /\ At(s, "act")
  BY CallFields, RunningType DEF Cancel, StopChat, Allowed
<1> HIDE DEF r
<1>1. CASE Cancel(s)
  <2>1. CASE Refuse(s)
    BY <1>0, <2>1, ReturnKind DEF At
  <2>2. CASE ~Refuse(s)
    <3>1. r # NoRun /\ Stop(s, r) /\ GoTo(s, "answer") /\ UNCHANGED <<disk, lock, up, mu, active, bounds>>
      BY <1>1, <2>2 DEF Cancel, r
    <3>2. SameShape
      BY <1>0, <3>1, StopShape
    <3> QED BY <1>0, <3>1, <3>2, GoesTo DEF Stages, Unstarted, disk, bounds
  <2> QED BY <2>1, <2>2
<1>2. CASE StopChat(s)
  <2>1. Leave(s) /\ UNCHANGED <<disk, up, active, bounds>>
        /\ (UNCHANGED <<worker, session>> \/ (r # NoRun /\ Stop(s, r)))
    BY <1>2 DEF StopChat, r
  <2>2. SameShape
    BY <1>0, <2>1, StopShape, SameWorkers
  <2> QED BY <1>0, <2>1, <2>2 DEF Returning, At, disk, bounds
<1> QED BY <1>1, <1>2

LEMMA EndingKind ==
  ASSUME TypeOK, NEW s \in Servers, SaveAnswer(s) \/ SaveRecovered(s) \/ SaveFails(s) PROVE Going(s) \/ Returning(s)
<1>1. CASE At(s, "saveChat")
  <2>1. SaveCopy(s, "answer") /\ UNCHANGED <<lock, up, mu, active, worker, bounds>>
    BY <1>1 DEF SaveAnswer, SaveRecovered, SaveFails, At
  <2> QED BY <1>1, <2>1, GoesTo, SameWorkers DEF SaveCopy, Stages, Unstarted, bounds
<1>2. CASE ~At(s, "saveChat")
  <2>1. mu[s] = s /\ call[s].stage # "saveRun" /\ Leave(s) /\ file' \in {file, call[s].snap}
        /\ UNCHANGED <<tree, up, active, worker, nextRun>>
    BY <1>2 DEF SaveAnswer, SaveRecovered, SaveFails, At, bounds
  <2> QED BY <2>1, SameWorkers DEF Returning
<1> QED BY <1>1, <1>2

LEMMA EnterKind == ASSUME TypeOK, NEW s \in Servers, NEW t \in Tasks, NEW op \in Actions, Enter(s, t, op) PROVE Loading(s)
<1> DEFINE st == IF op \in {"chat", "stop-chat", "snapshot"} THEN file
                 ELSE Reconciled(file, t, tasks[t], Running(s, file.wf[t], t))
           stage == IF op = "snapshot" THEN "answer" ELSE IF st = file THEN "act" ELSE "reconcile"
           c == [NoCall EXCEPT !.op = op, !.task = t, !.stage = stage, !.seen = tasks[t], !.snap = st]
<1>1. c.stage = stage /\ c.task = t /\ c.snap = st
  BY DEF NoCall
<1>2. stage \in {"act", "reconcile", "answer"}
  OBVIOUS
<1>3. Edited(st, file) \/ st = Reconciled(file, t, tasks[t], Running(s, file.wf[t], t))
  BY DEF Edited
<1>4. call' = [call EXCEPT ![s] = c] /\ mu' = [mu EXCEPT ![s] = s] /\ s \in up /\ mu[s] = Nobody
      /\ UNCHANGED <<disk, lock, up, active, session, worker, bounds>>
  BY DEF Enter, SetCall
<1> HIDE DEF c, stage, st
<1>5. call'[s] = c
  BY <1>4 DEF TypeOK
<1> QED BY <1>1, <1>2, <1>3, <1>4, <1>5 DEF Loading, disk, bounds

LEMMA AnswerKind == ASSUME TypeOK, Turns, NEW s \in Servers, Answer(s) PROVE Loading(s) \/ Returning(s)
<1> DEFINE t == T(s)
           rec == Reconciled(file, t, tasks[t], Running(s, file.wf[t], t))
           X == [file EXCEPT !.wf[t].chat = TRUE]
<1>1. t \in Tasks /\ At(s, "answer") /\ mu[s] = s /\ s \in up
  BY CallFields DEF Answer, At, Turns, Turn
<1>2. UNCHANGED <<file, tasks, tree, branches, git, up, active, session, worker, bounds>>
  BY DEF Answer
<1>3. CASE Leave(s)
  BY <1>1, <1>2, <1>3, SameWorkers DEF Returning, At, bounds
<1>4. CASE ~Leave(s)
  <2>1. Edited(X, file)
    BY <1>1 DEF Edited, TypeOK, State, Workflow
  <2>2. PICK stage \in {"saveChat", "saveAnswer"}, Y \in {X, rec} :
          /\ call' = [call EXCEPT ![s] = [call[s] EXCEPT !.stage = stage, !.snap = Y]]
          /\ UNCHANGED <<mu, lock>>
    BY <1>4 DEF Answer, SetCall
  <2> HIDE DEF X, rec
  <2> DEFINE c == [call[s] EXCEPT !.stage = stage, !.snap = Y]
  <2>3. c.stage = stage /\ c.task = t /\ c.snap = Y
    BY CallFields DEF Calls, T
  <2>4. call' = [call EXCEPT ![s] = c]
    BY <2>2
  <2> HIDE DEF c
  <2>5. call'[s] = c /\ mu' = [mu EXCEPT ![s] = s]
    BY <1>1, <2>2, <2>4 DEF TypeOK
  <2>6. Edited(Y, file) \/ Y = Reconciled(file, t, tasks[t], Running(s, file.wf[t], t))
    BY <2>1, <2>2 DEF rec
  <2> HIDE DEF t
  <2> QED BY <1>1, <1>2, <2>2, <2>3, <2>4, <2>5, <2>6 DEF Loading, bounds
<1> QED BY <1>3, <1>4

(* The steps outside of calls.                                              *)
LEMMA StepShape ==
  ASSUME TypeOK, NEW r \in Runs, worker[r].stage \in AtWork, NEW stage \in AtWork, NEW sess, NEW result,
         Step(r, stage, sess, result)
  PROVE  SameShape
<1>1. worker' = [worker EXCEPT ![r] = [worker[r] EXCEPT !.stage = stage, !.session = sess, !.result = result]]
  BY DEF Step
<1>2. worker[r] \in Worker
  BY DEF TypeOK
<1>3. worker'[r].server = worker[r].server /\ worker'[r].task = worker[r].task
      /\ worker'[r].root = worker[r].root /\ worker'[r].stage = stage
  BY <1>1, <1>2 DEF TypeOK, Worker
<1>4. \A q \in Runs : q # r => worker'[q] = worker[q]
  BY <1>1 DEF TypeOK
<1> QED BY <1>3, <1>4 DEF SameShape

LEMMA WorkKind == ASSUME TypeOK, NEW r \in Runs, EnsureSession(r) \/ PromptReturns(r) \/ ApplyResult(r) PROVE Elsewhere
<1>1. PICK stage, sess, result : stage \in AtWork /\ Step(r, stage, sess, result)
  BY DEF EnsureSession, PromptReturns, ApplyResult, AtWork
<1>2. worker[r].stage \in AtWork /\ UNCHANGED <<file, lock, up, mu, call, active, nextRun>>
  BY DEF EnsureSession, PromptReturns, ApplyResult, AtWork, disk, bounds
<1> QED BY <1>1, <1>2, StepShape DEF Elsewhere

LEMMA OthersKind ==
  ASSUME TypeOK,
         \/ \E s \in Servers, t \in Tasks : AdapterDies(s, t)
         \/ \E r \in Runs : Edit(r)
         \/ \E t \in Tasks : EditTask(t)
  PROVE  Elsewhere
<1>1. ASSUME NEW s \in Servers, NEW t \in Tasks, AdapterDies(s, t) PROVE Elsewhere
  <2>1. SameShape
    BY <1>1, WorkerFields DEF AdapterDies, SameShape, Worker
  <2> QED BY <1>1, <2>1 DEF AdapterDies, Elsewhere, disk
<1>2. ASSUME NEW r \in Runs, Edit(r) PROVE Elsewhere
  BY <1>2, SameWorkers DEF Edit, Elsewhere, memory, bounds
<1>3. ASSUME NEW t \in Tasks, EditTask(t) PROVE Elsewhere
  BY <1>3, SameWorkers DEF EditTask, Elsewhere, memory
<1> QED BY <1>1, <1>2, <1>3

LEMMA StepKinds == ASSUME TypeOK, Turns, [Next]_vars PROVE Kinds
<1>1. ASSUME NEW s \in Servers, NEW t \in Tasks, NEW op \in Actions, Enter(s, t, op) PROVE Kinds
  BY <1>1, EnterKind DEF Kinds
<1>2. ASSUME NEW s \in Servers, CallStep(s) PROVE Kinds
  <2>1. CASE Acquire(s) \/ SaveRun(s)
    BY <2>1 DEF Kinds
  <2>2. CASE ~(Acquire(s) \/ SaveRun(s))
    <3>1. Going(s) \/ Returning(s) \/ Loading(s)
      BY <1>2, <2>2, SavingKind, RefusingKind, TreeKind, GoLaunchKind, ResumeChatKind, StartChatKind, LockRootKind,
         ReviewKind, StoppingKind, AnswerKind, EndingKind DEF CallStep
    <3> QED BY <3>1 DEF Kinds
  <2> QED BY <2>1, <2>2
<1>3. ASSUME NEW r \in Runs, RunStep(r) PROVE Kinds
  BY <1>3, WorkKind DEF RunStep, Kinds
<1>4. CASE Environment
  <2>1. ASSUME NEW s \in Servers, SaveFails(s) PROVE Kinds
    BY <2>1, EndingKind DEF Kinds
  <2>2. ASSUME NEW s \in Servers, SaveRunFails(s) \/ Close(s) \/ Crash(s) \/ Exit(s) \/ Restart(s) PROVE Kinds
    BY <2>2 DEF Kinds, Dies
  <2>3. CASE \/ \E s \in Servers, t \in Tasks : AdapterDies(s, t)
             \/ \E r \in Runs : Edit(r)
             \/ \E t \in Tasks : EditTask(t)
    BY <2>3, OthersKind DEF Kinds
  <2> QED BY <1>4, <2>1, <2>2, <2>3 DEF Environment
<1>5. CASE UNCHANGED vars
  BY <1>5, SameWorkers DEF vars, disk, memory, bounds, Kinds, Elsewhere
<1> QED BY <1>1, <1>2, <1>3, <1>4, <1>5 DEF Next

-----------------------------------------------------------------------------
(* The types, as an invariant.                                              *)

LEMMA TypesStep == ASSUME TypeOK, Locks, [Next]_vars PROVE TypeOK'
<1>0. \A r \in Runs : Works(r) => worker[r].server \in Servers
  BY DEF Locks
<1>1. ASSUME NEW s \in Servers, NEW t \in Tasks, NEW op \in Actions, Enter(s, t, op) PROVE TypeOK'
  BY <1>1, EnterTypes
<1>2. ASSUME NEW s \in Servers, CallStep(s) PROVE TypeOK'
  BY <1>2, SavingTypes, RefusingTypes, TreeTypes, GoLaunchTypes, ResumeChatTypes, StartChatTypes, AcquireTypes,
     SaveRunTypes, LockRootTypes, ReviewTypes, StoppingTypes, AnswerTypes DEF CallStep
<1>3. ASSUME NEW r \in Runs, RunStep(r) PROVE TypeOK'
  <2>1. Works(r)
    BY <1>3 DEF RunStep, Works, EnsureSession, PromptReturns, ApplyResult, FinishLoad, FinishSave
  <2> QED BY <1>0, <1>3, <2>1, WorkTypes, FinishTypes DEF RunStep
<1>4. CASE Environment
  <2>1. ASSUME NEW s \in Servers, SaveRunFails(s) \/ SaveFails(s) \/ Close(s) \/ Crash(s) \/ Exit(s) \/ Restart(s)
        PROVE  TypeOK'
    BY <2>1, SaveRunTypes, ReviewTypes, ExitTypes
  <2>2. \A r \in Runs : Edit(r) => worker[r].server \in Servers
    BY <1>0 DEF Edit, Works
  <2> QED BY <1>4, <2>1, <2>2, OthersTypes DEF Environment
<1>5. CASE UNCHANGED vars
  BY <1>5 DEF vars, disk, memory, bounds, TypeOK
<1> QED BY <1>1, <1>2, <1>3, <1>4, <1>5 DEF Next

-----------------------------------------------------------------------------
(* The flocks.                                                              *)

(* Runs at work after a step were at work before it, where they were, and   *)
(* hold what they held.                                                     *)
Remain ==
  \A r \in Runs : worker'[r].stage # "none" =>
    /\ Works(r)
    /\ worker'[r].server = worker[r].server
    /\ worker'[r].task = worker[r].task
    /\ worker'[r].root = worker[r].root
    /\ lock[worker[r].root] = r => lock'[worker[r].root] = r

LEMMA LaunchedStarts ==
  ASSUME TypeOK, NEW r \in Runs, NEW stage, worker' = [worker EXCEPT ![r].stage = stage]
  PROVE  /\ worker'[r].server = worker[r].server /\ worker'[r].task = worker[r].task
         /\ worker'[r].root = worker[r].root /\ worker'[r].stage = stage
         /\ \A q \in Runs : q # r => worker'[q] = worker[q]
BY WorkerFields DEF TypeOK, Worker

LEMMA ShapeRemains ==
  ASSUME TypeOK, SameShape, \A x \in Roots, r \in Runs : lock[x] = r => lock'[x] = r
  PROVE  Remain
<1>1. \A r \in Runs : worker[r].root \in Roots
  BY WorkerFields
<1> QED BY <1>1 DEF SameShape, Remain, Works, AtWork

LEMMA CallsRemain ==
  ASSUME Inv, NEW s \in Servers, Going(s) \/ Loading(s) \/ Returning(s) \/ Close(s) \/ Restart(s)
  PROVE  Remain /\ nextRun' = nextRun
<1>0. TypeOK /\ s \notin Runs /\ Nobody \notin Runs
  BY ServersAssumption DEF Inv
<1>1. \A x \in Roots, r \in Runs : lock[x] = r => lock'[x] = r
  BY <1>0 DEF Going, Loading, Returning, Leave, Close, Restart
<1>2. SameShape
  <2>1. CASE Close(s)
    BY <1>0, <2>1, WorkerFields DEF Close, SameShape, Worker
  <2>2. CASE ~Close(s)
    BY <2>2, SameWorkers DEF Going, Loading, Returning, Restart
  <2> QED BY <2>1, <2>2
<1>3. nextRun' = nextRun
  BY DEF Going, Loading, Returning, Close, Restart, bounds
<1> QED BY <1>0, <1>1, <1>2, <1>3, ShapeRemains

LEMMA SaveRunRemains == ASSUME Inv, NEW s \in Servers, SaveRun(s) PROVE Remain /\ nextRun' = nextRun
<1>0. TypeOK /\ s \notin Runs /\ Nobody \notin Runs
  BY ServersAssumption DEF Inv
<1>1. \A x \in Roots, r \in Runs : lock[x] = r => lock'[x] = r
  BY <1>0 DEF SaveRun, Leave
<1>2. PICK r \in Runs : Launched(s, r) /\ worker' = [worker EXCEPT ![r].stage = "start"]
  BY DEF SaveRun
<1>3. \A q \in Runs : worker[q].root \in Roots
  BY <1>0, WorkerFields
<1> QED BY <1>0, <1>1, <1>2, <1>3, LaunchedStarts DEF Remain, Launched, Works, SaveRun, bounds

LEMMA FailedRemains == ASSUME Inv, NEW s \in Servers, SaveRunFails(s) PROVE Remain /\ nextRun' = nextRun
<1>0. TypeOK /\ Locks /\ s \notin Runs /\ Nobody \notin Runs
  BY ServersAssumption DEF Inv
<1>1. PICK r \in Runs : /\ Launched(s, r) /\ worker' = [worker EXCEPT ![r] = NoWorker]
                        /\ lock' = [x \in Roots |-> IF lock[x] \in {r, s} THEN Nobody ELSE lock[x]]
  BY DEF SaveRunFails
<1>2. \A q \in Runs : q # r => worker'[q] = worker[q]
  BY <1>0, <1>1 DEF TypeOK
<1>3. worker'[r].stage = "none"
  BY <1>0, <1>1 DEF TypeOK, NoWorker
<1>4. \A q \in Runs : worker[q].root \in Roots
  BY <1>0, WorkerFields
<1> QED BY <1>0, <1>1, <1>2, <1>3, <1>4 DEF Remain, Works, SaveRunFails

LEMMA DeathRemains == ASSUME Inv, NEW s \in Servers, Dies(s) PROVE Remain /\ nextRun' = nextRun
<1>0. TypeOK /\ s \notin Runs /\ Nobody \notin Runs
  BY ServersAssumption DEF Inv
<1>1. Gone(s) /\ nextRun' = nextRun
  BY DEF Dies, Crash, Exit, bounds
<1>2. \A r \in Runs : worker'[r].stage # "none" => worker'[r] = worker[r] /\ r \notin WorkersOf(s)
  BY <1>1 DEF Gone, NoWorker
<1>3. \A r \in Runs : worker[r].root \in Roots
  BY <1>0, WorkerFields
<1> QED BY <1>0, <1>1, <1>2, <1>3 DEF Remain, Works, Gone

LEMMA EndRemains == ASSUME Inv, NEW r \in Runs, FinishLoad(r) \/ FinishSave(r) PROVE Remain /\ nextRun' = nextRun
<1>0. TypeOK /\ Locks
  BY DEF Inv
<1>1. nextRun' = nextRun /\ Works(r)
  BY DEF FinishLoad, FinishSave, Works, bounds
<1>2. CASE Ended(r)
  <2>1. worker'[r].stage = "none" /\ \A q \in Runs : q # r => worker'[q] = worker[q]
    BY <1>0, <1>2 DEF Ended, TypeOK, NoWorker
  <2>2. \A q \in Runs : worker[q].root \in Roots
    BY <1>0, WorkerFields
  <2>3. \A q \in Runs : q # r /\ lock[worker[q].root] = q => lock'[worker[q].root] = q
    BY <1>0, <1>1, <1>2, <2>2 DEF Ended, TypeOK, Locks
  <2> QED BY <1>1, <2>1, <2>3 DEF Remain, Works
<1>3. CASE ~Ended(r)
  <2>1. worker' = [worker EXCEPT ![r].stage = "end"] /\ lock' = lock
    BY <1>3 DEF FinishLoad, FinishSave
  <2> QED BY <1>0, <1>1, <2>1, LaunchedStarts DEF Remain, Works
<1> QED BY <1>2, <1>3

LEMMA StepRemains == ASSUME Inv, Kinds, \A s \in Servers : ~Acquire(s) PROVE Remain /\ nextRun' = nextRun
<1>1. CASE Elsewhere
  BY <1>1, ShapeRemains DEF Elsewhere, Inv
<1> QED BY <1>1, CallsRemain, SaveRunRemains, FailedRemains, DeathRemains, EndRemains DEF Kinds

LEMMA LocksKept == ASSUME TypeOK, Locks, Remain, nextRun' = nextRun PROVE Locks'
BY DEF Locks, Remain, Works

(* The run that is started is none that was at work, in a root nobody held. *)
LEMMA Acquired ==
  ASSUME Inv, NEW s \in Servers, Acquire(s)
  PROVE  /\ nextRun \in Runs /\ nextRun' = nextRun + 1 /\ ~Works(nextRun)
         /\ worker'[nextRun].server = s /\ worker'[nextRun].task = T(s) /\ worker'[nextRun].root = RootOf(W(s), T(s))
         /\ worker'[nextRun].stage = "recorded" /\ \A r \in Runs : r # nextRun => worker'[r] = worker[r]
         /\ \A r \in Runs : Works(r) => worker[r].root # RootOf(W(s), T(s)) /\ lock'[worker[r].root] = r
         /\ lock'[RootOf(W(s), T(s))] = nextRun
<1>0. TypeOK /\ Locks /\ Nobody \notin Runs /\ RootOf(W(s), T(s)) \in Roots
  BY ServersAssumption, CallFields DEF Inv
<1>1. nextRun \in Runs /\ nextRun' = nextRun + 1
  BY <1>0 DEF Acquire, TypeOK, Runs
<1>2. ~Works(nextRun)
  BY <1>0, <1>1 DEF Locks, Runs
<1>3. worker'[nextRun] = [NoWorker EXCEPT !.server = s, !.task = T(s), !.root = RootOf(W(s), T(s)), !.stage = "recorded",
                            !.phase = Launch(call[s].op, W(s)).run, !.restore = Launch(call[s].op, W(s)).restore]
      /\ \A r \in Runs : r # nextRun => worker'[r] = worker[r]
  BY <1>0, <1>1 DEF Acquire, TypeOK
<1>4. \A r \in Runs : Works(r) => worker[r].root # RootOf(W(s), T(s)) /\ worker[r].root \in Roots
  BY <1>0, WorkerFields DEF Acquire, RootFree, Locks
<1>5. lock' = [lock EXCEPT ![RootOf(W(s), T(s))] = nextRun]
  BY DEF Acquire
<1>6. lock'[RootOf(W(s), T(s))] = nextRun /\ \A r \in Runs : Works(r) => lock'[worker[r].root] = r
  BY <1>0, <1>4, <1>5 DEF TypeOK, Locks
<1> QED BY <1>1, <1>2, <1>3, <1>4, <1>6 DEF NoWorker

LEMMA LocksStep == ASSUME Inv, Kinds PROVE Locks'
<1>1. ASSUME NEW s \in Servers, Acquire(s) PROVE Locks'
  <2>1. nextRun \in Nat
    BY DEF Inv, TypeOK
  <2>2. \A r \in Runs : Works(r) => r < nextRun /\ worker[r].server \in Servers
    BY DEF Inv, Locks
  <2>3. ASSUME NEW r \in Runs, worker'[r].stage # "none"
        PROVE  lock'[worker'[r].root] = r /\ r < nextRun' /\ worker'[r].server \in Servers
    BY <1>1, <2>1, <2>2, <2>3, Acquired DEF Works, Runs
  <2> QED BY <2>3 DEF Locks, Works
<1>2. CASE \A s \in Servers : ~Acquire(s)
  BY <1>2, StepRemains, LocksKept DEF Inv
<1> QED BY <1>1, <1>2

-----------------------------------------------------------------------------
(* The servers and their runs.                                              *)

LEMMA OtherTurn ==
  ASSUME NEW q \in Servers, Turn(q), mu'[q] = mu[q], call'[q] = call[q], mu[q] = q => q \in up',
         mu[q] \in Runs => worker'[mu[q]].stage = "end" /\ worker'[mu[q]].server = worker[mu[q]].server
  PROVE  Turn(q)'
BY DEF Turn, W, T

LEMMA FreshTurn ==
  ASSUME NEW s \in Servers, mu'[s] = Nobody, call'[s] = NoCall
  PROVE  Turn(s)'
BY ServersAssumption DEF Turn, NoCall, Unstarted

(* A seat stays while what it speaks about does.                            *)
LEMMA SameSeat ==
  ASSUME NEW r \in Runs, Seat(r), worker'[r].server = worker[r].server, worker'[r].root = worker[r].root,
         worker'[r].stage = worker[r].stage \/ {worker[r].stage, worker'[r].stage} \subseteq AtWork,
         worker[r].stage = "recorded" => /\ mu'[worker[r].server] = mu[worker[r].server]
                                         /\ call'[worker[r].server].stage = call[worker[r].server].stage,
         worker[r].stage = "end" => mu'[worker[r].server] = mu[worker[r].server],
         worker[r].stage \in AtWork /\ worker[r].server \in up' =>
           /\ worker[r].server \in up
           /\ active'[worker[r].server][worker[r].root] = active[worker[r].server][worker[r].root]
  PROVE  Seat(r)'
BY DEF Seat, At, AtWork

LEMMA IdleSeat == ASSUME NEW r \in Runs, worker'[r].stage = "none" PROVE Seat(r)'
BY DEF Seat, AtWork

LEMMA SameLaunch ==
  ASSUME OneLaunch,
         \A r \in Runs : worker'[r].stage = "recorded" =>
           worker[r].stage = "recorded" /\ worker'[r].server = worker[r].server
  PROVE  OneLaunch'
BY DEF OneLaunch

LEMMA ElsewhereSeats == ASSUME Inv, Elsewhere PROVE Turns' /\ Seats'
<1>1. \A q \in Servers : Turn(q)'
  BY OtherTurn DEF Inv, Turns, Turn, Elsewhere, SameShape, AtWork
<1>2. \A r \in Runs : Seat(r)'
  BY SameSeat DEF Inv, Seats, Elsewhere, SameShape
<1>3. OneLaunch'
  BY SameLaunch DEF Inv, Seats, Elsewhere, SameShape, AtWork
<1> QED BY <1>1, <1>2, <1>3 DEF Turns, Seats

(* A call that starts no run.                                               *)
LEMMA CallSeats ==
  ASSUME Inv, NEW s \in Servers, Going(s) \/ Loading(s) \/ Returning(s)
  PROVE  Turns' /\ Seats'
<1>0. TypeOK /\ Turns /\ Seats /\ s \notin Runs /\ Nobody \notin Runs /\ Nobody # s /\ NoCall.stage = "none"
  BY ServersAssumption DEF Inv, NoCall
<1>1. SameShape /\ UNCHANGED <<up, active, nextRun>>
  BY SameWorkers DEF Going, Loading, Returning
<1>2. mu[s] \notin Runs /\ call[s].stage # "saveRun"
  BY <1>0 DEF Going, Loading, Returning, At, Turns, Turn
<1>3. \A q \in Servers : q # s => mu'[q] = mu[q] /\ call'[q] = call[q]
  BY <1>0 DEF Going, Loading, Returning, Leave, SetCall, TypeOK
<1>4. Turn(s)'
  <2>1. CASE Returning(s)
    BY <1>0, <2>1, FreshTurn DEF Returning, Leave, SetCall, TypeOK
  <2>2. CASE Going(s)
    <3>1. mu'[s] = s /\ s \in up' /\ call'[s].stage # "none" /\ (call'[s].stage \in Unstarted => call'[s].snap.wf[call'[s].task].active = 0)
      BY <1>0, <2>2 DEF Going, Turns, Turn
    <3> QED BY <1>0, <3>1 DEF Turn, W, T
  <2>3. CASE Loading(s)
    <3>1. mu'[s] = s /\ s \in up' /\ call'[s].stage \in {"act", "reconcile", "answer", "saveChat", "saveAnswer"}
      BY <1>0, <2>3 DEF Loading, TypeOK
    <3> QED BY <1>0, <3>1 DEF Turn, Unstarted
  <2> QED BY <2>1, <2>2, <2>3
<1>5. \A q \in Servers : Turn(q)'
  BY <1>0, <1>1, <1>3, <1>4, OtherTurn DEF Turns, Turn, SameShape, AtWork
<1>6. \A r \in Runs : worker[r].stage \in {"recorded", "end"} => worker[r].server \in Servers /\ worker[r].server # s
  BY <1>0, <1>2 DEF Inv, Locks, Works, Seats, Seat, At
<1>7. \A r \in Runs : Seat(r)'
  BY <1>0, <1>1, <1>3, <1>6, SameSeat DEF Seats, SameShape
<1>8. OneLaunch'
  BY <1>0, <1>1, SameLaunch DEF Seats, SameShape, AtWork
<1> QED BY <1>5, <1>7, <1>8 DEF Turns, Seats

LEMMA AcquireSeats == ASSUME Inv, NEW s \in Servers, Acquire(s) PROVE Turns' /\ Seats'
<1>0. TypeOK /\ Turns /\ Seats /\ s \notin Runs /\ Nobody \notin Runs /\ Nobody # s
  BY ServersAssumption DEF Inv
<1>1. At(s, "launch") /\ mu' = mu /\ up' = up /\ active' = active
  BY DEF Acquire
<1>2. call'[s].stage = "saveRun" /\ \A q \in Servers : q # s => call'[q] = call[q]
  <2>1. call' = [call EXCEPT ![s] = [call[s] EXCEPT !.stage = "saveRun",
           !.snap = Started(call[s].snap, T(s), nextRun, Launch(call[s].op, W(s)), call[s].op)]]
    BY CallFields, <1>0 DEF Acquire, SetCall, Calls
  <2> QED BY <1>0, <2>1, CallFields DEF TypeOK, Calls
<1>3. \A r \in Runs : r # nextRun => worker'[r] = worker[r]
  BY Acquired
<1>4. \A r \in Runs : worker[r].stage = "recorded" => worker[r].server \in Servers /\ worker[r].server # s
  BY <1>0, <1>1 DEF Inv, Locks, Works, Seats, Seat, At
<1>5. \A q \in Servers : Turn(q)'
  <2>1. ASSUME NEW q \in Servers, mu[q] \in Runs PROVE mu[q] # nextRun
    BY <1>0, <2>1, Acquired DEF Turns, Turn, Works
  <2>2. Turn(s)'
    BY <1>0, <1>1, <1>2 DEF Turns, Turn, At, Unstarted
  <2>3. \A q \in Servers : q # s => Turn(q)'
    BY <1>0, <1>1, <1>2, <1>3, <2>1, OtherTurn DEF Turns, Turn
  <2> QED BY <2>2, <2>3
<1>6. ASSUME NEW r \in Runs PROVE Seat(r)'
  <2>1. CASE r = nextRun
    BY <1>0, <1>1, <1>2, <2>1, Acquired DEF Seat, At, AtWork
  <2>2. CASE r # nextRun
    BY <1>0, <1>1, <1>2, <1>3, <1>4, <2>2, SameSeat DEF Seats
  <2> QED BY <2>1, <2>2
<1>7. OneLaunch'
  BY <1>0, <1>3, <1>4, Acquired DEF Seats, OneLaunch
<1> QED BY <1>5, <1>6, <1>7 DEF Turns, Seats

(* The run of the call starts.                                              *)
LEMMA SaveRunSeats == ASSUME Inv, NEW s \in Servers, SaveRun(s) PROVE Turns' /\ Seats'
<1>0. TypeOK /\ Turns /\ Seats /\ Locks /\ s \notin Runs /\ Nobody \notin Runs /\ Nobody # s
  BY ServersAssumption DEF Inv
<1>1. PICK r \in Runs : Launched(s, r) /\ active' = [active EXCEPT ![s][worker[r].root] = r]
                        /\ worker' = [worker EXCEPT ![r].stage = "start"]
  BY DEF SaveRun
<1>2. worker'[r].server = s /\ worker'[r].root = worker[r].root /\ worker'[r].stage = "start"
      /\ (\A q \in Runs : q # r => worker'[q] = worker[q]) /\ worker[r].root \in Roots /\ worker[r].server = s
      /\ worker[r].stage = "recorded"
  BY <1>0, <1>1, LaunchedStarts, WorkerFields DEF Launched
<1>3. mu[s] = s /\ call[s].stage = "saveRun" /\ up' = up
  BY DEF SaveRun, At
<1>4. \A q \in Servers : q # s => mu'[q] = mu[q] /\ call'[q] = call[q]
  BY <1>0 DEF SaveRun, Leave, SaveCopy, GoTo, SetCall, TypeOK
<1>5. Turn(s)'
  <2>1. CASE Leave(s)
    BY <1>0, <2>1, FreshTurn DEF Leave, SetCall, TypeOK
  <2>2. CASE ~Leave(s)
    <3>1. GoTo(s, "answer") /\ mu' = mu
      BY <2>2 DEF SaveRun, SaveCopy
    <3>2. call'[s].stage = "answer"
      BY <1>0, <3>1, CallFields DEF GoTo, SetCall, TypeOK, Calls
    <3> QED BY <1>0, <1>3, <3>1, <3>2 DEF Turns, Turn, Unstarted
  <2> QED BY <2>1, <2>2
<1>6. \A q \in Servers : Turn(q)'
  <2>1. ASSUME NEW q \in Servers, q # s PROVE Turn(q)'
    <3>1. mu[q] \in Runs => worker[mu[q]].stage = "end" /\ mu[q] # r
      BY <1>0, <1>2 DEF Turns, Turn
    <3> QED BY <1>0, <1>2, <1>3, <1>4, <2>1, <3>1, OtherTurn DEF Turns, Turn
  <2> QED BY <1>5, <2>1
<1>7. active'[s][worker[r].root] = r
  BY <1>0, <1>1, <1>2 DEF TypeOK
<1>8. ASSUME NEW q \in Runs, q # r, Works(q)
      PROVE  /\ worker[q].root # worker[r].root /\ worker[q].server \in Servers
             /\ worker[q].stage \in {"recorded", "end"} => worker[q].server # s
             /\ active'[worker[q].server][worker[q].root] = active[worker[q].server][worker[q].root]
  <2>1. worker[q].root # worker[r].root /\ worker[q].server \in Servers
    BY <1>0, <1>2, <1>8 DEF Locks, Works
  <2>2. worker[q].stage \in {"recorded", "end"} => worker[q].server # s
    BY <1>0, <1>2, <1>3, <1>8 DEF Seats, Seat, OneLaunch
  <2>3. active'[worker[q].server][worker[q].root] = active[worker[q].server][worker[q].root]
    BY <1>0, <1>1, <2>1, WorkerFields DEF TypeOK
  <2> QED BY <2>1, <2>2, <2>3
<1>9. ASSUME NEW q \in Runs PROVE Seat(q)'
  <2>1. CASE q = r
    BY <1>2, <1>7, <2>1 DEF Seat
  <2>2. CASE q # r
    <3>1. CASE Works(q)
      BY <1>0, <1>2, <1>3, <1>4, <1>8, <2>2, <3>1, SameSeat DEF Seats
    <3>2. CASE ~Works(q)
      BY <1>2, <2>2, <3>2, IdleSeat DEF Works
    <3> QED BY <3>1, <3>2
  <2> QED BY <2>1, <2>2
<1>10. OneLaunch'
  BY <1>0, <1>2, SameLaunch DEF Seats
<1> QED BY <1>6, <1>9, <1>10 DEF Turns, Seats

(* The call fails: its run is forgotten.                                    *)
LEMMA FailedSeats == ASSUME Inv, NEW s \in Servers, SaveRunFails(s) PROVE Turns' /\ Seats'
<1>0. TypeOK /\ Turns /\ Seats /\ Locks /\ s \notin Runs /\ Nobody \notin Runs /\ Nobody # s
  BY ServersAssumption DEF Inv
<1>1. PICK r \in Runs : Launched(s, r) /\ worker' = [worker EXCEPT ![r] = NoWorker]
  BY DEF SaveRunFails
<1>2. worker'[r].stage = "none" /\ \A q \in Runs : q # r => worker'[q] = worker[q]
  BY <1>0, <1>1 DEF TypeOK, NoWorker
<1>3. mu[s] = s /\ mu'[s] = Nobody /\ call'[s] = NoCall /\ up' = up /\ active' = active
      /\ \A q \in Servers : q # s => mu'[q] = mu[q] /\ call'[q] = call[q]
  BY <1>0 DEF SaveRunFails, At, SetCall, TypeOK
<1>4. ASSUME NEW q \in Servers PROVE Turn(q)'
  <2>1. CASE q = s
    BY <1>3, <2>1, FreshTurn
  <2>2. CASE q # s
    <3>1. mu[q] \in Runs => worker[mu[q]].stage = "end" /\ mu[q] # r
      BY <1>0, <1>1 DEF Turns, Turn, Launched
    <3> QED BY <1>0, <1>2, <1>3, <2>2, <3>1, OtherTurn DEF Turns, Turn
  <2> QED BY <2>1, <2>2
<1>5. \A q \in Runs : q # r /\ worker[q].stage \in {"recorded", "end"} => worker[q].server \in Servers /\ worker[q].server # s
  BY <1>0, <1>1, <1>3 DEF Seats, Seat, OneLaunch, Launched, Locks, Works
<1>6. ASSUME NEW q \in Runs PROVE Seat(q)'
  <2>1. CASE q = r
    BY <1>2, <2>1, IdleSeat
  <2>2. CASE q # r
    BY <1>0, <1>2, <1>3, <1>5, <2>2, SameSeat DEF Seats
  <2> QED BY <2>1, <2>2
<1>7. OneLaunch'
  BY <1>0, <1>2, SameLaunch DEF Seats
<1> QED BY <1>4, <1>6, <1>7 DEF Turns, Seats

(* A run takes Manager.mu to record its end, or gives its server up.        *)
LEMMA FinishLoadSeats == ASSUME Inv, NEW r \in Runs, FinishLoad(r) PROVE Turns' /\ Seats'
<1> DEFINE s == worker[r].server
<1>0. TypeOK /\ Turns /\ Seats /\ Locks /\ s \in Servers /\ s \notin Runs /\ Nobody \notin Runs /\ Nobody # s
  BY ServersAssumption DEF Inv, Locks, Works, FinishLoad
<1>1. worker[r].stage = "finish" /\ mu[s] = Nobody /\ up' = up /\ worker[r].root \in Roots
      /\ active' = [active EXCEPT ![s][worker[r].root] = NoRun]
  BY <1>0, WorkerFields DEF FinishLoad
<1>2. \/ ~Works(r)' /\ mu'[s] = Nobody /\ call'[s] = NoCall
      \/ /\ worker'[r].stage = "end" /\ worker'[r].server = s /\ worker'[r].root = worker[r].root
         /\ mu'[s] = r /\ call'[s].stage = "none"
  <2>1. CASE Ended(r)
    BY <1>0, <2>1 DEF Ended, SetCall, TypeOK, NoWorker, Works
  <2>2. CASE ~Ended(r)
    <3>1. worker' = [worker EXCEPT ![r].stage = "end"] /\ mu' = [mu EXCEPT ![s] = r]
          /\ call' = [call EXCEPT ![s] = [NoCall EXCEPT !.task = worker[r].task,
               !.snap = Finished(file, worker[r].task, r, worker[r].phase, worker[r].restore, worker[r].result,
                                 worker[r].session # "none")]]
      BY <2>2 DEF FinishLoad, SetCall
    <3>2. call'[s].stage = "none" /\ mu'[s] = r
      BY <1>0, <3>1 DEF TypeOK, NoCall
    <3> QED BY <1>0, <3>1, <3>2, LaunchedStarts
  <2> QED BY <2>1, <2>2
<1>3. \A q \in Runs : q # r => worker'[q] = worker[q]
  BY <1>0 DEF FinishLoad, Ended, TypeOK
<1>4. \A q \in Servers : q # s => mu'[q] = mu[q] /\ call'[q] = call[q]
  BY <1>0 DEF FinishLoad, Ended, SetCall, TypeOK
<1>5. ASSUME NEW q \in Servers PROVE Turn(q)'
  <2>1. CASE q = s
    BY <1>0, <1>2, <2>1, FreshTurn DEF Turn, Unstarted
  <2>2. CASE q # s
    <3>1. mu[q] \in Runs => worker[mu[q]].stage = "end" /\ mu[q] # r
      BY <1>0, <1>1 DEF Turns, Turn
    <3> QED BY <1>0, <1>1, <1>3, <1>4, <2>2, <3>1, OtherTurn DEF Turns, Turn
  <2> QED BY <2>1, <2>2
<1>6. ASSUME NEW q \in Runs, q # r, Works(q)
      PROVE  /\ worker[q].root # worker[r].root /\ worker[q].server \in Servers
             /\ worker[q].stage \in {"recorded", "end"} => worker[q].server # s
             /\ active'[worker[q].server][worker[q].root] = active[worker[q].server][worker[q].root]
  <2>1. worker[q].root # worker[r].root /\ worker[q].server \in Servers
    BY <1>0, <1>1, <1>6 DEF Locks, Works
  <2>2. worker[q].stage \in {"recorded", "end"} => worker[q].server # s
    BY <1>0, <1>1 DEF Seats, Seat, At
  <2>3. active'[worker[q].server][worker[q].root] = active[worker[q].server][worker[q].root]
    BY <1>0, <1>1, <2>1, WorkerFields DEF TypeOK
  <2> QED BY <2>1, <2>2, <2>3
<1>7. ASSUME NEW q \in Runs PROVE Seat(q)'
  <2>1. CASE q = r
    <3>1. CASE Works(r)'
      BY <1>2, <2>1, <3>1 DEF Seat, AtWork
    <3>2. CASE ~Works(r)'
      BY <2>1, <3>2, IdleSeat DEF Works
    <3> QED BY <3>1, <3>2
  <2>2. CASE q # r
    <3>1. CASE Works(q)
      BY <1>0, <1>1, <1>3, <1>4, <1>6, <2>2, <3>1, SameSeat DEF Seats
    <3>2. CASE ~Works(q)
      BY <1>3, <2>2, <3>2, IdleSeat DEF Works
    <3> QED BY <3>1, <3>2
  <2> QED BY <2>1, <2>2
<1>8. OneLaunch'
  BY <1>0, <1>2, <1>3, SameLaunch DEF Seats, Works
<1> QED BY <1>5, <1>7, <1>8 DEF Turns, Seats

LEMMA FinishSaveSeats == ASSUME Inv, NEW r \in Runs, FinishSave(r) PROVE Turns' /\ Seats'
<1> DEFINE s == worker[r].server
<1>0. TypeOK /\ Turns /\ Seats /\ Locks /\ s \in Servers /\ s \notin Runs /\ Nobody \notin Runs /\ Nobody # s
  BY ServersAssumption DEF Inv, Locks, Works, FinishSave
<1>1. worker[r].stage = "end" /\ mu[s] = r /\ up' = up /\ active' = active /\ Ended(r)
  BY <1>0 DEF FinishSave, Seats, Seat
<1>2. worker'[r].stage = "none" /\ mu'[s] = Nobody /\ call'[s] = NoCall
      /\ (\A q \in Runs : q # r => worker'[q] = worker[q])
      /\ (\A q \in Servers : q # s => mu'[q] = mu[q] /\ call'[q] = call[q])
  BY <1>0, <1>1 DEF Ended, SetCall, TypeOK, NoWorker
<1>3. ASSUME NEW q \in Servers PROVE Turn(q)'
  <2>1. CASE q = s
    BY <1>2, <2>1, FreshTurn
  <2>2. CASE q # s
    <3>1. mu[q] \in Runs => worker[mu[q]].stage = "end" /\ mu[q] # r
      BY <1>0, <2>2 DEF Turns, Turn
    <3> QED BY <1>0, <1>1, <1>2, <2>2, <3>1, OtherTurn DEF Turns, Turn
  <2> QED BY <2>1, <2>2
<1>4. \A q \in Runs : q # r /\ worker[q].stage \in {"recorded", "end"} => worker[q].server \in Servers /\ worker[q].server # s
  BY <1>0, <1>1 DEF Seats, Seat, At, Locks, Works
<1>5. ASSUME NEW q \in Runs PROVE Seat(q)'
  <2>1. CASE q = r
    BY <1>2, <2>1, IdleSeat
  <2>2. CASE q # r
    BY <1>0, <1>1, <1>2, <1>4, <2>2, SameSeat DEF Seats
  <2> QED BY <2>1, <2>2
<1>6. OneLaunch'
  BY <1>0, <1>2, SameLaunch DEF Seats
<1> QED BY <1>3, <1>5, <1>6 DEF Turns, Seats

LEMMA CloseSeats == ASSUME Inv, NEW s \in Servers, Close(s) PROVE Turns' /\ Seats'
<1>0. TypeOK /\ Turns /\ Seats /\ Locks /\ Nobody # s
  BY ServersAssumption DEF Inv
<1>1. mu[s] = Nobody /\ mu' = mu /\ call' = call /\ up' = up \ {s} /\ active' = [active EXCEPT ![s] = [x \in Roots |-> NoRun]]
  BY DEF Close
<1>2. \A r \in Runs : worker'[r].stage = worker[r].stage /\ worker'[r].server = worker[r].server /\ worker'[r].root = worker[r].root
  BY <1>0, WorkerFields DEF Close, Worker
<1>3. \A q \in Servers : Turn(q)'
  BY <1>0, <1>1, <1>2, OtherTurn DEF Turns, Turn
<1>4. \A q \in Servers : q # s => active'[q] = active[q]
  BY <1>0, <1>1 DEF TypeOK
<1>5. \A r \in Runs : worker[r].server \in up' => worker[r].server \in up /\ worker[r].server \in Servers /\ worker[r].server # s
  BY <1>0, <1>1 DEF TypeOK
<1>6. \A r \in Runs : Seat(r)'
  BY <1>0, <1>1, <1>2, <1>4, <1>5, SameSeat DEF Seats
<1>7. OneLaunch'
  BY <1>0, <1>2, SameLaunch DEF Seats
<1> QED BY <1>3, <1>6, <1>7 DEF Turns, Seats

LEMMA DeathSeats == ASSUME Inv, NEW s \in Servers, Dies(s) PROVE Turns' /\ Seats'
<1>0. TypeOK /\ Turns /\ Seats /\ Locks /\ Nobody # s
  BY ServersAssumption DEF Inv
<1>1. Gone(s) /\ up' = up \ {s}
  BY DEF Dies, Crash, Exit
<1>2. mu'[s] = Nobody /\ call'[s] = NoCall
      /\ \A q \in Servers : q # s => mu'[q] = mu[q] /\ call'[q] = call[q] /\ active'[q] = active[q]
  BY <1>0, <1>1 DEF Gone, SetCall, TypeOK
<1>3. \A r \in Runs : IF worker[r].server = s THEN worker'[r].stage = "none" ELSE worker'[r] = worker[r]
  BY <1>1 DEF Gone, WorkersOf, NoWorker
<1>4. ASSUME NEW q \in Servers PROVE Turn(q)'
  <2>1. CASE q = s
    BY <1>2, <2>1, FreshTurn
  <2>2. CASE q # s
    <3>1. mu[q] \in Runs => worker[mu[q]].stage = "end" /\ worker[mu[q]].server = q
      BY <1>0 DEF Turns, Turn
    <3>2. mu[q] = q => q \in up'
      BY <1>0, <1>1, <2>2 DEF Turns, Turn
    <3> QED BY <1>0, <1>2, <1>3, <2>2, <3>1, <3>2, OtherTurn DEF Turns
  <2> QED BY <2>1, <2>2
<1>5. ASSUME NEW r \in Runs PROVE Seat(r)'
  <2>1. CASE worker[r].server = s \/ ~Works(r)
    BY <1>3, <2>1, IdleSeat DEF Works
  <2>2. CASE worker[r].server # s /\ Works(r)
    <3>1. worker[r].server \in Servers
      BY <1>0, <2>2 DEF Locks
    <3> QED BY <1>0, <1>1, <1>2, <1>3, <2>2, <3>1, SameSeat DEF Seats
  <2> QED BY <2>1, <2>2
<1>6. OneLaunch'
  BY <1>0, <1>3, SameLaunch DEF Seats
<1> QED BY <1>4, <1>5, <1>6 DEF Turns, Seats

LEMMA RestartSeats == ASSUME Inv, NEW s \in Servers, Restart(s) PROVE Turns' /\ Seats'
<1>0. TypeOK /\ Turns /\ Seats /\ Locks /\ Nobody # s /\ s \notin Runs /\ Nobody \notin Runs
  BY ServersAssumption DEF Inv
<1>1. up' = up \cup {s} /\ WorkersOf(s) = {} /\ worker' = worker /\ active' = active
  BY DEF Restart
<1>2. \A q \in Servers : q # s => mu'[q] = mu[q] /\ call'[q] = call[q]
  BY <1>0 DEF Restart, SetCall, TypeOK
<1>3. UNCHANGED <<mu, call>> \/ (mu'[s] = s /\ call'[s].stage = "recover")
  <2> DEFINE c == [NoCall EXCEPT !.op = "recover", !.stage = "recover", !.snap = Interrupted(file)]
  <2>1. c.stage = "recover"
    BY DEF NoCall
  <2>2. UNCHANGED <<mu, call>> \/ (mu' = [mu EXCEPT ![s] = s] /\ call' = [call EXCEPT ![s] = c])
    BY DEF Restart, SetCall
  <2> HIDE DEF c
  <2> QED BY <1>0, <2>1, <2>2 DEF TypeOK
<1>4. ASSUME NEW q \in Servers PROVE Turn(q)'
  <2>1. CASE UNCHANGED <<mu, call>>
    BY <1>0, <1>1, <2>1, OtherTurn DEF Turns, Turn
  <2>2. CASE q # s
    BY <1>0, <1>1, <1>2, <2>2, OtherTurn DEF Turns, Turn
  <2>3. CASE q = s /\ mu'[s] = s /\ call'[s].stage = "recover"
    BY <1>0, <1>1, <2>3 DEF Turn, Unstarted
  <2> QED BY <1>3, <2>1, <2>2, <2>3
<1>5. \A r \in Runs : worker[r].server # s
  BY <1>1 DEF WorkersOf
<1>6. ASSUME NEW r \in Runs PROVE Seat(r)'
  <2>1. CASE Works(r)
    <3>1. worker[r].server \in Servers
      BY <1>0, <2>1 DEF Locks
    <3> QED BY <1>0, <1>1, <1>2, <1>5, <3>1, SameSeat DEF Seats
  <2>2. CASE ~Works(r)
    BY <1>1, <2>2, IdleSeat DEF Works
  <2> QED BY <2>1, <2>2
<1>7. OneLaunch'
  BY <1>0, <1>1, SameLaunch DEF Seats
<1> QED BY <1>4, <1>6, <1>7 DEF Turns, Seats

LEMMA SeatsStep == ASSUME Inv, Kinds PROVE Turns' /\ Seats'
BY ElsewhereSeats, CallSeats, AcquireSeats, SaveRunSeats, FailedSeats, FinishLoadSeats, FinishSaveSeats, CloseSeats,
   DeathSeats, RestartSeats DEF Kinds

-----------------------------------------------------------------------------
(* The copies of the state.                                                 *)

Follows(Y, X) ==
  \A t \in Tasks : Y.wf[t].active = 0 \/ (Y.wf[t].active = X.wf[t].active /\ Y.wf[t].worktree = X.wf[t].worktree)

LEMMA EditedFollows == ASSUME NEW X, NEW Y, Edited(Y, X) PROVE Follows(Y, X)
BY DEF Edited, Follows

LEMMA ReconciledFollows ==
  ASSUME NEW X \in State, NEW t \in Tasks, NEW task, NEW run
  PROVE  Follows(Reconciled(X, t, task, run), X)
<1> DEFINE w == X.wf[t]
           lost == w.active # 0 /\ run # w.active
           a == IF lost THEN 0 ELSE w.active
           p == IF a = 0 /\ w.phase \in {"investigating", "implementing"}
                THEN DefaultPhase(task, w) ELSE w.phase
           q == IF task.status = "done" THEN "completed"
                ELSE IF a = 0 /\ p = "idle" /\ task.plan THEN "plan-review" ELSE p
<1>1. Reconciled(X, t, task, run).wf = [X.wf EXCEPT ![t].active = a, ![t].phase = q]
  BY DEF Reconciled
<1>2. a = 0 \/ a = X.wf[t].active
  OBVIOUS
<1> HIDE DEF a, q
<1>3. \A u \in Tasks : X.wf[u] \in Workflow
  BY DEF State
<1>4. [X.wf EXCEPT ![t].active = a, ![t].phase = q] = [X.wf EXCEPT ![t] = [X.wf[t] EXCEPT !.active = a, !.phase = q]]
  BY DEF State
<1> DEFINE v == [X.wf[t] EXCEPT !.active = a, !.phase = q]
<1>5. v.active = a /\ v.worktree = X.wf[t].worktree
  BY <1>3 DEF Workflow
<1>6. Reconciled(X, t, task, run).wf = [X.wf EXCEPT ![t] = v]
  BY <1>1, <1>4
<1> HIDE DEF v
<1> QED BY <1>2, <1>5, <1>6 DEF Follows, State

LEMMA FinishedFollows ==
  ASSUME NEW X \in State, NEW t \in Tasks, NEW r, NEW phase, NEW restore, NEW result, NEW known
  PROVE  /\ Follows(Finished(X, t, r, phase, restore, result, known), X)
         /\ Finished(X, t, r, phase, restore, result, known).wf[t].active = 0
         /\ \A u \in Tasks : u # t => Finished(X, t, r, phase, restore, result, known).wf[u] = X.wf[u]
<1> DEFINE after ==
             CASE result = "cancelled" -> restore
               [] result = "failed" -> "interrupted"
               [] result = "ok" /\ phase = "investigation" -> "plan-review"
               [] result = "ok" /\ phase \in {"implementation", "fix"} -> "code-review"
               [] OTHER -> X.wf[t].phase
           v == [X.wf[t] EXCEPT !.active = 0, !.phase = after, !.session = @ \/ known,
                   !.resume = IF result = "failed" THEN phase ELSE @]
<1>1. Finished(X, t, r, phase, restore, result, known).wf = [X.wf EXCEPT ![t] = v]
  BY DEF Finished
<1> HIDE DEF after
<1>2. v.active = 0
  <2>1. X.wf[t] \in Workflow
    BY DEF State
  <2> QED BY <2>1 DEF Workflow
<1> HIDE DEF v
<1> QED BY <1>1, <1>2 DEF Follows, State

LEMMA InterruptedFollows == ASSUME NEW X \in State PROVE Follows(Interrupted(X), X)
<1> DEFINE hit == {r \in DOMAIN X.runs : X.runs[r].status = "running"}
           of(t) == {r \in hit : X.runs[r].task = t}
           last(t) == CHOOSE r \in of(t) : \A q \in of(t) : q <= r
           lost(t) == [X.wf[t] EXCEPT !.active = 0, !.phase = "interrupted", !.resume = X.runs[last(t)].phase]
<1>1. Interrupted(X).wf = [t \in Tasks |-> IF of(t) = {} THEN X.wf[t] ELSE lost(t)]
  BY DEF Interrupted
<1> HIDE DEF of, last
<1>2. ASSUME NEW t \in Tasks PROVE lost(t).active = 0
  <2>1. X.wf[t] \in Workflow
    BY DEF State
  <2> QED BY <2>1 DEF Workflow
<1> HIDE DEF lost
<1> QED BY <1>1, <1>2 DEF Follows

LEMMA CopyFollows ==
  ASSUME NEW X, NEW Y, NEW workers, NEW n \in Nat, n > 0, CopyOK(X, workers, n), Follows(Y, X)
  PROVE  CopyOK(Y, workers, n)
<1>1. ASSUME NEW t \in Tasks
      PROVE  /\ Y.wf[t].active < n
             /\ \A r \in Runs : Y.wf[t].active = r /\ workers[r].stage # "none" =>
                  workers[r].task = t /\ workers[r].root = RootOf(Y.wf[t], t)
  <2>1. CASE Y.wf[t].active = 0
    BY <2>1 DEF Runs
  <2>2. CASE Y.wf[t].active # 0
    <3>1. Y.wf[t].active = X.wf[t].active /\ RootOf(Y.wf[t], t) = RootOf(X.wf[t], t)
      BY <2>2 DEF Follows, RootOf
    <3> QED BY <3>1 DEF CopyOK
  <2> QED BY <2>1, <2>2
<1> QED BY <1>1 DEF CopyOK

LEMMA NewCopy == ASSUME NEW workers, NEW n \in Nat, n > 0 PROVE CopyOK(NoCall.snap, workers, n)
BY DEF CopyOK, NoCall, NewWorkflow, Runs

LEMMA CopyRemains ==
  ASSUME NEW X, CopyOK(X, worker, nextRun), Remain, nextRun' = nextRun
  PROVE  CopyOK(X, worker', nextRun')
BY DEF CopyOK, Remain, Works

(* Every copy after a step is the file, a copy or a fresh copy of before,   *)
(* with workflows edited or ended.                                          *)
Handed ==
  /\ file' = file \/ \E s \in Servers : file' = call[s].snap
  /\ \A s \in Servers : \/ Follows(call'[s].snap, file)
                        \/ Follows(call'[s].snap, call[s].snap)
                        \/ call'[s].snap = NoCall.snap

LEMMA HandedCopies == ASSUME Inv, Remain, nextRun' = nextRun, Handed PROVE Copies'
<1>0. nextRun \in Nat /\ nextRun > 0 /\ Copies
  BY DEF Inv, TypeOK
<1>1. \A X : CopyOK(X, worker, nextRun) => CopyOK(X, worker', nextRun')
  BY CopyRemains
<1>2. CopyOK(file', worker, nextRun)
  BY <1>0 DEF Handed, Copies
<1>3. ASSUME NEW s \in Servers PROVE CopyOK(call'[s].snap, worker, nextRun)
  BY <1>0, CopyFollows, NewCopy DEF Handed, Copies
<1> QED BY <1>1, <1>2, <1>3 DEF Copies

LEMMA SelfFollows == ASSUME NEW X PROVE Follows(X, X)
BY DEF Follows

LEMMA OneHanded ==
  ASSUME NEW s \in Servers, file' = file \/ \E q \in Servers : file' = call[q].snap,
         \A q \in Servers : q # s => call'[q] = call[q],
         \/ Follows(call'[s].snap, file)
         \/ Follows(call'[s].snap, call[s].snap)
         \/ call'[s].snap = NoCall.snap
  PROVE  Handed
BY SelfFollows DEF Handed

LEMMA CallHanded == ASSUME Inv, TypeOK', NEW s \in Servers, Going(s) \/ Loading(s) \/ Returning(s) \/ SaveRun(s) PROVE Handed
<1>0. TypeOK
  BY DEF Inv
<1>1. \A q \in Servers : q # s => call'[q] = call[q]
  BY <1>0 DEF Going, Loading, Returning, SaveRun, SaveCopy, GoTo, Leave, SetCall, TypeOK
<1>2. file' \in {file, call[s].snap}
  BY DEF Going, Loading, Returning, SaveRun, SaveCopy
<1>3. CASE Leave(s)
  <2>1. call'[s].snap = NoCall.snap
    BY <1>0, <1>3 DEF Leave, SetCall, TypeOK
  <2> QED BY <1>1, <1>2, <2>1, OneHanded
<1>4. CASE Going(s)
  BY <1>1, <1>2, <1>4, EditedFollows, OneHanded DEF Going
<1>5. CASE Loading(s)
  <2>1. Follows(call'[s].snap, file)
    <3>1. CASE Edited(call'[s].snap, file)
      BY <3>1, EditedFollows
    <3>2. CASE ~Edited(call'[s].snap, file)
      <4> DEFINE t == call'[s].task
      <4>1. call'[s].snap = Reconciled(file, t, tasks[t], Running(s, file.wf[t], t))
        BY <1>5, <3>2 DEF Loading
      <4>2. file \in State
        BY <1>0 DEF TypeOK
      <4>3. t \in Tasks
        <5>1. call'[s] \in Calls
          BY DEF TypeOK
        <5> QED BY <5>1 DEF Calls
      <4> HIDE DEF t
      <4> QED BY <4>1, <4>2, <4>3, ReconciledFollows
    <3> QED BY <3>1, <3>2
  <2> QED BY <1>1, <1>2, <2>1, OneHanded
<1>6. CASE SaveRun(s) /\ ~Leave(s)
  <2>1. call'[s].snap = call[s].snap
    BY <1>0, <1>6, CallFields DEF SaveRun, SaveCopy, GoTo, SetCall, TypeOK, Calls
  <2> QED BY <1>1, <1>2, <2>1, SelfFollows, OneHanded
<1> QED BY <1>3, <1>4, <1>5, <1>6 DEF Returning

LEMMA OthersHanded ==
  ASSUME Inv, NEW s \in Servers, SaveRunFails(s) \/ Close(s) \/ Dies(s) \/ Restart(s) PROVE Handed
<1>0. TypeOK
  BY DEF Inv
<1>1. file' = file /\ \A q \in Servers : q # s => call'[q] = call[q]
  BY <1>0 DEF SaveRunFails, Close, Dies, Crash, Exit, Gone, Restart, SetCall, TypeOK, disk
<1>2. CASE Restart(s)
  <2> DEFINE X == Interrupted(file)
             c == [NoCall EXCEPT !.op = "recover", !.stage = "recover", !.snap = X]
  <2>1. c.snap = X
    BY DEF NoCall
  <2>2. Follows(X, file)
    BY <1>0, InterruptedFollows DEF TypeOK
  <2>3. call' = call \/ call' = [call EXCEPT ![s] = c]
    BY <1>2 DEF Restart, SetCall
  <2> HIDE DEF c, X
  <2> QED BY <1>0, <1>1, <2>1, <2>2, <2>3, SelfFollows, OneHanded DEF TypeOK
<1>3. CASE ~Restart(s)
  <2>1. call' = call \/ call' = [call EXCEPT ![s] = NoCall]
    BY <1>3 DEF SaveRunFails, Close, Dies, Crash, Exit, Gone, SetCall
  <2> QED BY <1>0, <1>1, <2>1, SelfFollows, OneHanded DEF TypeOK
<1> QED BY <1>2, <1>3

LEMMA EndHanded == ASSUME Inv, NEW r \in Runs, FinishLoad(r) \/ FinishSave(r) PROVE Handed
<1> DEFINE s == worker[r].server
           X == Finished(file, worker[r].task, r, worker[r].phase, worker[r].restore, worker[r].result,
                         worker[r].session # "none")
           c == [NoCall EXCEPT !.task = worker[r].task, !.snap = X]
<1>0. TypeOK /\ s \in Servers /\ worker[r].task \in Tasks
  BY WorkerFields DEF Inv, Locks, Works, FinishLoad, FinishSave
<1>1. c.snap = X
  BY DEF NoCall
<1>2. Follows(X, file)
  BY <1>0, FinishedFollows DEF TypeOK
<1>3. call' = [call EXCEPT ![s] = c] \/ call' = [call EXCEPT ![s] = NoCall]
  BY DEF FinishLoad, FinishSave, Ended, SetCall
<1>4. file' \in {file, call[s].snap}
  BY DEF FinishLoad, FinishSave, disk
<1> HIDE DEF c, X
<1>5. \A q \in Servers : q # s => call'[q] = call[q]
  BY <1>0, <1>3 DEF TypeOK
<1>6. Follows(call'[s].snap, file) \/ call'[s].snap = NoCall.snap
  BY <1>0, <1>1, <1>2, <1>3 DEF TypeOK
<1> HIDE DEF s
<1> QED BY <1>0, <1>4, <1>5, <1>6, OneHanded

LEMMA AcquireCopies == ASSUME Inv, NEW s \in Servers, Acquire(s) PROVE Copies'
<1> DEFINE l == Launch(call[s].op, W(s))
           X == call[s].snap
           w == [X.wf[T(s)] EXCEPT
                   !.active = nextRun, !.phase = l.phase, !.chat = TRUE,
                   !.resume = IF call[s].op = "chat" THEN @ ELSE "none",
                   !.feedback = IF l.run = "investigation" THEN FALSE ELSE @]
           Y == Started(X, T(s), nextRun, l, call[s].op)
<1>0. TypeOK /\ nextRun \in Nat /\ nextRun > 0 /\ Copies /\ Locks /\ T(s) \in Tasks /\ X \in State
  BY CallFields DEF Inv, TypeOK
<1>1. Y.wf = [X.wf EXCEPT ![T(s)] = w]
  BY DEF Started
<1>2. w.active = nextRun /\ w.worktree = X.wf[T(s)].worktree
  <2>1. X.wf[T(s)] \in Workflow
    BY <1>0 DEF State
  <2> HIDE DEF X, l
  <2> QED BY <2>1 DEF Workflow
<1>3. call' = [call EXCEPT ![s] = [call[s] EXCEPT !.stage = "saveRun", !.snap = Y]] /\ file' = file
  BY DEF Acquire, SetCall
<1> HIDE DEF w, Y
<1>4. call'[s].snap = Y /\ \A q \in Servers : q # s => call'[q] = call[q]
  BY <1>0, <1>3, CallFields DEF TypeOK, Calls
<1>5. RootOf(w, T(s)) = RootOf(W(s), T(s))
  BY <1>2 DEF RootOf, W
<1>6. ASSUME NEW Z \in State, CopyOK(Z, worker, nextRun) PROVE CopyOK(Z, worker', nextRun')
  <2>1. ASSUME NEW t \in Tasks PROVE Z.wf[t].active < nextRun'
    <3>1. Z.wf[t] \in Workflow
      BY DEF State
    <3>2. Z.wf[t].active \in Nat
      BY <3>1 DEF Workflow, NoRun, Runs
    <3> QED BY <1>0, <1>6, <3>2, Acquired DEF CopyOK
  <2>2. ASSUME NEW t \in Tasks, NEW r \in Runs, Z.wf[t].active = r, worker'[r].stage # "none"
        PROVE  worker'[r].task = t /\ worker'[r].root = RootOf(Z.wf[t], t)
    <3>1. r # nextRun
      BY <1>0, <1>6, <2>2 DEF CopyOK
    <3> QED BY <1>6, <2>2, <3>1, Acquired DEF CopyOK
  <2> QED BY <2>1, <2>2 DEF CopyOK
<1>7. CopyOK(Y, worker', nextRun')
  <2>1. CopyOK(X, worker', nextRun')
    BY <1>0, <1>6 DEF Copies
  <2>2. ASSUME NEW t \in Tasks
        PROVE  /\ Y.wf[t].active < nextRun'
               /\ \A r \in Runs : Y.wf[t].active = r /\ worker'[r].stage # "none" =>
                    worker'[r].task = t /\ worker'[r].root = RootOf(Y.wf[t], t)
    <3>1. CASE t = T(s)
      <4>1. Y.wf[t] = w
        BY <1>0, <1>1, <3>1 DEF State
      <4> QED BY <1>0, <1>2, <1>5, <3>1, <4>1, Acquired
    <3>2. CASE t # T(s)
      <4>1. Y.wf[t] = X.wf[t]
        BY <1>0, <1>1, <3>2 DEF State
      <4> QED BY <2>1, <4>1 DEF CopyOK
    <3> QED BY <3>1, <3>2
  <2> QED BY <2>2 DEF CopyOK
<1>8. CopyOK(file', worker', nextRun')
  <2>1. file \in State
    BY <1>0 DEF TypeOK
  <2> QED BY <1>0, <1>3, <1>6, <2>1 DEF Copies
<1>9. ASSUME NEW q \in Servers PROVE CopyOK(call'[q].snap, worker', nextRun')
  BY <1>0, <1>4, <1>6, <1>7, CallFields DEF Copies
<1> QED BY <1>8, <1>9 DEF Copies

LEMMA CopiesStep == ASSUME Inv, TypeOK', Kinds PROVE Copies'
<1>1. CASE \E s \in Servers : Acquire(s)
  BY <1>1, AcquireCopies
<1>2. CASE \A s \in Servers : ~Acquire(s)
  <2>1. Handed
    <3>1. CASE Elsewhere
      BY <3>1, SelfFollows DEF Elsewhere, Handed
    <3> QED BY <1>2, <3>1, CallHanded, OthersHanded, EndHanded DEF Kinds
  <2> QED BY <1>2, <2>1, StepRemains, HandedCopies
<1> QED BY <1>1, <1>2

-----------------------------------------------------------------------------
(* The invariant.                                                           *)

LEMMA InvInit == Init => Inv
<1> SUFFICES ASSUME Init PROVE Inv
  OBVIOUS
<1>1. TypeOK
  <2>1. nextRun \in 1 .. MaxRuns + 1 /\ crashes \in 0 .. MaxCrashes /\ faults \in 0 .. MaxFaults
    BY BoundsAssumption DEF Init
  <2>2. tree \in [Roots -> {"none", "clean", "dirty"}] /\ lock \in [Roots -> Runs \cup Servers \cup {Nobody}]
    BY DEF Init
  <2>3. active \in [Servers -> [Roots -> Runs \cup {NoRun}]]
    BY DEF Init
  <2> QED BY <2>1, <2>2, <2>3, Constants DEF Init, TypeOK
<1>2. \A r \in Runs : worker[r].stage = "none"
  BY DEF Init, NoWorker
<1>3. Locks
  BY <1>2 DEF Locks, Works
<1>4. Turns
  BY ServersAssumption DEF Init, Turns, Turn, NoCall, Unstarted
<1>5. Seats
  BY <1>2 DEF Seats, Seat, OneLaunch, AtWork
<1>6. Copies
  <2>1. nextRun = 1 /\ file = NoCall.snap /\ \A s \in Servers : call[s] = NoCall
    BY DEF Init
  <2> QED BY <2>1, NewCopy DEF Copies
<1> QED BY <1>1, <1>3, <1>4, <1>5, <1>6 DEF Inv

LEMMA InvStep == Inv /\ [Next]_vars => Inv'
<1> SUFFICES ASSUME Inv, [Next]_vars PROVE Inv'
  OBVIOUS
<1>1. Kinds
  BY StepKinds DEF Inv
<1>2. TypeOK'
  BY TypesStep DEF Inv
<1> QED BY <1>1, <1>2, LocksStep, SeatsStep, CopiesStep DEF Inv

(* The four parts hold always: flocks, turns, seats and copies.             *)
THEOREM AgentInvariance == Spec => []Inv
BY InvInit, InvStep, PTL DEF Spec

(* No root has two runs at work, whichever servers started them.            *)
THEOREM RootsHaveOneRun == Spec => []WorkspaceIsExclusive
<1>1. Inv => WorkspaceIsExclusive
  BY DEF Inv, Locks, WorkspaceIsExclusive
<1> QED BY <1>1, AgentInvariance, PTL

-----------------------------------------------------------------------------
(* The own runs of a server.                                                *)

LEMMA ReconciledRuns ==
  ASSUME NEW X \in State, NEW t \in Tasks, NEW task, NEW run, NEW r \in Runs
  PROVE  Reconciled(X, t, task, run).runs[r] = X.runs[r] \/ (X.wf[t].active = r /\ run # r)
BY DEF Reconciled, State

LEMMA ReconciledWorkflows ==
  ASSUME NEW X \in State, NEW t \in Tasks, NEW task, NEW run
  PROVE  /\ X.wf[t].active = run => \A u \in Tasks : Reconciled(X, t, task, run).wf[u].active = X.wf[u].active
         /\ \A u \in Tasks : u # t => Reconciled(X, t, task, run).wf[u] = X.wf[u]
<1> DEFINE w == X.wf[t]
           lost == w.active # 0 /\ run # w.active
           a == IF lost THEN 0 ELSE w.active
           p == IF a = 0 /\ w.phase \in {"investigating", "implementing"}
                THEN DefaultPhase(task, w) ELSE w.phase
           q == IF task.status = "done" THEN "completed"
                ELSE IF a = 0 /\ p = "idle" /\ task.plan THEN "plan-review" ELSE p
           v == [X.wf[t] EXCEPT !.active = a, !.phase = q]
<1>1. Reconciled(X, t, task, run).wf = [X.wf EXCEPT ![t].active = a, ![t].phase = q]
  BY DEF Reconciled
<1>2. \A u \in Tasks : X.wf[u] \in Workflow
  BY DEF State
<1>3. w.active = run => a = w.active
  OBVIOUS
<1> HIDE DEF a, q
<1>4. [X.wf EXCEPT ![t].active = a, ![t].phase = q] = [X.wf EXCEPT ![t] = v]
  BY DEF State
<1>5. v.active = a
  BY <1>2 DEF Workflow
<1> HIDE DEF v
<1> QED BY <1>1, <1>3, <1>4, <1>5 DEF State

(* A server that takes a copy of the file finds a run of its own that works *)
(* in a root that is there.                                                 *)
LEMMA OwnRunning ==
  ASSUME Inv, NEW s \in Servers, Loading(s), NEW r \in Runs, Works(r), worker[r].server = s, tree[worker[r].root] # "none"
  PROVE  /\ worker[r].stage \in AtWork
         /\ \A t \in Tasks : file.wf[t].active = r => Running(s, file.wf[t], t) = r
<1>0. TypeOK /\ Seats /\ Copies /\ Nobody # s /\ Nobody \notin Runs /\ s \notin Runs
  BY ServersAssumption DEF Inv
<1>1. worker[r].stage \in AtWork
  <2>1. worker[r].stage \in {"recorded", "start", "prompt", "apply", "finish", "end"}
    BY <1>0, WorkerFields DEF Worker, Works
  <2>2. worker[r].stage # "recorded" /\ worker[r].stage # "end"
    BY <1>0 DEF Loading, Seats, Seat, At
  <2> QED BY <2>1, <2>2 DEF AtWork
<1>2. ASSUME NEW t \in Tasks, file.wf[t].active = r PROVE Running(s, file.wf[t], t) = r
  <2>1. worker[r].root = RootOf(file.wf[t], t)
    BY <1>0, <1>2 DEF Copies, CopyOK, Works
  <2>2. active[s][worker[r].root] = r
    BY <1>0, <1>1 DEF Loading, Seats, Seat
  <2> QED BY <2>1, <2>2 DEF Running, Resolved
<1> QED BY <1>1, <1>2

LEMMA LoadedTask == ASSUME TypeOK', NEW s \in Servers PROVE call'[s].task \in Tasks
<1>1. call'[s] \in Calls
  BY DEF TypeOK
<1> QED BY <1>1 DEF Calls

LEMMA StartedRuns ==
  ASSUME TypeOK, NEW s \in Servers, Acquire(s)
  PROVE  /\ \A r \in Runs : r # nextRun => call'[s].snap.runs[r] = call[s].snap.runs[r]
         /\ \A t \in Tasks : t # T(s) => call'[s].snap.wf[t] = call[s].snap.wf[t]
         /\ call'[s].snap.wf[T(s)].active = nextRun
         /\ nextRun \in Runs => call'[s].snap.runs[nextRun].status = "running"
         /\ \A q \in Servers : q # s => call'[q] = call[q]
<1> DEFINE l == Launch(call[s].op, W(s))
           X == call[s].snap
           w == [X.wf[T(s)] EXCEPT
                   !.active = nextRun, !.phase = l.phase, !.chat = TRUE,
                   !.resume = IF call[s].op = "chat" THEN @ ELSE "none",
                   !.feedback = IF l.run = "investigation" THEN FALSE ELSE @]
           e == [task |-> T(s), phase |-> l.run, status |-> "running"]
           Y == Started(X, T(s), nextRun, l, call[s].op)
<1>1. Y.wf = [X.wf EXCEPT ![T(s)] = w] /\ Y.runs = [X.runs EXCEPT ![nextRun] = e] /\ e.status = "running"
  BY DEF Started
<1>2. X \in State /\ T(s) \in Tasks
  BY CallFields
<1>3. w.active = nextRun
  <2>1. X.wf[T(s)] \in Workflow
    BY <1>2 DEF State
  <2> HIDE DEF X, l
  <2> QED BY <2>1 DEF Workflow
<1>4. call' = [call EXCEPT ![s] = [call[s] EXCEPT !.stage = "saveRun", !.snap = Y]]
  BY DEF Acquire, SetCall
<1> HIDE DEF w, Y, e
<1>5. call'[s].snap = Y /\ \A q \in Servers : q # s => call'[q] = call[q]
  BY <1>4, CallFields DEF TypeOK, Calls
<1> QED BY <1>1, <1>2, <1>3, <1>5 DEF State

LEMMA FinishedRuns ==
  ASSUME Inv, NEW r \in Runs, FinishLoad(r), ~Ended(r)
  PROVE  LET s == worker[r].server IN
         /\ call'[s].snap = Finished(file, worker[r].task, r, worker[r].phase, worker[r].restore, worker[r].result,
                                     worker[r].session # "none")
         /\ \A q \in Runs : q # r => call'[s].snap.runs[q] = file.runs[q]
         /\ call'[s].snap.runs[r].status # "interrupted"
         /\ mu'[s] = r
<1> DEFINE s == worker[r].server
           X == Finished(file, worker[r].task, r, worker[r].phase, worker[r].restore, worker[r].result,
                         worker[r].session # "none")
           c == [NoCall EXCEPT !.task = worker[r].task, !.snap = X]
           status == CASE worker[r].result = "ok" -> "succeeded" [] OTHER -> worker[r].result
<1>0. TypeOK /\ s \in Servers
  BY DEF Inv, Locks, Works, FinishLoad
<1>1. c.snap = X /\ X.runs = [file.runs EXCEPT ![r].status = status]
  BY DEF NoCall, Finished
<1>2. status # "interrupted"
  BY <1>0, WorkerFields DEF Worker
<1>3. call' = [call EXCEPT ![s] = c] /\ mu' = [mu EXCEPT ![s] = r]
  BY DEF FinishLoad, SetCall
<1> HIDE DEF c, X, status
<1>4. call'[s].snap = X /\ mu'[s] = r
  BY <1>0, <1>1, <1>3 DEF TypeOK
<1>5. X.runs[r].status = status /\ \A q \in Runs : q # r => X.runs[q] = file.runs[q]
  <2>1. file.runs \in [Runs -> RunRecord] /\ file.runs[r] \in RunRecord
    BY <1>0 DEF TypeOK, State
  <2> QED BY <1>1, <2>1 DEF RunRecord
<1> QED BY <1>2, <1>4, <1>5 DEF X

LEMMA LeftCopy == ASSUME TypeOK, NEW s \in Servers, call' = [call EXCEPT ![s] = NoCall]
                  PROVE  call'[s] = NoCall /\ \A q \in Servers : q # s => call'[q] = call[q]
BY DEF TypeOK

LEMMA NoStatus == \A r \in Runs : NoCall.snap.runs[r].status = "none"
BY DEF NoCall, NoRunRecord

(* No step of a server takes a run of its own for lost.                     *)
LEMMA NotLostStep ==
  ASSUME Inv, TypeOK', Kinds, NEW s \in up, NEW r \in Runs, Works(r), worker[r].server = s, tree[worker[r].root] # "none",
         call'[s].snap.runs[r].status = "interrupted"
  PROVE  "interrupted" \in {call[s].snap.runs[r].status, file.runs[r].status}
<1>0. TypeOK /\ s \in Servers /\ NoCall.snap.runs[r].status # "interrupted"
  BY NoStatus DEF Inv, TypeOK
<1>1. CASE call'[s] = call[s] \/ call'[s] = NoCall
  BY <1>0, <1>1
<1>2. ASSUME NEW q \in Servers, Going(q) \/ Loading(q) PROVE "interrupted" \in {call[s].snap.runs[r].status, file.runs[r].status}
  <2>1. CASE q # s
    BY <1>0, <1>1, <1>2, <2>1 DEF Going, Loading, TypeOK
  <2>2. CASE q = s /\ Going(s)
    BY <2>2 DEF Going, Edited
  <2>3. CASE q = s /\ Loading(s)
    <3>1. CASE Edited(call'[s].snap, file)
      BY <3>1 DEF Edited
    <3>2. CASE ~Edited(call'[s].snap, file)
      <4> DEFINE t == call'[s].task
      <4>1. call'[s].snap = Reconciled(file, t, tasks[t], Running(s, file.wf[t], t))
        BY <2>3, <3>2 DEF Loading
      <4>2. t \in Tasks /\ file \in State
        BY <1>0, LoadedTask DEF TypeOK
      <4>3. file.wf[t].active = r => Running(s, file.wf[t], t) = r
        BY <1>0, <2>3, <4>2, OwnRunning
      <4> HIDE DEF t
      <4>4. call'[s].snap.runs[r] = file.runs[r]
        BY <4>1, <4>2, <4>3, ReconciledRuns
      <4> QED BY <4>4
    <3> QED BY <3>1, <3>2
  <2> QED BY <1>2, <2>1, <2>2, <2>3
<1>3. ASSUME NEW q \in Servers, Acquire(q) PROVE "interrupted" \in {call[s].snap.runs[r].status, file.runs[r].status}
  <2>1. r # nextRun
    BY <1>0, <1>3, Acquired
  <2> QED BY <1>0, <1>3, <2>1, StartedRuns
<1>4. ASSUME NEW q \in Servers, SaveRun(q) PROVE "interrupted" \in {call[s].snap.runs[r].status, file.runs[r].status}
  <2>1. CASE Leave(q)
    BY <1>0, <1>1, <2>1, LeftCopy DEF Leave, SetCall
  <2>2. CASE ~Leave(q)
    <3>1. GoTo(q, "answer")
      BY <1>4, <2>2 DEF SaveRun, SaveCopy
    <3>2. call'[s].snap = call[s].snap
      BY <1>0, <3>1, CallFields DEF GoTo, SetCall, TypeOK, Calls
    <3> QED BY <3>2
  <2> QED BY <2>1, <2>2
<1>5. ASSUME NEW q \in Servers, Returning(q) \/ SaveRunFails(q) \/ Dies(q) \/ Close(q)
      PROVE  "interrupted" \in {call[s].snap.runs[r].status, file.runs[r].status}
  <2>1. call' = call \/ call' = [call EXCEPT ![q] = NoCall]
    BY <1>5 DEF Returning, Leave, SaveRunFails, Dies, Crash, Exit, Gone, Close, SetCall
  <2> QED BY <1>0, <1>1, <2>1, LeftCopy
<1>6. ASSUME NEW q \in Servers, Restart(q) PROVE "interrupted" \in {call[s].snap.runs[r].status, file.runs[r].status}
  <2>1. q # s
    BY <1>6 DEF Restart
  <2> QED BY <1>0, <1>1, <1>6, <2>1 DEF Restart, SetCall, TypeOK
<1>7. ASSUME NEW q \in Runs, FinishLoad(q) \/ FinishSave(q) PROVE "interrupted" \in {call[s].snap.runs[r].status, file.runs[r].status}
  <2>0. worker[q].server \in Servers
    BY <1>7 DEF Inv, Locks, Works, FinishLoad, FinishSave
  <2>1. CASE Ended(q)
    BY <1>0, <1>1, <2>0, <2>1, LeftCopy DEF Ended, SetCall
  <2>2. CASE ~Ended(q)
    <3>1. FinishLoad(q)
      BY <1>7, <2>2 DEF FinishSave
    <3>2. CASE worker[q].server = s
      BY <2>2, <3>1, <3>2, FinishedRuns
    <3>3. CASE worker[q].server # s
      BY <1>0, <1>1, <2>2, <3>1, <3>3 DEF FinishLoad, SetCall, TypeOK
    <3> QED BY <3>2, <3>3
  <2> QED BY <2>1, <2>2
<1>8. CASE Elsewhere
  BY <1>1, <1>8 DEF Elsewhere
<1> QED BY <1>2, <1>3, <1>4, <1>5, <1>6, <1>7, <1>8 DEF Kinds

(* However many servers there are, none takes a run that it executes itself *)
(* for lost while the root of the run is there.                             *)
THEOREM OwnRunsAreKept == Spec => OwnRunIsNotLost
<1>1. ASSUME Inv, [Next]_vars
      PROVE  [\A s \in up, r \in Runs :
                /\ Works(r) /\ worker[r].server = s /\ tree[worker[r].root] # "none"
                /\ call'[s].snap.runs[r].status = "interrupted"
                => "interrupted" \in {call[s].snap.runs[r].status, file.runs[r].status}]_vars
  <2>1. Kinds /\ TypeOK'
    BY <1>1, StepKinds, TypesStep DEF Inv
  <2> QED BY <1>1, <2>1, NotLostStep
<1> QED BY <1>1, AgentInvariance, PTL DEF Spec, OwnRunIsNotLost

-----------------------------------------------------------------------------
(* One server: a run at work is the active run of its Task and is recorded  *)
(* as running, in the file and in every copy that may be saved.             *)

Single == \A s, q \in Servers : s = q
Live(X, t, r) == X.wf[t].active = r /\ X.runs[r].status = "running"
Alone ==
  \A r \in Runs : Works(r) =>
    /\ worker[r].stage # "recorded" => Live(file, worker[r].task, r)
    /\ \A s \in Servers : mu[s] \notin {Nobody, r} => Live(call[s].snap, worker[r].task, r)
    /\ tree[worker[r].root] # "none"

(* A working tree goes only where its Task is merged.                       *)
LEMMA TreesStand ==
  ASSUME TypeOK, [Next]_vars, NEW x \in Roots, tree[x] # "none"
  PROVE  tree'[x] # "none" \/ \E s \in Servers : Merge(s) /\ x = T(s)
<1>1. ASSUME NEW s \in Servers, CallStep(s) PROVE tree'[x] # "none" \/ (Merge(s) /\ x = T(s))
  <2>1. CASE StartAgent(s) \/ PrepareRun(s)
    BY <2>1 DEF StartAgent, PrepareRun, WithTree, TypeOK
  <2>2. CASE Commit(s)
    BY <2>2 DEF Commit, TypeOK
  <2>3. CASE Merge(s)
    BY <2>3 DEF Merge, TypeOK
  <2>4. CASE ~(StartAgent(s) \/ PrepareRun(s) \/ Commit(s) \/ Merge(s))
    <3>1. tree' = tree
      BY <1>1, <2>4, Zenon DEF CallStep, SaveReconciled, Refused, NoTree, SaveTree, GoLaunch, ResumeChat, StartChat, Acquire,
         GiveUp, SaveRun, LockRoot, SavePlanFeedback, GitRefuses, UpdateTask, Save, Cancel, StopChat, Answer, SaveAnswer,
         SaveRecovered, Refuse, disk
    <3> QED BY <3>1
  <2> QED BY <2>1, <2>2, <2>3, <2>4
<1>2. CASE \E r \in Runs : Edit(r)
  BY <1>2 DEF Edit, TypeOK
<1>3. CASE /\ \A s \in Servers : ~CallStep(s)
           /\ \A r \in Runs : ~Edit(r)
  <2>1. tree' = tree
    BY <1>3, Zenon DEF Next, Enter, RunStep, EnsureSession, PromptReturns, ApplyResult, FinishLoad, FinishSave, Environment,
       SaveRunFails, SaveFails, Close, Crash, Exit, Restart, AdapterDies, EditTask, disk, vars
  <2> QED BY <2>1
<1> QED BY <1>1, <1>2, <1>3

LEMMA TreesOfRuns ==
  ASSUME Inv, Alone, [Next]_vars, NEW r \in Runs, Works(r) PROVE tree'[worker[r].root] # "none"
<1>0. TypeOK /\ Copies /\ worker[r].root \in Roots /\ worker[r].task \in Tasks /\ tree[worker[r].root] # "none"
      /\ Servers \intersect Runs = {} /\ Nobody \notin Servers
  BY WorkerFields, ServersAssumption DEF Inv, Alone
<1>1. ASSUME NEW s \in Servers, Merge(s), worker[r].root = T(s) PROVE FALSE
  <2>1. mu[s] = s /\ W(s).active = 0 /\ T(s) \in Tasks
    <3>1. Allowed(s, "merge-worktree")
      BY <1>1 DEF Merge
    <3>2. W(s).active = 0
      BY <3>1, AllowedIdle DEF AllActions
    <3> QED BY <1>0, <3>1, <3>2, CallFields DEF Allowed, At
  <2>2. call[s].snap.wf[worker[r].task].active = r
    BY <1>0, <2>1 DEF Alone, Live
  <2>3. worker[r].root = RootOf(call[s].snap.wf[worker[r].task], worker[r].task)
    BY <1>0, <2>2 DEF Copies, CopyOK, Works
  <2>4. worker[r].task = T(s)
    BY <1>1, <2>1, <2>3, BaseAssumption DEF RootOf
  <2> QED BY <2>1, <2>2, <2>4 DEF W, Runs
<1> QED BY <1>0, <1>1, TreesStand

(* A copy keeps a run live.                                                 *)
LEMMA EditedLive == ASSUME NEW X, NEW Y, NEW t \in Tasks, NEW r, Edited(Y, X), Live(X, t, r) PROVE Live(Y, t, r)
BY DEF Edited, Live

(* Whose copy of the state a step may save.                                 *)
LEMMA SavedCopy ==
  ASSUME Inv, Kinds, file' # file
  PROVE  \E s \in Servers : file' = call[s].snap /\ mu[s] # Nobody /\ \A r \in Runs : worker'[r].stage # "none" => mu[s] # r
<1>0. TypeOK /\ Seats /\ Servers \intersect Runs = {} /\ Nobody \notin Runs /\ Nobody \notin Servers
  BY ServersAssumption DEF Inv
<1>1. ASSUME NEW s \in Servers, Going(s) \/ Returning(s) \/ SaveRun(s)
      PROVE  file' = call[s].snap /\ mu[s] # Nobody /\ \A r \in Runs : mu[s] # r
  BY <1>0, <1>1 DEF Going, Returning, SaveRun, SaveCopy, At
<1>2. ASSUME NEW r \in Runs, FinishSave(r)
      PROVE  /\ worker[r].server \in Servers /\ file' = call[worker[r].server].snap
             /\ mu[worker[r].server] = r /\ worker'[r].stage = "none"
  BY <1>0, <1>2 DEF Inv, Locks, Works, FinishSave, Seats, Seat, Ended, TypeOK, NoWorker
<1>3. \/ \E s \in Servers : Going(s) \/ Returning(s) \/ SaveRun(s)
      \/ \E r \in Runs : FinishSave(r)
  BY Zenon DEF Kinds, Loading, Acquire, SaveRunFails, Close, Dies, Crash, Exit, Restart, FinishLoad, Elsewhere, disk
<1> QED BY <1>0, <1>1, <1>2, <1>3

LEMMA FileLive ==
  ASSUME Inv, Alone, Single, Kinds, NEW r \in Runs, Works(r), worker'[r].stage \notin {"none", "recorded"}
  PROVE  Live(file', worker[r].task, r)
<1>0. TypeOK /\ worker[r].task \in Tasks /\ Seats /\ Locks /\ Nobody \notin Servers
  BY WorkerFields, ServersAssumption DEF Inv
<1>1. CASE file' # file
  BY <1>0, <1>1, SavedCopy DEF Alone
<1>2. CASE file' = file
  <2>1. CASE worker[r].stage # "recorded"
    BY <1>2, <2>1 DEF Alone
  <2>2. CASE worker[r].stage = "recorded"
    <3>1. worker[r].server \in Servers /\ At(worker[r].server, "saveRun")
      BY <1>0, <2>2 DEF Seats, Seat, Locks, Works
    <3>2. ~SameShape
      BY <2>2 DEF SameShape, AtWork
    <3>3. ASSUME NEW s \in Servers, Acquire(s) PROVE FALSE
      BY <1>0, <2>2, <3>3, Acquired DEF Works
    <3>4. ASSUME NEW s \in Servers, SaveRun(s) PROVE file' = call[s].snap /\ mu[s] = s
      BY <3>4 DEF SaveRun, SaveCopy, At
    <3>5. ASSUME NEW q \in Runs, FinishLoad(q) \/ FinishSave(q) PROVE FALSE
      <4>1. worker[q].server = worker[r].server
        BY <1>0, <3>1, <3>5 DEF Single, Locks, Works, FinishLoad, FinishSave
      <4>2. worker[q].stage \in {"finish", "end"} /\ mu[worker[q].server] \in {Nobody, q}
        BY <1>0, <3>5 DEF FinishLoad, FinishSave, Seats, Seat
      <4> QED BY <1>0, <3>1, <4>1, <4>2, ServersAssumption DEF At
    <3>6. ASSUME NEW s \in Servers, SaveRunFails(s) PROVE FALSE
      <4>1. PICK q \in Runs : Launched(s, q) /\ worker' = [worker EXCEPT ![q] = NoWorker]
        BY <3>6 DEF SaveRunFails
      <4>2. q = r
        BY <1>0, <2>2, <3>1, <4>1 DEF Single, Seats, OneLaunch, Launched
      <4> QED BY <1>0, <4>1, <4>2 DEF TypeOK, NoWorker
    <3>7. ASSUME NEW s \in Servers, Dies(s) PROVE FALSE
      BY <2>2, <3>7 DEF Dies, Crash, Exit, Gone, NoWorker
    <3>8. ASSUME NEW s \in Servers, Close(s) \/ Loading(s) \/ Restart(s) PROVE FALSE
      <4>1. worker'[r].stage = worker[r].stage
        <5>1. CASE Close(s)
          BY <1>0, <5>1, WorkerFields DEF Close, Worker
        <5>2. CASE Loading(s) \/ Restart(s)
          BY <5>2 DEF Loading, Restart
        <5> QED BY <3>8, <5>1, <5>2
      <4> QED BY <2>2, <4>1
    <3>9. ASSUME NEW s \in Servers, SaveRun(s) PROVE Live(file', worker[r].task, r)
      BY <1>0, <3>4, <3>9, ServersAssumption DEF Alone
    <3> QED BY <3>2, <3>3, <3>5, <3>6, <3>7, <3>8, <3>9 DEF Kinds, Going, Returning, Elsewhere
  <2> QED BY <2>1, <2>2
<1> QED BY <1>1, <1>2

LEMMA CopyLive ==
  ASSUME Inv, TypeOK', Alone, Single, Kinds, NEW r \in Runs, Works(r), worker'[r].stage # "none",
         \A s \in Servers : ~Acquire(s), NEW s \in Servers, mu'[s] \notin {Nobody, r}
  PROVE  Live(call'[s].snap, worker[r].task, r)
<1>0. TypeOK /\ worker[r].task \in Tasks /\ Seats /\ Locks /\ Nobody \notin Servers /\ Servers \intersect Runs = {}
      /\ Nobody \notin Runs /\ worker[r].server = s
  BY WorkerFields, ServersAssumption DEF Inv, Single, Locks
<1>1. CASE Elsewhere
  BY <1>1 DEF Elsewhere, Alone
<1>2. CASE Going(s)
  BY <1>0, <1>2, EditedLive DEF Going, Alone
<1>3. CASE Loading(s)
  <2> DEFINE t == call'[s].task
  <2>1. worker[r].stage \in AtWork /\ \A u \in Tasks : file.wf[u].active = r => Running(s, file.wf[u], u) = r
    BY <1>0, <1>3, OwnRunning DEF Alone
  <2>2. Live(file, worker[r].task, r)
    BY <2>1 DEF Alone, AtWork
  <2>3. CASE Edited(call'[s].snap, file)
    BY <1>0, <2>2, <2>3, EditedLive
  <2>4. CASE ~Edited(call'[s].snap, file)
    <3> DEFINE run == Running(s, file.wf[t], t)
               task == tasks[t]
    <3>1. call'[s].snap = Reconciled(file, t, task, run)
      BY <1>3, <2>4 DEF Loading
    <3>2. t \in Tasks /\ file \in State
      BY <1>0, LoadedTask DEF TypeOK
    <3>3. file.wf[t].active = r => run = r
      BY <2>1, <3>2
    <3> HIDE DEF t, run, task
    <3>4. call'[s].snap.runs[r] = file.runs[r]
      BY <3>1, <3>2, <3>3, ReconciledRuns
    <3>5. CASE t = worker[r].task
      <4>1. \A u \in Tasks : Reconciled(file, t, task, run).wf[u].active = file.wf[u].active
        BY <2>2, <3>2, <3>3, <3>5, ReconciledWorkflows DEF Live
      <4> QED BY <1>0, <2>2, <3>1, <3>4, <4>1 DEF Live
    <3>6. CASE t # worker[r].task
      <4>1. Reconciled(file, t, task, run).wf[worker[r].task] = file.wf[worker[r].task]
        BY <1>0, <3>2, <3>6, ReconciledWorkflows
      <4> QED BY <2>2, <3>1, <3>4, <4>1 DEF Live
    <3> QED BY <3>5, <3>6
  <2> QED BY <2>3, <2>4
<1>4. CASE SaveRun(s)
  <2>1. ~Leave(s)
    BY <1>0 DEF Leave, TypeOK
  <2>2. GoTo(s, "answer") /\ mu[s] = s
    BY <1>4, <2>1 DEF SaveRun, SaveCopy, At
  <2>3. call'[s].snap = call[s].snap
    BY <1>0, <2>2, CallFields DEF GoTo, SetCall, TypeOK, Calls
  <2> QED BY <1>0, <2>2, <2>3 DEF Alone
<1>5. CASE Returning(s) \/ SaveRunFails(s) \/ Dies(s)
  <2>1. mu'[s] = Nobody
    BY <1>0, <1>5 DEF Returning, Leave, SaveRunFails, Dies, Crash, Exit, Gone, TypeOK
  <2> QED BY <2>1
<1>6. CASE Close(s)
  BY <1>6 DEF Close
<1>7. CASE Restart(s)
  BY <1>0, <1>7 DEF Restart, WorkersOf
<1>8. ASSUME NEW q \in Runs, FinishLoad(q) \/ FinishSave(q) PROVE Live(call'[s].snap, worker[r].task, r)
  <2>1. worker[q].server = s /\ Works(q)
    BY <1>8 DEF Inv, Locks, Works, FinishLoad, FinishSave, Single
  <2>2. ~Ended(q) /\ FinishLoad(q)
    BY <1>0, <1>8, <2>1 DEF Ended, FinishSave, TypeOK
  <2> DEFINE X == Finished(file, worker[q].task, q, worker[q].phase, worker[q].restore, worker[q].result,
                           worker[q].session # "none")
  <2>3. call'[s].snap = X /\ mu'[s] = q /\ \A i \in Runs : i # q => call'[s].snap.runs[i] = file.runs[i]
    BY <2>1, <2>2, FinishedRuns
  <2>4. q # r
    BY <2>3
  <2>5. worker[q].stage = "finish" /\ mu[s] = Nobody
    BY <2>1, <2>2 DEF FinishLoad
  <2>6. worker[r].stage # "recorded"
    BY <1>0, <2>5 DEF Seats, Seat, At
  <2>7. Live(file, worker[q].task, q) /\ Live(file, worker[r].task, r) /\ worker[q].task \in Tasks /\ file \in State
    BY <1>0, <2>1, <2>5, <2>6, WorkerFields DEF Alone, TypeOK
  <2>8. worker[q].task # worker[r].task
    BY <2>4, <2>7 DEF Live
  <2>9. call'[s].snap.wf[worker[r].task] = file.wf[worker[r].task]
    BY <1>0, <2>3, <2>7, <2>8, FinishedFollows
  <2> QED BY <2>3, <2>4, <2>7, <2>9 DEF Live
<1>9. \A q \in Servers : q = s
  BY DEF Single
<1> QED BY <1>1, <1>2, <1>3, <1>4, <1>5, <1>6, <1>7, <1>8, <1>9 DEF Kinds

LEMMA StartLive ==
  ASSUME Inv, Alone, Single, NEW s \in Servers, Acquire(s), NEW r \in Runs, worker'[r].stage # "none"
  PROVE  /\ worker'[r].stage # "recorded" => Live(file', worker'[r].task, r)
         /\ Live(call'[s].snap, worker'[r].task, r)
         /\ tree'[worker'[r].root] # "none"
<1>0. TypeOK /\ Servers \intersect Runs = {} /\ Nobody \notin Servers /\ T(s) \in Tasks /\ mu[s] = s /\ UNCHANGED <<file, tree>>
  BY ServersAssumption, CallFields DEF Inv, Acquire, At
<1>1. CASE r = nextRun
  <2>1. tree[RootOf(W(s), T(s))] # "none"
    BY DEF Acquire, Resolved
  <2> QED BY <1>0, <1>1, <2>1, Acquired, StartedRuns DEF Live
<1>2. CASE r # nextRun
  <2>1. Works(r) /\ worker'[r] = worker[r]
    BY <1>2, Acquired DEF Works
  <2>2. Live(call[s].snap, worker[r].task, r) /\ worker[r].task \in Tasks
    BY <1>0, <2>1, WorkerFields DEF Alone
  <2>3. W(s).active = 0
    BY DEF Inv, Turns, Turn, Unstarted, Acquire, At
  <2>4. worker[r].task # T(s)
    BY <2>2, <2>3 DEF Live, W, Runs
  <2>5. Live(call'[s].snap, worker[r].task, r)
    BY <1>0, <1>2, <2>2, <2>4, StartedRuns DEF Live
  <2> QED BY <1>0, <2>1, <2>5 DEF Alone
<1> QED BY <1>1, <1>2

LEMMA AloneStep == Single /\ Inv /\ Inv' /\ Alone /\ [Next]_vars => Alone'
<1> SUFFICES ASSUME Single, Inv, Inv', Alone, [Next]_vars, NEW r \in Runs, worker'[r].stage # "none"
             PROVE  /\ worker'[r].stage # "recorded" => Live(file', worker'[r].task, r)
                    /\ \A s \in Servers : mu'[s] \notin {Nobody, r} => Live(call'[s].snap, worker'[r].task, r)
                    /\ tree'[worker'[r].root] # "none"
  BY DEF Alone, Works
<1>1. Kinds /\ TypeOK'
  BY StepKinds DEF Inv
<1>2. ASSUME NEW s \in Servers, Acquire(s)
      PROVE  /\ worker'[r].stage # "recorded" => Live(file', worker'[r].task, r)
             /\ \A q \in Servers : mu'[q] \notin {Nobody, r} => Live(call'[q].snap, worker'[r].task, r)
             /\ tree'[worker'[r].root] # "none"
  BY <1>2, StartLive DEF Single
<1>3. CASE \A s \in Servers : ~Acquire(s)
  <2>1. Works(r) /\ worker'[r].task = worker[r].task /\ worker'[r].root = worker[r].root
    BY <1>1, <1>3, StepRemains DEF Remain
  <2>2. worker'[r].stage # "recorded" => Live(file', worker'[r].task, r)
    BY <1>1, <2>1, FileLive
  <2>3. \A s \in Servers : mu'[s] \notin {Nobody, r} => Live(call'[s].snap, worker'[r].task, r)
    BY <1>1, <1>3, <2>1, CopyLive
  <2>4. tree'[worker'[r].root] # "none"
    BY <2>1, TreesOfRuns
  <2> QED BY <2>2, <2>3, <2>4
<1> QED BY <1>2, <1>3

(* With one server, a run that works is the active run of its workflow and  *)
(* is recorded as running, whatever calls, faults, exits and edits go on.   *)
THEOREM OneServerRecordsItsRuns == ASSUME Single PROVE Spec => []LiveRunIsRecorded
<1>1. Init => Alone
  BY DEF Init, NoWorker, Alone, Works
<1>2. Inv /\ Inv' /\ Alone /\ [Next]_vars => Alone'
  BY AloneStep
<1>3. Alone => LiveRunIsRecorded
  BY DEF Alone, Live, LiveRunIsRecorded, Works
<1> QED BY <1>1, <1>2, <1>3, AgentInvariance, PTL DEF Spec

-----------------------------------------------------------------------------
(* The adapter's process.                                                  *)

Prompt == "session/prompt"
Chunks == [kind : {"chunk"}, n : Nat]
Answers == [kind : {"answer"}, of : Methods, ok : BOOLEAN]
Messages == Chunks \cup Answers

IsChunk(msg) == msg.kind = "chunk"
IsPromptAnswer(msg) == msg.kind = "answer" /\ msg.of = Prompt

Early == {"initialize", "authenticate", "session/load", "session/new", "session/set_mode"}
Over == {"answered", "failed", "close", "closed"}

AdapterTypes ==
  /\ toChild \in Seq(Methods) /\ fromChild \in Seq(Messages) /\ pieces \in Nat /\ text \in Seq(Nat)
  /\ user = [u \in Users |-> user[u]]
  /\ user["run"].at \in Early \cup {Prompt} \cup Over /\ user["run"].stage \in {"write", "wait"}
  /\ user["cancel"].at \in {"idle", "session/cancel", "close", "closed"}
  /\ replies = [m \in Methods |-> replies[m]] /\ replies[Prompt] \in {"none", "ok", "error"}
  /\ callback \in BOOLEAN /\ ended \in BOOLEAN

(* How far the prompt of the run is.                                       *)
Unsent == user["run"].at \in Early \/ (user["run"].at = Prompt /\ user["run"].stage = "write")
Sent == user["run"].at = Prompt /\ user["run"].stage = "wait"
Asked == \E i \in DOMAIN toChild : toChild[i] = Prompt

(* The pieces that were written and not yet read stand together in the     *)
(* pipe, in their order, with the answer behind them; got were read.       *)
InPlace(msg, i, n, got, asked, last) ==
  /\ IsChunk(msg) <=> (last - (n - got) < i /\ i <= last)
  /\ IsChunk(msg) => msg.n = n - (last - i)
  /\ IsPromptAnswer(msg) => last < i /\ ~asked
FlowTo(msgs, n, got, asked, last) ==
  /\ last \in 0..Len(msgs) /\ got <= n /\ n - got <= last
  /\ \A i \in DOMAIN msgs : InPlace(msgs[i], i, n, got, asked, last)
  /\ asked => last = Len(msgs)
Flow(msgs, n, got, asked) == \E last \in 0..Len(msgs) : FlowTo(msgs, n, got, asked, last)

-----------------------------------------------------------------------------

LEMMA AppendFacts ==
  ASSUME NEW S, NEW s \in Seq(S), NEW e \in S
  PROVE  /\ Append(s, e) \in Seq(S) /\ Len(Append(s, e)) = Len(s) + 1 /\ Len(s) \in Nat
         /\ DOMAIN Append(s, e) = 1..(Len(s) + 1) /\ DOMAIN s = 1..Len(s)
         /\ Append(s, e)[Len(s) + 1] = e /\ \A i \in 1..Len(s) : Append(s, e)[i] = s[i]
  OBVIOUS

LEMMA TailFacts ==
  ASSUME NEW S, NEW s \in Seq(S), s # <<>>
  PROVE  /\ Tail(s) \in Seq(S) /\ Len(Tail(s)) = Len(s) - 1 /\ Len(s) \in Nat \ {0}
         /\ DOMAIN Tail(s) = 1..(Len(s) - 1) /\ DOMAIN s = 1..Len(s) /\ Head(s) = s[1]
         /\ \A i \in 1..(Len(s) - 1) : Tail(s)[i] = s[i + 1]
  OBVIOUS

LEMMA FirstRemoved ==
  ASSUME NEW S, NEW s \in Seq(S), s # <<>>
  PROVE  RemoveAt(s, 1) = Tail(s)
  BY DEF RemoveAt

(* Nothing was written or read when the prompt is sent.                    *)
LEMMA FlowStarts ==
  ASSUME NEW msgs \in Seq(Messages), NEW n, n = 0, NEW got, got = 0, NEW asked \in BOOLEAN,
         \A i \in DOMAIN msgs : ~IsChunk(msgs[i]) /\ ~IsPromptAnswer(msgs[i])
  PROVE  Flow(msgs, n, got, asked)
<1>1. Len(msgs) \in Nat /\ DOMAIN msgs = 1..Len(msgs)
  OBVIOUS
<1>2. \A i \in DOMAIN msgs : InPlace(msgs[i], i, n, got, asked, Len(msgs))
  BY <1>1 DEF InPlace
<1>3. got <= n /\ n - got <= Len(msgs) /\ Len(msgs) \in 0..Len(msgs)
  BY <1>1
<1>4. FlowTo(msgs, n, got, asked, Len(msgs))
  BY <1>2, <1>3 DEF FlowTo
<1> QED  BY <1>3, <1>4 DEF Flow

LEMMA FlowChunk ==
  ASSUME NEW msgs \in Seq(Messages), NEW n \in Nat, NEW got \in Nat,
         NEW asked \in BOOLEAN, asked, Flow(msgs, n, got, asked)
  PROVE  Flow(Append(msgs, [kind |-> "chunk", n |-> n + 1]), n + 1, got, asked)
<1> DEFINE msg == [kind |-> "chunk", n |-> n + 1]
           all == Append(msgs, msg)
<1>1. msg \in Messages /\ IsChunk(msg) /\ ~IsPromptAnswer(msg) /\ msg.n = n + 1
  BY DEF Messages, Chunks, IsChunk, IsPromptAnswer
<1> HIDE DEF msg
<1>2. /\ Len(all) = Len(msgs) + 1 /\ Len(msgs) \in Nat /\ DOMAIN all = 1..(Len(msgs) + 1)
      /\ DOMAIN msgs = 1..Len(msgs) /\ all[Len(msgs) + 1] = msg /\ \A i \in 1..Len(msgs) : all[i] = msgs[i]
  BY <1>1, AppendFacts
<1> HIDE DEF all
<1>3. FlowTo(msgs, n, got, asked, Len(msgs))
  BY DEF Flow, FlowTo
<1>4. ASSUME NEW i \in DOMAIN all PROVE InPlace(all[i], i, n + 1, got, asked, Len(all))
  <2>1. CASE i \in 1..Len(msgs)
    <3>1. InPlace(msgs[i], i, n, got, asked, Len(msgs)) /\ all[i] = msgs[i]
      BY <1>2, <1>3, <2>1 DEF FlowTo
    <3> QED  BY <1>2, <2>1, <3>1 DEF InPlace
  <2>2. CASE i = Len(msgs) + 1
    <3>1. got <= n
      BY <1>3 DEF FlowTo
    <3> QED  BY <1>1, <1>2, <2>2, <3>1 DEF InPlace
  <2>3. i \in 1..Len(msgs) \/ i = Len(msgs) + 1
    BY <1>2
  <2> QED  BY <2>1, <2>2, <2>3
<1>5. Len(all) \in 0..Len(all) /\ got <= n + 1 /\ n + 1 - got <= Len(all)
  BY <1>2, <1>3 DEF FlowTo
<1>8. \A i \in DOMAIN all : InPlace(all[i], i, n + 1, got, asked, Len(all))
  BY <1>4, Zenon
<1>7. FlowTo(all, n + 1, got, asked, Len(all))
  <2> DEFINE end == Len(all)
             m == n + 1
  <2>1. /\ \A i \in DOMAIN all : InPlace(all[i], i, m, got, asked, end)
        /\ end \in 0..Len(all) /\ got <= m /\ m - got <= end /\ end = Len(all)
    <3>1. \A i \in DOMAIN all : InPlace(all[i], i, m, got, asked, end)
      BY <1>8
    <3>2. end \in 0..Len(all)
      BY <1>5
    <3>3. got <= m
      BY <1>5
    <3>4. m - got <= end
      BY <1>5
    <3> QED  BY <3>1, <3>2, <3>3, <3>4
  <2> HIDE DEF end, m
  <2>2. FlowTo(all, m, got, asked, end)
    BY <2>1 DEF FlowTo
  <2> QED  BY <2>2 DEF m, end
<1>6. Flow(all, n + 1, got, asked)
  BY <1>5, <1>7 DEF Flow
<1> QED  BY <1>6 DEF all, msg

LEMMA FlowOther ==
  ASSUME NEW msgs \in Seq(Messages), NEW n \in Nat, NEW got \in Nat, NEW asked \in BOOLEAN,
         Flow(msgs, n, got, asked), asked => n = 0,
         NEW msg \in Answers, msg.of # Prompt
  PROVE  Flow(Append(msgs, msg), n, got, asked)
<1> DEFINE all == Append(msgs, msg)
<1>1. msg \in Messages /\ ~IsChunk(msg) /\ ~IsPromptAnswer(msg)
  BY DEF Messages, Answers, IsChunk, IsPromptAnswer
<1>2. /\ Len(all) = Len(msgs) + 1 /\ Len(msgs) \in Nat /\ DOMAIN all = 1..(Len(msgs) + 1)
      /\ DOMAIN msgs = 1..Len(msgs) /\ all[Len(msgs) + 1] = msg /\ \A i \in 1..Len(msgs) : all[i] = msgs[i]
  BY <1>1, AppendFacts
<1> HIDE DEF all
<1>3. PICK last \in 0..Len(msgs) : FlowTo(msgs, n, got, asked, last)
  BY DEF Flow
<1> DEFINE end == IF asked THEN Len(all) ELSE last
<1>4. ASSUME NEW i \in DOMAIN all PROVE InPlace(all[i], i, n, got, asked, end)
  <2>1. CASE i \in 1..Len(msgs)
    <3>1. InPlace(msgs[i], i, n, got, asked, last) /\ all[i] = msgs[i]
      BY <1>2, <1>3, <2>1, Zenon DEF FlowTo
    <3>2. asked => n = 0 /\ got = 0 /\ last = Len(msgs)
      BY <1>3 DEF FlowTo
    <3>3. asked => ~IsChunk(msgs[i]) /\ ~IsPromptAnswer(msgs[i])
      BY <2>1, <3>1, <3>2 DEF InPlace
    <3>4. CASE asked
      BY <1>2, <2>1, <3>1, <3>2, <3>3, <3>4 DEF InPlace
    <3>5. CASE ~asked
      BY <3>1, <3>5
    <3> QED  BY <3>4, <3>5
  <2>2. CASE i = Len(msgs) + 1
    <3>1. CASE asked
      <4>1. n = 0 /\ got = 0
        BY <1>3, <3>1 DEF FlowTo
      <4> QED  BY <1>1, <1>2, <2>2, <3>1, <4>1 DEF InPlace
    <3>2. CASE ~asked
      BY <1>1, <1>2, <2>2, <3>2 DEF InPlace
    <3> QED  BY <3>1, <3>2
  <2>3. i \in 1..Len(msgs) \/ i = Len(msgs) + 1
    BY <1>2
  <2> QED  BY <2>1, <2>2, <2>3
<1>5. end \in 0..Len(all) /\ got <= n /\ n - got <= end /\ (asked => end = Len(all))
  <2>1. last \in 0..Len(msgs) /\ got <= n /\ n - got <= last
    BY <1>3 DEF FlowTo
  <2>2. CASE asked
    BY <1>2, <2>1, <2>2
  <2>3. CASE ~asked
    BY <1>2, <2>1, <2>3
  <2> QED  BY <2>2, <2>3
<1> HIDE DEF end
<1>6. Flow(all, n, got, asked)
  BY <1>4, <1>5 DEF Flow, FlowTo
<1> QED  BY <1>6 DEF all

LEMMA FlowAnswer ==
  ASSUME NEW msgs \in Seq(Messages), NEW n \in Nat, NEW got \in Nat, Flow(msgs, n, got, TRUE),
         NEW msg \in Answers
  PROVE  Flow(Append(msgs, msg), n, got, FALSE)
<1> DEFINE all == Append(msgs, msg)
<1>1. msg \in Messages /\ ~IsChunk(msg)
  BY DEF Messages, Answers, IsChunk
<1>2. /\ Len(all) = Len(msgs) + 1 /\ Len(msgs) \in Nat /\ DOMAIN all = 1..(Len(msgs) + 1)
      /\ DOMAIN msgs = 1..Len(msgs) /\ all[Len(msgs) + 1] = msg /\ \A i \in 1..Len(msgs) : all[i] = msgs[i]
  BY <1>1, AppendFacts
<1> HIDE DEF all
<1>3. FlowTo(msgs, n, got, TRUE, Len(msgs))
  BY DEF Flow, FlowTo
<1>4. ASSUME NEW i \in DOMAIN all PROVE InPlace(all[i], i, n, got, FALSE, Len(msgs))
  <2>1. CASE i \in 1..Len(msgs)
    <3>1. InPlace(msgs[i], i, n, got, TRUE, Len(msgs)) /\ all[i] = msgs[i]
      BY <1>2, <1>3, <2>1 DEF FlowTo
    <3> QED  BY <3>1 DEF InPlace
  <2>2. CASE i = Len(msgs) + 1
    BY <1>1, <1>2, <2>2 DEF InPlace
  <2>3. i \in 1..Len(msgs) \/ i = Len(msgs) + 1
    BY <1>2
  <2> QED  BY <2>1, <2>2, <2>3
<1>5. Len(msgs) \in 0..Len(all) /\ got <= n /\ n - got <= Len(msgs)
  BY <1>2, <1>3 DEF FlowTo
<1>6. Flow(all, n, got, FALSE)
  BY <1>4, <1>5 DEF Flow, FlowTo
<1> QED  BY <1>6 DEF all

(* The first message is read: the next piece, or something else, and the   *)
(* answer of the prompt only after every piece.                            *)
LEMMA FlowRead ==
  ASSUME NEW msgs \in Seq(Messages), msgs # <<>>, NEW n \in Nat, NEW got \in Nat, NEW asked \in BOOLEAN,
         Flow(msgs, n, got, asked)
  PROVE  /\ IsChunk(msgs[1]) =>
              got < n /\ msgs[1].n = got + 1 /\ Flow(Tail(msgs), n, got + 1, asked)
         /\ ~IsChunk(msgs[1]) => Flow(Tail(msgs), n, got, asked)
         /\ IsPromptAnswer(msgs[1]) => got = n /\ ~asked
<1> DEFINE rest == Tail(msgs)
<1>1. /\ Len(rest) = Len(msgs) - 1 /\ Len(msgs) \in Nat \ {0} /\ DOMAIN rest = 1..(Len(msgs) - 1)
      /\ DOMAIN msgs = 1..Len(msgs) /\ \A i \in 1..(Len(msgs) - 1) : rest[i] = msgs[i + 1]
  BY TailFacts
<1> HIDE DEF rest
<1>2. PICK last \in 0..Len(msgs) : FlowTo(msgs, n, got, asked, last)
  BY DEF Flow
<1>3. InPlace(msgs[1], 1, n, got, asked, last) /\ got <= n /\ n - got <= last /\ (asked => last = Len(msgs))
  BY <1>1, <1>2 DEF FlowTo
<1>6. IsPromptAnswer(msgs[1]) => got = n /\ ~asked
  BY <1>3 DEF InPlace
<1>7. ASSUME NEW i \in DOMAIN rest
      PROVE  rest[i] = msgs[i + 1] /\ i \in Nat \ {0} /\ InPlace(msgs[i + 1], i + 1, n, got, asked, last)
  BY <1>1, <1>2 DEF FlowTo
<1>4. ASSUME IsChunk(msgs[1])
      PROVE  got < n /\ msgs[1].n = got + 1 /\ Flow(rest, n, got + 1, asked)
  <2>1. last = n - got /\ 1 <= last
    BY <1>3, <1>4 DEF InPlace
  <2>2. got < n /\ msgs[1].n = got + 1
    BY <1>3, <1>4, <2>1 DEF InPlace
  <2>3. ASSUME NEW i \in DOMAIN rest PROVE InPlace(rest[i], i, n, got + 1, asked, last - 1)
    BY <1>7, <2>1 DEF InPlace
  <2>4. last - 1 \in 0..Len(rest) /\ n - (got + 1) <= last - 1 /\ got + 1 <= n
    BY <1>1, <2>1, <2>2
  <2>5. asked => last - 1 = Len(rest)
    BY <1>1, <1>3
  <2>6. FlowTo(rest, n, got + 1, asked, last - 1)
    BY <2>3, <2>4, <2>5 DEF FlowTo
  <2> QED  BY <2>2, <2>4, <2>6 DEF Flow
<1>5. ASSUME ~IsChunk(msgs[1]) PROVE Flow(rest, n, got, asked)
  <2>1. CASE last = 0
    <3>1. n = got /\ ~asked
      BY <1>1, <1>3, <2>1
    <3>2. ASSUME NEW i \in DOMAIN rest PROVE InPlace(rest[i], i, n, got, asked, 0)
      BY <1>7, <2>1, <3>1 DEF InPlace
    <3>3. 0 \in 0..Len(rest) /\ got <= n /\ n - got <= 0
      BY <1>1, <3>1
    <3>4. FlowTo(rest, n, got, asked, 0)
      BY <3>1, <3>2, <3>3 DEF FlowTo
    <3> QED  BY <3>3, <3>4 DEF Flow
  <2>2. CASE last > 0
    <3>1. n - got <= last - 1
      BY <1>3, <1>5, <2>2 DEF InPlace
    <3>2. ASSUME NEW i \in DOMAIN rest PROVE InPlace(rest[i], i, n, got, asked, last - 1)
      BY <1>7, <2>2 DEF InPlace
    <3>3. last - 1 \in 0..Len(rest) /\ got <= n
      BY <1>1, <1>3, <2>2
    <3>4. asked => last - 1 = Len(rest)
      BY <1>1, <1>3
    <3>5. FlowTo(rest, n, got, asked, last - 1)
      BY <3>1, <3>2, <3>3, <3>4 DEF FlowTo
    <3> QED  BY <3>3, <3>5 DEF Flow
  <2> QED  BY <2>1, <2>2
<1> QED  BY <1>4, <1>5, <1>6 DEF rest

-----------------------------------------------------------------------------

PromptUnasked ==
  /\ ~Asked /\ pieces = 0 /\ text = <<>> /\ replies[Prompt] = "none"
  /\ \A i \in DOMAIN fromChild : ~IsChunk(fromChild[i]) /\ ~IsPromptAnswer(fromChild[i])
  /\ callback => user["run"].at = Prompt

PromptAsked ==
  /\ callback
  /\ ~ended => Flow(fromChild, pieces, Len(text), Asked)
  /\ replies[Prompt] # "none" => ~Asked /\ Len(text) = pieces

PromptOver ==
  /\ ~callback
  /\ user["run"].at = "answered" => ~Asked /\ Len(text) = pieces

(* The child gets one prompt, and writes pieces only when it has come to   *)
(* it.                                                                     *)
OnePrompt(msgs, n) ==
  \A i \in DOMAIN msgs :
    msgs[i] = Prompt => /\ \A j \in DOMAIN msgs : msgs[j] = Prompt => i = j
                        /\ i # 1 => n = 0

InOrder == \A i \in DOMAIN text : text[i] = i

AdapterInv ==
  /\ AdapterTypes
  /\ ended => child = "gone" /\ fromChild = <<>>
  /\ OnePrompt(toChild, pieces) /\ InOrder
  /\ Unsent => PromptUnasked
  /\ Sent => PromptAsked
  /\ user["run"].at \in Over => PromptOver

LEMMA MethodsAre == Methods = Early \cup {Prompt, "session/cancel"}
  BY DEF Methods, Early, Prompt

(* Where a user is after a request.                                        *)
LEMMA ReturnsTo ==
  ASSUME AdapterInv, NEW u \in Users, user[u].at \in Methods, NEW ok \in BOOLEAN, Returns(u, ok)
  PROVE  /\ user' = [v \in Users |-> user'[v]] /\ user'[u].stage = "write"
         /\ \A v \in Users \ {u} : user'[v] = user[v]
         /\ u = "cancel" => user'[u].at = "close"
         /\ u = "run" /\ user[u].at = Prompt => user'[u].at \in Over /\ ~callback'
                                                /\ (user'[u].at = "answered" => ok)
         /\ u = "run" /\ user[u].at # Prompt =>
              user'[u].at \in Early \cup {Prompt, "failed", "close"} /\ callback' = callback
         /\ u = "cancel" => callback' = callback
         /\ replies' = [replies EXCEPT ![user[u].at] = "none"]
<1>1. PICK next, at :
        /\ next \in AfterRequest(user[u].at, ok)
        /\ at = IF next = "session" THEN (IF KnownSession THEN "session/load" ELSE "session/new") ELSE next
        /\ \E to \in {"failed", at} :
             /\ UserIs(u, to, "write")
             /\ to = "failed" => at \in {"session/set_mode", "session/prompt"} \/ to = at
  BY DEF Returns
<1>2. PICK to \in {"failed", at} :
             /\ UserIs(u, to, "write")
             /\ to = "failed" => at \in {"session/set_mode", "session/prompt"} \/ to = at
  BY <1>1
<1>3. /\ user' = [v \in Users |-> user'[v]] /\ user'[u] = [at |-> to, stage |-> "write"]
      /\ \A v \in Users \ {u} : user'[v] = user[v]
  BY <1>2 DEF UserIs, AdapterInv, AdapterTypes
<1>4. /\ callback' = (callback /\ user[u].at # "session/prompt")
      /\ replies' = [replies EXCEPT ![user[u].at] = "none"] /\ callback \in BOOLEAN
  BY DEF Returns, AdapterInv, AdapterTypes
<1>5. CASE u = "cancel"
  <2>1. user[u].at = "session/cancel"
    BY <1>5, MethodsAre DEF AdapterInv, AdapterTypes, Methods
  <2>2. next = "close" /\ at = "close" /\ to = "close"
    BY <1>1, <1>2, <2>1 DEF AfterRequest
  <2> QED  BY <1>3, <1>4, <1>5, <2>1, <2>2
<1>6. CASE u = "run" /\ user[u].at = Prompt
  <2>1. next \in {"answered", "failed"} /\ (next = "answered" => ok) /\ at = next
    BY <1>1, <1>6 DEF AfterRequest, Prompt
  <2>2. ~callback'
    BY <1>4, <1>6, Zenon DEF Prompt
  <2> QED  BY <1>2, <1>3, <1>4, <1>6, <2>1, <2>2 DEF Over, Prompt
<1>7. CASE u = "run" /\ user[u].at # Prompt
  <2>1. user[u].at \in Early
    BY <1>7, MethodsAre DEF AdapterInv, AdapterTypes, Over, Early
  <2>2. next \in {"authenticate", "session", "close", "session/set_mode", "session/new", "failed", "session/prompt"}
    BY <1>1, <2>1 DEF AfterRequest, Early
  <2>3. at \in {"authenticate", "session/load", "close", "session/set_mode", "session/new", "failed", "session/prompt"}
    BY <1>1, <2>2
  <2>4. to \in Early \cup {Prompt, "failed", "close"}
    BY <1>2, <2>3 DEF Early, Prompt
  <2> QED  BY <1>3, <1>4, <1>7, <2>4 DEF Prompt
<1> QED  BY <1>5, <1>6, <1>7 DEF Users

LEMMA RunIsSomewhere ==
  ASSUME AdapterTypes
  PROVE  (Unsent \/ Sent \/ user["run"].at \in Over) /\ ~(Unsent /\ Sent)
         /\ (user["run"].at \in Over => ~Unsent /\ ~Sent)
  BY DEF AdapterTypes, Unsent, Sent, Over, Early, Prompt

(* A request is appended to what the child has to read.                    *)
LEMMA RequestIsSent ==
  ASSUME NEW msgs \in Seq(Methods), NEW n \in Nat, NEW method \in Methods, OnePrompt(msgs, n),
         method = Prompt => n = 0 /\ \A i \in DOMAIN msgs : msgs[i] # Prompt
  PROVE  /\ Append(msgs, method) \in Seq(Methods) /\ OnePrompt(Append(msgs, method), n)
         /\ (\E i \in DOMAIN Append(msgs, method) : Append(msgs, method)[i] = Prompt)
              <=> method = Prompt \/ \E i \in DOMAIN msgs : msgs[i] = Prompt
<1> DEFINE all == Append(msgs, method)
<1>1. /\ all \in Seq(Methods) /\ Len(msgs) \in Nat /\ DOMAIN all = 1..(Len(msgs) + 1)
      /\ DOMAIN msgs = 1..Len(msgs) /\ all[Len(msgs) + 1] = method /\ \A i \in 1..Len(msgs) : all[i] = msgs[i]
  BY AppendFacts
<1> HIDE DEF all
<1>2. \A i \in DOMAIN all : all[i] = Prompt =>
        \/ i \in DOMAIN msgs /\ msgs[i] = Prompt /\ method # Prompt
        \/ i = Len(msgs) + 1 /\ method = Prompt /\ n = 0
  BY <1>1
<1>3. OnePrompt(all, n)
  <2> SUFFICES ASSUME NEW i \in DOMAIN all, all[i] = Prompt
               PROVE  (\A j \in DOMAIN all : all[j] = Prompt => i = j) /\ (i # 1 => n = 0)
    BY DEF OnePrompt
  <2> QED  BY <1>2 DEF OnePrompt
<1>4. Len(msgs) + 1 \in DOMAIN all /\ \A i \in DOMAIN msgs : i \in DOMAIN all /\ all[i] = msgs[i]
  BY <1>1
<1>5. (\E i \in DOMAIN all : all[i] = Prompt) <=> method = Prompt \/ \E i \in DOMAIN msgs : msgs[i] = Prompt
  BY <1>1, <1>2, <1>4
<1> QED  BY <1>1, <1>3, <1>5 DEF all

(* The child takes the first request.                                      *)
LEMMA RequestIsTaken ==
  ASSUME NEW msgs \in Seq(Methods), NEW n \in Nat, msgs # <<>>, OnePrompt(msgs, n)
  PROVE  /\ Tail(msgs) \in Seq(Methods) /\ OnePrompt(Tail(msgs), n)
         /\ Head(msgs) # Prompt =>
              /\ (\E i \in DOMAIN Tail(msgs) : Tail(msgs)[i] = Prompt) <=> \E i \in DOMAIN msgs : msgs[i] = Prompt
              /\ (\E i \in DOMAIN msgs : msgs[i] = Prompt) => n = 0
         /\ Head(msgs) = Prompt => \A i \in DOMAIN Tail(msgs) : Tail(msgs)[i] # Prompt
<1> DEFINE rest == Tail(msgs)
<1>1. /\ rest \in Seq(Methods) /\ Len(msgs) \in Nat \ {0} /\ DOMAIN rest = 1..(Len(msgs) - 1)
      /\ DOMAIN msgs = 1..Len(msgs) /\ Head(msgs) = msgs[1] /\ \A i \in 1..(Len(msgs) - 1) : rest[i] = msgs[i + 1]
  BY TailFacts
<1> HIDE DEF rest
<1>2. \A i \in DOMAIN rest : i + 1 \in DOMAIN msgs /\ i + 1 # 1 /\ rest[i] = msgs[i + 1]
  BY <1>1
<1>3. OnePrompt(rest, n)
  <2> SUFFICES ASSUME NEW i \in DOMAIN rest, rest[i] = Prompt
               PROVE  (\A j \in DOMAIN rest : rest[j] = Prompt => i = j) /\ (i # 1 => n = 0)
    BY DEF OnePrompt
  <2>1. n = 0
    BY <1>2 DEF OnePrompt
  <2>2. ASSUME NEW j \in DOMAIN rest, rest[j] = Prompt PROVE i = j
    <3>1. i + 1 = j + 1 /\ i \in Nat /\ j \in Nat
      BY <1>1, <1>2, <2>2 DEF OnePrompt
    <3> QED  BY <3>1
  <2> QED  BY <2>1, <2>2
<1>4. ASSUME Head(msgs) # Prompt, NEW i \in DOMAIN msgs, msgs[i] = Prompt
      PROVE  n = 0 /\ i - 1 \in DOMAIN rest /\ rest[i - 1] = Prompt
  <2>1. i # 1 /\ i - 1 \in 1..(Len(msgs) - 1)
    BY <1>1, <1>4
  <2> QED  BY <1>1, <1>4, <2>1 DEF OnePrompt
<1>5. ASSUME Head(msgs) = Prompt, NEW i \in DOMAIN rest PROVE rest[i] # Prompt
  BY <1>1, <1>2, <1>5 DEF OnePrompt
<1>6. Head(msgs) # Prompt =>
        ((\E i \in DOMAIN rest : rest[i] = Prompt) <=> \E i \in DOMAIN msgs : msgs[i] = Prompt)
  BY <1>2, <1>4
<1> QED  BY <1>1, <1>3, <1>4, <1>5, <1>6 DEF rest

-----------------------------------------------------------------------------
(* The steps.                                                              *)

(* A request of a user is over.                                            *)
LEMMA ReturnKeeps ==
  ASSUME AdapterInv, NEW u \in Users, user[u].at \in Methods, NEW ok \in BOOLEAN, Returns(u, ok),
         UNCHANGED <<child, toChild, fromChild, pieces, ended, text>>,
         u = "run" /\ user[u].at = Prompt /\ ok => ~Asked /\ Len(text) = pieces
  PROVE  AdapterInv'
<1>1. /\ user' = [v \in Users |-> user'[v]] /\ user'[u].stage = "write"
      /\ \A v \in Users \ {u} : user'[v] = user[v]
      /\ u = "cancel" => user'[u].at = "close"
      /\ u = "run" /\ user[u].at = Prompt => user'[u].at \in Over /\ ~callback'
                                             /\ (user'[u].at = "answered" => ok)
      /\ u = "run" /\ user[u].at # Prompt =>
           user'[u].at \in Early \cup {Prompt, "failed", "close"} /\ callback' = callback
      /\ u = "cancel" => callback' = callback
      /\ replies' = [replies EXCEPT ![user[u].at] = "none"]
  BY ReturnsTo
<1>2. Asked' = Asked /\ InOrder' = InOrder
  BY DEF Asked, InOrder
<1>3. AdapterTypes
  BY DEF AdapterInv
<1>4. /\ replies' = [m \in Methods |-> replies'[m]]
      /\ replies'[Prompt] = IF user[u].at = Prompt THEN "none" ELSE replies[Prompt]
  BY <1>1, <1>3, MethodsAre DEF AdapterTypes
<1>5. callback' \in BOOLEAN
  BY <1>3 DEF Returns, AdapterTypes
<1>6. CASE u = "cancel"
  <2>1. user[u].at # Prompt
    BY <1>3, <1>6 DEF AdapterTypes, Prompt
  <2>2. user'["run"] = user["run"] /\ user'["cancel"].at = "close"
    BY <1>1, <1>6 DEF Users
  <2>3. AdapterTypes'
    BY <1>1, <1>3, <1>4, <1>5, <1>6, <2>1, <2>2 DEF AdapterTypes
  <2> QED  BY <1>1, <1>2, <1>4, <1>6, <2>1, <2>2, <2>3
           DEF AdapterInv, Unsent, Sent, PromptUnasked, PromptAsked, PromptOver
<1>7. CASE u = "run" /\ user[u].at = Prompt
  <2>1. user'["run"].at \in Over /\ user'["run"].stage = "write" /\ user'["cancel"] = user["cancel"]
    BY <1>1, <1>7 DEF Users
  <2>2. AdapterTypes'
    BY <1>1, <1>3, <1>4, <1>5, <1>7, <2>1 DEF AdapterTypes
  <2>3. PromptOver'
    BY <1>1, <1>2, <1>7 DEF PromptOver
  <2>4. ~Unsent' /\ ~Sent'
    BY <2>1, <2>2 DEF Unsent, Sent, Over, Early, Prompt
  <2> QED  BY <1>2, <2>2, <2>3, <2>4 DEF AdapterInv
<1>8. CASE u = "run" /\ user[u].at # Prompt
  <2>1. /\ user'["run"].at \in Early \cup {Prompt, "failed", "close"} /\ user'["run"].stage = "write"
        /\ user'["cancel"] = user["cancel"] /\ callback' = callback
    BY <1>1, <1>8 DEF Users
  <2>2. AdapterTypes'
    BY <1>1, <1>3, <1>4, <1>5, <1>8, <2>1 DEF AdapterTypes, Over
  <2>3. user["run"].at \in Early
    BY <1>3, <1>8, MethodsAre DEF AdapterTypes, Over, Methods
  <2>4. PromptUnasked /\ ~callback
    BY <1>8, <2>3 DEF AdapterInv, Unsent, PromptUnasked
  <2>5. PromptUnasked'
    BY <1>2, <1>4, <1>8, <2>1, <2>4 DEF PromptUnasked
  <2>7. ~Sent'
    BY <2>1 DEF Sent
  <2>8. user'["run"].at # "answered"
    BY <2>1 DEF Early, Prompt
  <2>9. ~callback'
    BY <2>1, <2>4
  <2>10. PromptOver'
    BY <2>8, <2>9 DEF PromptOver
  <2> QED  BY <1>2, <2>2, <2>5, <2>7, <2>10 DEF AdapterInv
<1> QED  BY <1>6, <1>7, <1>8 DEF Users

LEMMA WriteKeeps ==
  ASSUME AdapterInv, NEW u \in Users, Write(u)
  PROVE  AdapterInv'
<1>1. /\ user[u].at \in Methods /\ user[u].stage = "write" /\ AdapterTypes
      /\ UNCHANGED <<child, fromChild, pieces, ended, closing, text>>
  BY DEF Write, Writing, AdapterInv
<1>2. u = "run" /\ user[u].at = Prompt => Unsent /\ PromptUnasked
  BY <1>1 DEF Unsent, AdapterInv
<1>3. CASE Returns(u, FALSE) /\ UNCHANGED toChild
  BY <1>1, <1>3, ReturnKeeps
<1>4. CASE /\ UserIs(u, user[u].at, "wait") /\ toChild' = Append(toChild, user[u].at)
           /\ callback' = (callback \/ user[u].at = "session/prompt")
           /\ UNCHANGED <<sessionID, replies>>
  <2>1. /\ user' = [v \in Users |-> user'[v]] /\ user'[u] = [at |-> user[u].at, stage |-> "wait"]
        /\ \A v \in Users \ {u} : user'[v] = user[v]
    BY <1>1, <1>4 DEF UserIs, AdapterTypes
  <2>2. \A v \in Users : user'[v].at = user[v].at /\ (user'[v].stage = user[v].stage \/ user'[v].stage = "wait")
    BY <2>1
  <2>20. /\ user'["run"].at = user["run"].at /\ user'["cancel"].at = user["cancel"].at
         /\ user'["run"].stage = user["run"].stage \/ user'["run"].stage = "wait"
    BY <2>2 DEF Users
  <2>21. user'["run"].stage \in {"write", "wait"}
    BY <1>1, <2>20 DEF AdapterTypes
  <2>3. user[u].at = Prompt => u = "run"
    BY <1>1 DEF AdapterTypes, Users, Prompt
  <2>4. OnePrompt(toChild, pieces) /\ (user[u].at = Prompt => pieces = 0 /\ ~Asked)
    BY <1>2, <2>3 DEF AdapterInv, PromptUnasked
  <2>5. /\ toChild' \in Seq(Methods) /\ OnePrompt(toChild', pieces)
        /\ Asked' <=> user[u].at = Prompt \/ Asked
    BY <1>1, <1>4, <2>4, RequestIsSent DEF AdapterTypes, Asked
  <2>6. callback' \in BOOLEAN /\ (callback' <=> callback \/ user[u].at = Prompt)
    BY <1>1, <1>4, Zenon DEF AdapterTypes, Prompt
  <2>7. AdapterTypes' /\ InOrder'
    <3>1. user'["run"].at \in Early \cup {Prompt} \cup Over /\ user'["cancel"].at \in {"idle", "session/cancel", "close", "closed"}
      BY <1>1, <2>20 DEF AdapterTypes
    <3>2. replies' = replies /\ InOrder' = InOrder
      BY <1>1, <1>4 DEF InOrder
    <3>3. AdapterTypes'
      BY <1>1, <2>1, <2>21, <2>5, <2>6, <3>1, <3>2 DEF AdapterTypes
    <3> QED  BY <3>2, <3>3 DEF AdapterInv
  <2>8. CASE user[u].at = Prompt
    <3>1. u = "run" /\ PromptUnasked /\ callback' /\ Asked' /\ user'["run"] = [at |-> Prompt, stage |-> "wait"]
      BY <1>2, <2>1, <2>3, <2>5, <2>6, <2>8
    <3>2. Flow(fromChild, pieces, Len(text), Asked')
      BY <1>1, <3>1, FlowStarts DEF AdapterTypes, PromptUnasked
    <3>3. PromptAsked'
      BY <1>1, <1>4, <3>1, <3>2 DEF PromptAsked, PromptUnasked
    <3>4. ~Unsent' /\ user'["run"].at \notin Over
      BY <3>1 DEF Unsent, Over, Early, Prompt
    <3> QED  BY <1>1, <2>5, <2>7, <3>3, <3>4 DEF AdapterInv
  <2>9. CASE user[u].at # Prompt
    <3>0. Asked' \in BOOLEAN /\ Asked \in BOOLEAN /\ callback \in BOOLEAN
      BY <1>1 DEF Asked, AdapterTypes
    <3>1. (callback' <=> callback) /\ (Asked' <=> Asked) /\ replies' = replies
      BY <1>4, <2>5, <2>6, <2>9
    <3>10. callback' = callback /\ Asked' = Asked
      BY <2>6, <3>0, <3>1, Zenon
    <3>2. Unsent' = Unsent /\ Sent' = Sent
      BY <2>1, <2>2, <2>9 DEF Unsent, Sent, Users
    <3>3. PromptUnasked => PromptUnasked'
      BY <1>1, <2>20, <3>1, <3>10 DEF PromptUnasked
    <3>4. PromptAsked => PromptAsked'
      BY <1>1, <3>1, <3>10 DEF PromptAsked
    <3>5. PromptOver => PromptOver'
      BY <1>1, <2>20, <3>1, <3>10 DEF PromptOver
    <3> QED  BY <1>1, <2>20, <2>5, <2>7, <3>2, <3>3, <3>4, <3>5 DEF AdapterInv
  <2> QED  BY <2>8, <2>9
<1>5. CASE user[u].at = "session/prompt" /\ callback' = TRUE /\ UNCHANGED <<user, toChild, sessionID, replies>>
  <2>1. user[u].at = Prompt /\ u = "run"
    BY <1>1, <1>5 DEF AdapterTypes, Users, Prompt
  <2>2. Unsent /\ PromptUnasked /\ ~Sent /\ user["run"].at \notin Over
    BY <1>1, <1>2, <2>1, RunIsSomewhere
  <2>3. PromptUnasked' /\ ~Sent' /\ user'["run"].at \notin Over
    BY <1>1, <1>5, <2>1, <2>2 DEF PromptUnasked, Asked, Sent
  <2> QED  BY <1>1, <1>5, <2>3 DEF AdapterInv, AdapterTypes, InOrder
<1> QED  BY <1>3, <1>4, <1>5 DEF Write

(* A step that touches neither the pipes nor the run.                      *)
LEMMA AsideKeeps ==
  ASSUME AdapterInv, UNCHANGED <<toChild, fromChild, pieces, text, replies, callback>>,
         user' = [v \in Users |-> user'[v]], user'["cancel"].at \in {"idle", "session/cancel", "close", "closed"},
         \/ user'["run"] = user["run"]
         \/ user["run"].at = "close" /\ user'["run"].at = "closed" /\ user'["run"].stage = "write",
         ended' = ended, ended => child' = "gone"
  PROVE  AdapterInv'
<1>1. (user["run"].at \in Over /\ user'["run"].at = "closed") \/ user'["run"] = user["run"]
  BY DEF Over
<1>2. AdapterTypes'
  BY DEF AdapterInv, AdapterTypes, Over
<1>3. (Unsent' => Unsent) /\ (Sent' => Sent) /\ (user'["run"].at \in Over => user["run"].at \in Over)
  BY <1>1 DEF Unsent, Sent, Over, Early, Prompt
<1>4. (PromptOver => PromptOver') /\ (Sent' /\ PromptAsked => PromptAsked')
  BY <1>1 DEF PromptOver, PromptAsked, Asked, Over
<1>5. Unsent' /\ PromptUnasked => PromptUnasked'
  BY <1>1 DEF Unsent, PromptUnasked, Asked, Over, Early, Prompt
<1> QED  BY <1>2, <1>3, <1>4, <1>5 DEF AdapterInv, InOrder

LEMMA AnsweredKeeps ==
  ASSUME AdapterInv, NEW u \in Users, Answered(u) \/ Abandoned(u)
  PROVE  AdapterInv'
<1>1. /\ user[u].at \in Methods /\ user[u].stage = "wait"
      /\ UNCHANGED <<child, toChild, fromChild, pieces, ended, text>>
  BY DEF Answered, Abandoned, Waiting
<1>2. CASE Answered(u)
  <2>1. PICK ok \in BOOLEAN : ok = (replies[user[u].at] = "ok")
    OBVIOUS
  <2>2. Returns(u, ok)
    BY <1>2, <2>1 DEF Answered
  <2>3. u = "run" /\ user[u].at = Prompt /\ ok => ~Asked /\ Len(text) = pieces
    <3>1. u = "run" /\ user[u].at = Prompt => PromptAsked
      BY <1>1 DEF Sent, AdapterInv
    <3> QED  BY <2>1, <3>1 DEF PromptAsked
  <2> QED  BY <1>1, <2>2, <2>3, ReturnKeeps
<1>3. CASE Abandoned(u)
  BY <1>1, <1>3, ReturnKeeps DEF Abandoned
<1> QED  BY <1>2, <1>3

(* An answer other than the prompt's is written to the pipe.               *)
LEMMA ChildAnswersKeeps ==
  ASSUME AdapterInv, ChildAnswers
  PROVE  AdapterInv'
<1>1. /\ child = "up" /\ toChild # <<>> /\ Head(toChild) # Prompt /\ toChild' = Tail(toChild) /\ AdapterTypes
      /\ UNCHANGED <<child, pieces, user, replies, ended, callback, text>>
  BY DEF ChildAnswers, Prompt, AdapterInv
<1>2. PICK msg \in Reply(Head(toChild)) : fromChild' = Append(fromChild, msg)
  BY DEF ChildAnswers
<1>3. /\ toChild' \in Seq(Methods) /\ OnePrompt(toChild', pieces) /\ (Asked' <=> Asked) /\ (Asked => pieces = 0)
  BY <1>1, RequestIsTaken DEF AdapterTypes, AdapterInv, Asked
<1>4. msg \in Answers /\ msg \in Messages /\ msg.of # Prompt /\ ~IsChunk(msg) /\ ~IsPromptAnswer(msg)
  <2>1. Head(toChild) \in Methods
    BY <1>1 DEF AdapterTypes
  <2> QED  BY <1>1, <1>2, <2>1 DEF Reply, Answers, Messages, IsChunk, IsPromptAnswer
<1>5. /\ fromChild' \in Seq(Messages) /\ DOMAIN fromChild' = 1..(Len(fromChild) + 1)
      /\ DOMAIN fromChild = 1..Len(fromChild) /\ fromChild'[Len(fromChild) + 1] = msg
      /\ \A i \in 1..Len(fromChild) : fromChild'[i] = fromChild[i]
  BY <1>1, <1>2, <1>4, AppendFacts DEF AdapterTypes
<1>6. AdapterTypes' /\ InOrder' /\ ~ended
  BY <1>1, <1>3, <1>5 DEF AdapterTypes, AdapterInv, InOrder
<1>7. Unsent' = Unsent /\ Sent' = Sent
  BY <1>1 DEF Unsent, Sent
<1>8. PromptUnasked => PromptUnasked'
  <2>1. ASSUME PromptUnasked, NEW i \in DOMAIN fromChild'
        PROVE  ~IsChunk(fromChild'[i]) /\ ~IsPromptAnswer(fromChild'[i])
    <3>1. i = Len(fromChild) + 1 \/ (i \in DOMAIN fromChild /\ fromChild'[i] = fromChild[i])
      BY <1>1, <1>5 DEF AdapterTypes
    <3> QED  BY <1>4, <1>5, <2>1, <3>1 DEF PromptUnasked
  <2> QED  BY <1>1, <1>3, <2>1 DEF PromptUnasked
<1>9. PromptAsked => PromptAsked'
  <2> SUFFICES ASSUME PromptAsked PROVE PromptAsked'
    OBVIOUS
  <2>1. Flow(fromChild, pieces, Len(text), Asked)
    BY <1>6 DEF PromptAsked
  <2>2. PICK asked \in BOOLEAN : asked = Asked
    BY DEF Asked
  <2>3. Flow(fromChild', pieces, Len(text), asked)
    <3>1. fromChild \in Seq(Messages) /\ pieces \in Nat /\ Len(text) \in Nat
      BY <1>1 DEF AdapterTypes
    <3>2. Flow(fromChild, pieces, Len(text), asked) /\ (asked => pieces = 0)
      BY <1>3, <2>1, <2>2
    <3> QED  BY <1>2, <1>4, <3>1, <3>2, FlowOther
  <2>4. Asked' = Asked
    BY <1>3 DEF Asked
  <2> QED  BY <1>1, <2>2, <2>3, <2>4 DEF PromptAsked
<1>10. PromptOver => PromptOver'
  BY <1>1, <1>3 DEF PromptOver
<1> QED  BY <1>1, <1>3, <1>6, <1>7, <1>8, <1>9, <1>10 DEF AdapterInv

(* A piece of the text, or the answer of the prompt.                       *)
LEMMA ChildStreamsKeeps ==
  ASSUME AdapterInv, ChildStreams
  PROVE  AdapterInv'
<1>1. /\ child = "up" /\ toChild # <<>> /\ Head(toChild) = Prompt /\ AdapterTypes
      /\ UNCHANGED <<child, user, replies, ended, callback, text>>
  BY DEF ChildStreams, Prompt, AdapterInv
<1>2. Asked /\ ~ended
  BY <1>1 DEF Asked, AdapterInv, AdapterTypes
<1>3. ~Unsent /\ user["run"].at # "answered"
  BY <1>2 DEF AdapterInv, PromptUnasked, PromptOver, Over
<1>4. Unsent' = Unsent /\ Sent' = Sent
  BY <1>1 DEF Unsent, Sent
<1>5. PromptOver => PromptOver'
  BY <1>1, <1>3 DEF PromptOver
<1>6. /\ toChild' \in Seq(Methods) /\ fromChild' \in Seq(Messages) /\ pieces' \in Nat
      /\ OnePrompt(toChild', pieces')
      /\ PromptAsked => PromptAsked'
  <2>1. CASE /\ pieces' = pieces + 1 /\ fromChild' = Append(fromChild, [kind |-> "chunk", n |-> pieces'])
             /\ UNCHANGED toChild
    <3>1. pieces' \in Nat /\ toChild' \in Seq(Methods) /\ Asked' = Asked
      BY <1>1, <2>1 DEF AdapterTypes, Asked
    <3>2. fromChild' \in Seq(Messages)
      BY <1>1, <2>1, <3>1 DEF AdapterTypes, Messages, Chunks
    <3>3. OnePrompt(toChild', pieces')
      <4>1. 1 \in DOMAIN toChild /\ toChild[1] = Prompt
        BY <1>1 DEF AdapterTypes
      <4> QED  BY <2>1, <4>1 DEF OnePrompt, AdapterInv
    <3>4. ASSUME PromptAsked PROVE PromptAsked'
      <4>1. Flow(fromChild, pieces, Len(text), TRUE)
        <5>1. Asked = TRUE
          BY <1>2 DEF Asked
        <5> QED  BY <1>2, <3>4, <5>1 DEF PromptAsked
      <4>2. Flow(fromChild', pieces', Len(text), TRUE)
        <5>1. fromChild \in Seq(Messages) /\ pieces \in Nat /\ Len(text) \in Nat
          BY <1>1 DEF AdapterTypes
        <5>2. Flow(Append(fromChild, [kind |-> "chunk", n |-> pieces + 1]), pieces + 1, Len(text), TRUE)
          BY <4>1, <5>1, FlowChunk
        <5> QED  BY <2>1, <5>2
      <4>3. Asked' = TRUE
        BY <1>2, <3>1 DEF Asked
      <4>4. replies[Prompt] = "none"
        BY <1>2, <3>4 DEF PromptAsked
      <4> QED  BY <1>1, <3>4, <4>2, <4>3, <4>4 DEF PromptAsked
    <3> QED  BY <3>1, <3>2, <3>3, <3>4
  <2>2. CASE /\ toChild' = Tail(toChild) /\ pieces' = pieces
             /\ \E r \in Reply("session/prompt") : fromChild' = Append(fromChild, r)
    <3>1. PICK msg \in Reply("session/prompt") : fromChild' = Append(fromChild, msg)
      BY <2>2
    <3>2. msg \in Answers /\ msg \in Messages
      BY <3>1 DEF Reply, Answers, Messages, Methods
    <3>3. fromChild' \in Seq(Messages) /\ pieces' \in Nat
      BY <1>1, <2>2, <3>1, <3>2 DEF AdapterTypes
    <3>4. toChild' \in Seq(Methods) /\ OnePrompt(toChild', pieces') /\ ~Asked'
      BY <1>1, <2>2, RequestIsTaken DEF AdapterTypes, AdapterInv, Asked
    <3>5. ASSUME PromptAsked PROVE PromptAsked'
      <4>1. Flow(fromChild, pieces, Len(text), TRUE)
        <5>1. Asked = TRUE
          BY <1>2 DEF Asked
        <5> QED  BY <1>2, <3>5, <5>1 DEF PromptAsked
      <4>2. Flow(fromChild', pieces, Len(text), FALSE)
        <5>1. fromChild \in Seq(Messages) /\ pieces \in Nat /\ Len(text) \in Nat
          BY <1>1 DEF AdapterTypes
        <5> QED  BY <3>1, <3>2, <4>1, <5>1, FlowAnswer
      <4>3. Asked' = FALSE
        BY <3>4 DEF Asked
      <4>4. replies[Prompt] = "none"
        BY <1>2, <3>5 DEF PromptAsked
      <4> QED  BY <1>1, <2>2, <3>5, <4>2, <4>3, <4>4 DEF PromptAsked
    <3> QED  BY <3>3, <3>4, <3>5
  <2> QED  BY <2>1, <2>2 DEF ChildStreams
<1>7. AdapterTypes' /\ InOrder'
  BY <1>1, <1>6 DEF AdapterTypes, AdapterInv, InOrder
<1> QED  BY <1>1, <1>2, <1>3, <1>4, <1>5, <1>6, <1>7 DEF AdapterInv

(* The child stops reading or is gone, a user cancels, a user closes.      *)
LEMMA OutsideKeeps ==
  ASSUME AdapterInv, NEW u \in Users,
         ChildGoesDeaf \/ ChildDies \/ CancelRun \/ CloseProcess(u)
  PROVE  AdapterInv'
<1>1. AdapterTypes /\ (ended => child = "gone")
  BY DEF AdapterInv
<1>2. CASE ChildGoesDeaf
  BY <1>1, <1>2, AsideKeeps DEF ChildGoesDeaf, AdapterTypes
<1>3. CASE ChildDies
  BY <1>1, <1>3, AsideKeeps DEF ChildDies, AdapterTypes
<1>4. CASE CancelRun
  <2>1. /\ user' = [v \in Users |-> user'[v]] /\ user'["run"] = user["run"]
        /\ user'["cancel"].at \in {"session/cancel", "close"}
    BY <1>1, <1>4 DEF CancelRun, UserIs, AdapterTypes, Users
  <2> QED  BY <1>1, <1>4, <2>1, AsideKeeps DEF CancelRun
<1>5. CASE CloseProcess(u)
  <2>1. user[u].at = "close" /\ (user' = user \/ UserIs(u, "closed", "write"))
        /\ UNCHANGED <<child, toChild, fromChild, pieces, replies, callback, text, ended>>
    BY <1>5 DEF CloseProcess
  <2>2. CASE user' = user
    BY <1>1, <2>1, <2>2, AsideKeeps DEF AdapterTypes
  <2>3. CASE UserIs(u, "closed", "write")
    <3>1. /\ user' = [v \in Users |-> user'[v]] /\ user'[u] = [at |-> "closed", stage |-> "write"]
          /\ \A v \in Users \ {u} : user'[v] = user[v]
      BY <1>1, <2>3 DEF UserIs, AdapterTypes
    <3>2. CASE u = "run"
      <4>1. /\ user'["cancel"] = user["cancel"] /\ user["run"].at = "close"
            /\ user'["run"].at = "closed" /\ user'["run"].stage = "write"
        BY <2>1, <3>1, <3>2 DEF Users
      <4>2. user'["cancel"].at \in {"idle", "session/cancel", "close", "closed"}
        BY <1>1, <4>1 DEF AdapterTypes
      <4> QED  BY <1>1, <2>1, <3>1, <4>1, <4>2, AsideKeeps
    <3>3. CASE u = "cancel"
      <4>1. user'["cancel"].at = "closed" /\ user'["run"] = user["run"]
        BY <3>1, <3>3 DEF Users
      <4> QED  BY <1>1, <2>1, <3>1, <4>1, AsideKeeps
    <3> QED  BY <3>2, <3>3 DEF Users
  <2> QED  BY <2>1, <2>2, <2>3
<1> QED  BY <1>2, <1>3, <1>4, <1>5

(* What is still in the pipe is lost with the child.                       *)
LEMMA ReapedKeeps ==
  ASSUME AdapterInv, ChildReaped
  PROVE  AdapterInv'
<1>1. /\ child' = "gone" /\ ended' = TRUE /\ fromChild' = <<>>
      /\ UNCHANGED <<toChild, pieces, user, replies, callback, text>>
  BY DEF ChildReaped
<1>2. AdapterTypes' /\ InOrder' /\ OnePrompt(toChild, pieces)'
  BY <1>1 DEF AdapterInv, AdapterTypes, InOrder, OnePrompt
<1>3. (Unsent' = Unsent) /\ (Sent' = Sent) /\ (Asked' = Asked)
  BY <1>1 DEF Unsent, Sent, Asked
<1>4. PromptUnasked => PromptUnasked'
  BY <1>1, <1>3 DEF PromptUnasked
<1>5. PromptAsked => PromptAsked'
  BY <1>1, <1>3 DEF PromptAsked
<1>6. PromptOver => PromptOver'
  BY <1>1, <1>3 DEF PromptOver
<1> QED  BY <1>1, <1>2, <1>3, <1>4, <1>5, <1>6 DEF AdapterInv

LEMMA ReadKeeps ==
  ASSUME AdapterInv, Read
  PROVE  AdapterInv'
<1> DEFINE msg == fromChild[1]
<1>1. /\ ~ended /\ fromChild # <<>> /\ fromChild' = Tail(fromChild) /\ AdapterTypes
      /\ UNCHANGED <<child, toChild, pieces, user, ended, callback>>
      /\ IF msg.kind = "chunk"
         THEN text' = (IF callback THEN Append(text, msg.n) ELSE text) /\ replies' = replies
         ELSE /\ replies' = [replies EXCEPT ![msg.of] =
                    IF ~Pending(msg.of) THEN @ ELSE IF msg.ok THEN "ok" ELSE "error"]
              /\ text' = text
  <2>1. PICK i \in DOMAIN fromChild : i = 1 /\ fromChild' = RemoveAt(fromChild, i)
    BY DEF Read, NextMessage
  <2>2. fromChild # <<>> /\ AdapterTypes
    BY <2>1 DEF AdapterInv
  <2>3. fromChild' = Tail(fromChild)
    BY <2>1, <2>2, FirstRemoved DEF AdapterTypes
  <2> QED  BY <2>2, <2>3 DEF Read, NextMessage
<1>2. /\ fromChild' \in Seq(Messages) /\ DOMAIN fromChild' = 1..(Len(fromChild) - 1)
      /\ DOMAIN fromChild = 1..Len(fromChild) /\ 1 \in DOMAIN fromChild /\ Len(fromChild) \in Nat
      /\ \A i \in 1..(Len(fromChild) - 1) : fromChild'[i] = fromChild[i + 1]
  BY <1>1, TailFacts DEF AdapterTypes
<1>3. msg \in Messages
  BY <1>1, <1>2 DEF AdapterTypes
<1>4. /\ IsChunk(msg) => msg.n \in Nat /\ replies' = replies
      /\ IsChunk(msg) => text' = (IF callback THEN Append(text, msg.n) ELSE text)
      /\ ~IsChunk(msg) => text' = text
  BY <1>1, <1>3 DEF IsChunk, Messages, Chunks, Answers
<1>5. /\ replies' = [m \in Methods |-> replies'[m]] /\ replies'[Prompt] \in {"none", "ok", "error"}
      /\ replies'[Prompt] # replies[Prompt] => IsPromptAnswer(msg) /\ ~IsChunk(msg)
  <2>1. CASE msg.kind = "chunk"
    BY <1>1, <2>1 DEF AdapterTypes
  <2>2. CASE msg.kind # "chunk"
    <3>1. msg.kind = "answer"
      BY <1>3, <2>2 DEF Messages, Chunks, Answers
    <3>2. replies' = [replies EXCEPT ![msg.of] = IF ~Pending(msg.of) THEN @ ELSE IF msg.ok THEN "ok" ELSE "error"]
      BY <1>1, <2>2
    <3> HIDE DEF msg
    <3>3. Prompt \in Methods
      BY MethodsAre
    <3> QED  BY <1>1, <2>2, <3>1, <3>2, <3>3 DEF AdapterTypes, IsPromptAnswer, IsChunk
  <2> QED  BY <2>1, <2>2
<1> HIDE DEF msg
<1>6. text' \in Seq(Nat)
  <2>1. text \in Seq(Nat)
    BY <1>1 DEF AdapterTypes
  <2>2. CASE IsChunk(msg) /\ callback
    BY <1>4, <2>1, <2>2
  <2>3. CASE ~(IsChunk(msg) /\ callback)
    BY <1>4, <2>1, <2>3
  <2> QED  BY <2>2, <2>3
<1>7. AdapterTypes'
  BY <1>1, <1>2, <1>5, <1>6 DEF AdapterTypes
<1>8. Asked' = Asked /\ Unsent' = Unsent /\ Sent' = Sent
  BY <1>1 DEF Asked, Unsent, Sent
<1>9. ASSUME Unsent PROVE PromptUnasked' /\ InOrder'
  <2>1. PromptUnasked /\ ~IsChunk(msg) /\ ~IsPromptAnswer(msg)
    BY <1>2, <1>9 DEF AdapterInv, PromptUnasked, msg
  <2>2. \A i \in DOMAIN fromChild' : ~IsChunk(fromChild'[i]) /\ ~IsPromptAnswer(fromChild'[i])
    <3>1. \A i \in DOMAIN fromChild' : i + 1 \in DOMAIN fromChild /\ fromChild'[i] = fromChild[i + 1]
      BY <1>2
    <3> QED  BY <2>1, <3>1 DEF PromptUnasked
  <2>3. replies'[Prompt] = "none" /\ text' = text
    BY <1>4, <1>5, <2>1 DEF PromptUnasked
  <2> QED  BY <1>1, <1>8, <2>1, <2>2, <2>3 DEF PromptUnasked, InOrder, AdapterInv
<1>10. ASSUME Sent PROVE PromptAsked' /\ InOrder'
  <2>1. PromptAsked /\ callback
    BY <1>10 DEF AdapterInv, PromptAsked
  <2>2. PICK asked \in BOOLEAN : asked = Asked
    BY DEF Asked
  <2>3. Flow(fromChild, pieces, Len(text), asked) /\ Len(text) \in Nat
    BY <1>1, <2>1, <2>2 DEF PromptAsked, AdapterTypes
  <2>4. /\ IsChunk(msg) =>
              Len(text) < pieces /\ msg.n = Len(text) + 1 /\ Flow(fromChild', pieces, Len(text) + 1, asked)
        /\ ~IsChunk(msg) => Flow(fromChild', pieces, Len(text), asked)
        /\ IsPromptAnswer(msg) => Len(text) = pieces /\ ~asked
    BY <1>1, <2>3, FlowRead DEF AdapterTypes, msg
  <2>5. CASE IsChunk(msg)
    <3>1. text' = Append(text, msg.n) /\ Len(text') = Len(text) + 1 /\ replies'[Prompt] = replies[Prompt]
      BY <1>1, <1>4, <1>5, <2>1, <2>5 DEF AdapterTypes
    <3>2. /\ DOMAIN text' = 1..(Len(text) + 1) /\ DOMAIN text = 1..Len(text)
          /\ text'[Len(text) + 1] = Len(text) + 1 /\ \A i \in 1..Len(text) : text'[i] = text[i]
      BY <1>1, <1>4, <2>4, <2>5, <3>1, AppendFacts DEF AdapterTypes
    <3>3. InOrder'
      BY <2>3, <3>2 DEF InOrder, AdapterInv
    <3>4. replies'[Prompt] = "none"
      BY <1>1, <2>1, <2>3, <2>4, <2>5, <3>1 DEF PromptAsked, AdapterTypes
    <3>5. Flow(fromChild', pieces', Len(text'), Asked')
      BY <1>1, <1>8, <2>2, <2>4, <2>5, <3>1
    <3> QED  BY <1>1, <2>1, <3>3, <3>4, <3>5 DEF PromptAsked
  <2>6. CASE ~IsChunk(msg)
    <3>1. text' = text /\ Flow(fromChild', pieces', Len(text'), Asked')
      BY <1>1, <1>4, <1>8, <2>2, <2>4, <2>6
    <3>2. replies'[Prompt] # "none" => ~Asked /\ Len(text) = pieces
      BY <1>5, <2>1, <2>2, <2>4 DEF PromptAsked
    <3>3. InOrder'
      BY <3>1 DEF InOrder, AdapterInv
    <3> QED  BY <1>1, <1>8, <2>1, <3>1, <3>2, <3>3 DEF PromptAsked
  <2> QED  BY <2>5, <2>6
<1>11. ASSUME user["run"].at \in Over PROVE PromptOver' /\ InOrder'
  <2>1. PromptOver /\ text' = text
    BY <1>4, <1>11 DEF AdapterInv, PromptOver
  <2> QED  BY <1>1, <1>8, <2>1 DEF PromptOver, InOrder, AdapterInv
<1>12. InOrder'
  BY <1>1, <1>9, <1>10, <1>11, RunIsSomewhere
<1> QED  BY <1>1, <1>7, <1>8, <1>9, <1>10, <1>11, <1>12 DEF AdapterInv

LEMMA AdapterStarts == AdapterInit => AdapterInv
<1> SUFFICES ASSUME AdapterInit PROVE AdapterInv
  OBVIOUS
<1>1. /\ toChild = <<>> /\ fromChild = <<>> /\ pieces = 0 /\ text = <<>> /\ ended = FALSE /\ callback = FALSE
      /\ replies = [m \in Methods |-> "none"]
      /\ user = [u \in Users |-> user[u]] /\ user["run"] = [at |-> "initialize", stage |-> "write"]
      /\ user["cancel"].at = "idle"
  BY DEF AdapterInit, Users
<1>2. replies[Prompt] = "none" /\ DOMAIN toChild = {} /\ DOMAIN fromChild = {} /\ DOMAIN text = {}
  BY <1>1, MethodsAre
<1>3. AdapterTypes
  <2>1. user["run"].at \in Early /\ user["run"].stage = "write"
    BY <1>1 DEF Early
  <2>2. replies = [m \in Methods |-> replies[m]]
    BY <1>1
  <2>3. toChild \in Seq(Methods) /\ fromChild \in Seq(Messages) /\ pieces \in Nat /\ text \in Seq(Nat)
    BY <1>1
  <2> QED  BY <1>1, <1>2, <2>1, <2>2, <2>3 DEF AdapterTypes
<1>4. PromptUnasked
  BY <1>1, <1>2 DEF PromptUnasked, Asked
<1>5. ~Sent /\ user["run"].at \notin Over
  BY <1>1 DEF Sent, Prompt, Over
<1> QED  BY <1>1, <1>2, <1>3, <1>4, <1>5 DEF AdapterInv, OnePrompt, InOrder

(***************************************************************************)
(* The pieces of an answer the adapter has not read stand together in the  *)
(* pipe, in the order the child wrote them, with the answer of the prompt  *)
(* behind them, until the child is gone (omp/acp.go, readStdout, wait).    *)
(***************************************************************************)
THEOREM AdapterInvHolds == AdapterSpec => []AdapterInv
<1>1. AdapterInit => AdapterInv
  BY AdapterStarts
<1>2. AdapterInv /\ [AdapterNext]_adapterVars => AdapterInv'
  <2> SUFFICES ASSUME AdapterInv, [AdapterNext]_adapterVars PROVE AdapterInv'
    OBVIOUS
  <2>1. CASE UNCHANGED adapterVars
    <3>1. AdapterInv' = AdapterInv
      BY <2>1 DEF adapterVars, AdapterInv, AdapterTypes, OnePrompt, InOrder, Unsent, Sent,
                  PromptUnasked, PromptAsked, PromptOver, Asked, Flow, FlowTo, InPlace
    <3> QED  BY <3>1
  <2>2. ASSUME NEW u \in Users, Write(u) PROVE AdapterInv'
    BY <2>2, WriteKeeps
  <2>3. ASSUME NEW u \in Users, Answered(u) \/ Abandoned(u) PROVE AdapterInv'
    BY <2>3, AnsweredKeeps
  <2>4. ASSUME NEW u \in Users, CloseProcess(u) PROVE AdapterInv'
    BY <2>4, OutsideKeeps
  <2>5. CASE ChildGoesDeaf \/ ChildDies \/ CancelRun
    <3>1. "run" \in Users
      BY DEF Users
    <3> QED  BY <2>5, <3>1, OutsideKeeps
  <2> QED  BY <2>1, <2>2, <2>3, <2>4, <2>5, ChildAnswersKeeps, ChildStreamsKeeps, ReapedKeeps, ReadKeeps
           DEF AdapterNext
<1> QED  BY <1>1, <1>2, PTL DEF AdapterSpec

(***************************************************************************)
(* A prompt that succeeds returns every piece of the answer, in the order  *)
(* the agent wrote them, and one that fails the first of them, whatever the*)
(* agent does and whenever a user cancels (omp/acp.go, PromptText).        *)
(***************************************************************************)
THEOREM AnswersAreComplete == AdapterSpec => []AnswerIsComplete
<1>1. AdapterInv => AnswerIsComplete
  BY DEF AdapterInv, InOrder, PromptOver, Over, AnswerIsComplete
<1> QED  BY <1>1, AdapterInvHolds, PTL
=============================================================================
