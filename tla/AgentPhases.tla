----------------------------- MODULE AgentPhases -----------------------------
(***************************************************************************)
(* The gates of the agent workflow: the phases of a Task, which action is  *)
(* allowed in which of them, and what reconcileWorkflowLocked makes of a   *)
(* workflow whose run is gone.                                             *)
(***************************************************************************)
EXTENDS Integers

CONSTANT Tasks

ASSUME TasksAssumption == Tasks # {}

Phases ==
  {"idle", "investigating", "plan-review", "implementing", "interrupted",
   "code-review", "fix-ready", "ready-to-merge", "completed"}
RunPhases == {"investigation", "implementation", "fix", "chat"}
RunStatus == {"running", "succeeded", "failed", "cancelled", "interrupted"}
TaskStatus == {"in-progress", "in-review", "done"}

AnyTask == CHOOSE t \in Tasks : TRUE

(* What the workflow reads of a Task: its status, and whether it has an    *)
(* implementation plan and implementation notes.                           *)
Task == [status: TaskStatus, plan: BOOLEAN, notes: BOOLEAN]
NewTask == [status |-> "in-progress", plan |-> FALSE, notes |-> FALSE]

(* AgentWorkflow.  active is a run or 0; session, worktree, commit and chat*)
(* say whether OMPSessionID, WorktreePath, WorktreeCommit and ChatSessionID*)
(* are set; feedback, that ReviewComments holds a comment on the plan that *)
(* no investigation has been started since.                                *)
NewWorkflow ==
  [phase |-> "idle", active |-> 0, session |-> FALSE, worktree |-> FALSE,
   commit |-> FALSE, chat |-> FALSE, resume |-> "none", feedback |-> FALSE]

NoRunRecord == [task |-> AnyTask, phase |-> "none", status |-> "none"]

(* runningPhaseForRun and restorePhaseForRun.                              *)
RunningPhase(p) ==
  CASE p = "investigation" -> "investigating"
    [] p \in {"implementation", "fix"} -> "implementing"
    [] OTHER -> "idle"

RestorePhase(p) ==
  CASE p = "implementation" -> "plan-review"
    [] p = "fix" -> "fix-ready"
    [] OTHER -> "idle"

(* defaultPhaseForTask: the phase of a workflow whose running phase has    *)
(* lost its run.                                                           *)
DefaultPhase(task, w) ==
  CASE task.status = "done" -> "completed"
    [] task.status = "in-review" -> "code-review"
    [] task.status = "in-progress" /\ w.commit -> "ready-to-merge"
    [] task.status = "in-progress" /\ ~w.commit
         /\ w.phase \in {"code-review", "fix-ready", "plan-review"} -> w.phase
    [] OTHER -> IF task.notes THEN "code-review"
                ELSE IF task.plan THEN "plan-review" ELSE "idle"

ChatPhaseAllowed(p) ==
  p \in {"idle", "plan-review", "code-review", "fix-ready", "completed"}

(* The condition each action checks before its first effect.               *)
Working(task, w, phases) ==
  task.status = "in-progress" /\ w.active = 0 /\ w.phase \in phases

Gate(op, task, w) ==
  CASE op \in {"start-agent", "start-investigation"} -> Working(task, w, {"idle"})
    [] op = "resume" -> /\ Working(task, w, {"interrupted"})
                        /\ w.session /\ w.resume # "none"
    [] op = "approve-plan" -> Working(task, w, {"plan-review"})
    [] op = "create-worktree" -> Working(task, w, {"plan-review"}) /\ ~w.worktree
    [] op = "request-plan-changes" -> w.phase = "plan-review" /\ w.active = 0
    [] op = "commit-worktree" -> w.phase = "code-review" /\ w.active = 0 /\ w.worktree
    [] op = "merge-worktree" -> w.phase = "ready-to-merge" /\ w.active = 0 /\ w.worktree
    [] op \in {"complete", "request-implementation-changes"} ->
         w.phase \in {"code-review", "ready-to-merge"} /\ w.active = 0
    [] op = "start-fix" -> Working(task, w, {"fix-ready"})
    [] op = "cancel" -> w.active # 0
    [] OTHER -> TRUE

(* The run an action starts: its phase, the phase of the workflow while it *)
(* runs and the phase a cancelled run gives back.                          *)
Launch(op, w) ==
  CASE op \in {"start-investigation", "request-plan-changes"} ->
         [run |-> "investigation", phase |-> "investigating", restore |-> "idle"]
    [] op \in {"approve-plan", "create-worktree"} ->
         [run |-> "implementation", phase |-> "implementing", restore |-> "plan-review"]
    [] op = "start-fix" ->
         [run |-> "fix", phase |-> "implementing", restore |-> "fix-ready"]
    [] op = "resume" /\ w.resume # "chat" ->
         [run |-> w.resume, phase |-> RunningPhase(w.resume), restore |-> RestorePhase(w.resume)]
    [] OTHER -> [run |-> "chat", phase |-> w.phase, restore |-> w.phase]

(* reconcileWorkflowLocked, of the state st for the Task t: a run that is  *)
(* not the one this server executes in its root is interrupted, a running  *)
(* phase without a run is replaced, and the phase follows a Task that is   *)
(* done or has a plan.                                                     *)
ReconciledByFile(st, t, task, running) ==
  [wf |-> [st.wf EXCEPT ![t].active = 0],
   runs |-> [r \in DOMAIN st.runs |->
               IF r = st.wf[t].active THEN [st.runs[r] EXCEPT !.status = "interrupted"]
               ELSE st.runs[r]]]

Reconciled(st, t, task, running) ==
  LET w == st.wf[t]
      lost == w.active # 0 /\ running # w.active
      a == IF lost THEN 0 ELSE w.active
      p == IF a = 0 /\ w.phase \in {"investigating", "implementing"}
           THEN DefaultPhase(task, w) ELSE w.phase
      q == IF task.status = "done" THEN "completed"
           ELSE IF a = 0 /\ p = "idle" /\ task.plan THEN "plan-review" ELSE p
  IN [wf |-> [st.wf EXCEPT ![t].active = a, ![t].phase = q],
      runs |-> [r \in DOMAIN st.runs |->
                  IF lost /\ r = w.active /\ st.runs[r].status = "running"
                  THEN [st.runs[r] EXCEPT !.status = "interrupted"] ELSE st.runs[r]]]

(* MarkRunningInterrupted, of the state st, at the start of a server.      *)
Interrupted(st) ==
  LET hit == {r \in DOMAIN st.runs : st.runs[r].status = "running"}
      of(t) == {r \in hit : st.runs[r].task = t}
      last(t) == CHOOSE r \in of(t) : \A q \in of(t) : q <= r
  IN [wf |-> [t \in Tasks |->
        IF of(t) = {} THEN st.wf[t]
        ELSE [st.wf[t] EXCEPT !.active = 0, !.phase = "interrupted",
                              !.resume = st.runs[last(t)].phase]],
      runs |-> [r \in DOMAIN st.runs |->
        IF r \in hit THEN [st.runs[r] EXCEPT !.status = "interrupted"] ELSE st.runs[r]]]

(* finishRun and finishChatRun, of the state st: the run ends with the     *)
(* given result ("ok", "cancelled" or "failed"); known says that its       *)
(* session has an ID.                                                      *)
Finished(st, t, r, phase, restore, result, known) ==
  LET after ==
        CASE result = "cancelled" -> restore
          [] result = "failed" -> "interrupted"
          [] result = "ok" /\ phase = "investigation" -> "plan-review"
          [] result = "ok" /\ phase \in {"implementation", "fix"} -> "code-review"
          [] OTHER -> st.wf[t].phase
      status == CASE result = "ok" -> "succeeded" [] OTHER -> result
  IN [wf |-> [st.wf EXCEPT ![t] = [st.wf[t] EXCEPT
        !.active = 0, !.phase = after, !.session = @ \/ known,
        !.resume = IF result = "failed" THEN phase ELSE @]],
      runs |-> [st.runs EXCEPT ![r].status = status]]

(* startRunLocked and startChatLocked, of the state st: the run r of the   *)
(* Task t is recorded before its goroutine starts.  A gated run clears     *)
(* ResumePhase; a resumed chat has cleared it already.                     *)
Started(st, t, r, launch, op) ==
  [wf |-> [st.wf EXCEPT ![t] = [st.wf[t] EXCEPT
     !.active = r, !.phase = launch.phase, !.chat = TRUE,
     !.resume = IF op = "chat" THEN @ ELSE "none",
     !.feedback = IF launch.run = "investigation" THEN FALSE ELSE @]],
   runs |-> [st.runs EXCEPT
     ![r] = [task |-> t, phase |-> launch.run, status |-> "running"]]]
=============================================================================
