---------------------------- MODULE AgentWorkflow ----------------------------
(***************************************************************************)
(* The agent workflow of a project (internal/agents/omp with               *)
(* storage.AgentStore): the review gates of a Task, the runs of the coding *)
(* agent and the chats with it, driven by several browser servers over one *)
(* agent-workflows.json.                                                   *)
(*                                                                         *)
(* A server serialises its calls with Manager.mu, but two servers do not:  *)
(* each call loads the whole state file, works on its copy and saves the   *)
(* whole file, under a lock held for the load and for the save only.  A    *)
(* run is a goroutine that holds the flock of its execution root (the      *)
(* worktree of the Task, or the project workspace) and takes Manager.mu    *)
(* once more to record its end.                                            *)
(*                                                                         *)
(* A call is several steps: load, the reconciliation it may have to save,  *)
(* the effects of the action, and the snapshot it answers with, which      *)
(* loads, reconciles and saves again.                                      *)
(***************************************************************************)
EXTENDS AgentPhases

CONSTANTS
  Servers,     \* browser servers that have opened the project
  Base,        \* the project workspace
  Nobody,      \* no holder of a lock
  Actions,     \* the calls clients make in this instance
  MaxRuns,     \* bound: runs ever started
  MaxCrashes,  \* bound: exits of a server, graceful or not
  MaxFaults,   \* bound: saves that fail, adapters that die, and edits of a Task
               \* by somebody else
  MaxUpsets    \* bound: exits and faults together

Runs == 1 .. MaxRuns
NoRun == 0
Roots == Tasks \cup {Base}

AllActions ==
  {"start-agent", "start-investigation", "approve-plan", "create-worktree",
   "request-plan-changes", "commit-worktree", "merge-worktree", "complete",
   "request-implementation-changes", "start-fix", "resume", "cancel",
   "chat", "stop-chat", "snapshot"}

ASSUME BaseAssumption == Base \notin Tasks
ASSUME ServersAssumption == Nobody \notin Servers \cup Runs /\ Servers \cap Runs = {}
ASSUME ActionsAssumption == Actions \subseteq AllActions
ASSUME BoundsAssumption ==
  MaxRuns \in Nat /\ MaxCrashes \in Nat /\ MaxFaults \in Nat /\ MaxUpsets \in Nat

VARIABLES
  file,      \* agent-workflows.json: [wf: [Tasks -> Workflow], runs: [Runs -> Run or NoRun]]
  tasks,     \* [Tasks -> Task]: what the workflow reads and writes of the Task files
  tree,      \* [Roots -> {"none", "clean", "dirty"}]: working trees on disk
  branches,  \* the Tasks whose branch knowme/<project>/<task> exists
  git,       \* whether the project workspace is a Git repository
  chat,      \* [Tasks -> status of the task chat]: chats.json
  lock,      \* [Roots -> the run or the server that holds the flock]
  up,        \* the servers that run
  mu,        \* [Servers -> Nobody, the server itself for a call, or the run that holds Manager.mu]
  call,      \* [Servers -> the call Manager.mu is held for]
  active,    \* [Servers -> [Roots -> Runs or NoRun]]: Manager.active
  session,   \* [Servers -> [Tasks -> Session]]: Manager.sessions
  worker,    \* [Runs -> the goroutine of the run]
  nextRun, crashes, faults

disk == <<file, tasks, tree, branches, git, chat>>
memory == <<mu, call, active, session, worker>>
bounds == <<nextRun, crashes, faults>>
vars == <<disk, lock, up, memory, bounds>>

NoCall ==
  [op |-> "none", task |-> AnyTask, stage |-> "none", seen |-> NewTask,
   snap |-> [wf |-> [t \in Tasks |-> NewWorkflow], runs |-> [r \in Runs |-> NoRunRecord]],
   undo |-> "none"]

(* An adapter process, and the root it was started in.                     *)
Session == [state: {"none", "live", "dead"}, cwd: Roots]
NoSession == [state |-> "none", cwd |-> Base]

NoWorker ==
  [server |-> Nobody, task |-> AnyTask, root |-> Base, phase |-> "none", restore |-> "idle",
   stage |-> "none", session |-> "none", cancelled |-> FALSE, result |-> "none"]

Init ==
  /\ file = NoCall.snap
  /\ tasks = [t \in Tasks |-> NewTask]
  /\ tree = [x \in Roots |-> IF x = Base THEN "clean" ELSE "none"]
  /\ branches = {}
  /\ git \in BOOLEAN
  /\ chat = [t \in Tasks |-> "none"]
  /\ lock = [x \in Roots |-> Nobody]
  /\ up = Servers
  /\ mu = [s \in Servers |-> Nobody]
  /\ call = [s \in Servers |-> NoCall]
  /\ active = [s \in Servers |-> [x \in Roots |-> NoRun]]
  /\ session = [s \in Servers |-> [t \in Tasks |-> NoSession]]
  /\ worker = [r \in Runs |-> NoWorker]
  /\ nextRun = 1 /\ crashes = 0 /\ faults = 0

-----------------------------------------------------------------------------
MayFault == faults < MaxFaults /\ crashes + faults < MaxUpsets
MayExit == crashes < MaxCrashes /\ crashes + faults < MaxUpsets

(* Calls.  Every call holds Manager.mu from its first step to its last.    *)

SetCall(s, c) == call' = [call EXCEPT ![s] = c]
GoTo(s, stage) == SetCall(s, [call[s] EXCEPT !.stage = stage])
At(s, stage) == mu[s] = s /\ call[s].stage = stage

T(s) == call[s].task
W(s) == call[s].snap.wf[T(s)]

(* ResolveExecutionRoot fails when the recorded worktree is gone.          *)
RootOf(w, t) == IF w.worktree THEN t ELSE Base
Resolved(w, t) == tree[RootOf(w, t)] # "none"

(* The run m.active holds for the root of a workflow.                      *)
RunningInBase(s, w, t) == IF Resolved(w, t) THEN active[s][Base] ELSE NoRun
Running(s, w, t) == IF Resolved(w, t) THEN active[s][RootOf(w, t)] ELSE NoRun

(* The call returns: its deferred unlocks release a root it has locked.    *)
Leave(s) ==
  /\ mu' = [mu EXCEPT ![s] = Nobody]
  /\ SetCall(s, NoCall)
  /\ lock' = [x \in Roots |-> IF lock[x] = s THEN Nobody ELSE lock[x]]

Refuse(s) == Leave(s) /\ UNCHANGED <<disk, up, active, session, worker, bounds>>

(* Act, StartChat, StopChat and Snapshot up to their first check: the Task *)
(* and the state are read; Act reconciles its copy and saves it if that    *)
(* changed it, whatever becomes of the action.  Snapshot and StopChat have *)
(* nothing to check here.                                                  *)
Enter(s, t, op) ==
  LET st == IF op \in {"chat", "stop-chat", "snapshot"} THEN file
            ELSE Reconciled(file, t, tasks[t], Running(s, file.wf[t], t))
      stage == IF op = "snapshot" THEN "answer" ELSE IF st = file THEN "act" ELSE "reconcile"
  IN
  /\ s \in up
  /\ op \in Actions
  /\ mu[s] = Nobody
  /\ mu' = [mu EXCEPT ![s] = s]
  /\ SetCall(s, [NoCall EXCEPT !.op = op, !.task = t, !.stage = stage,
                               !.seen = tasks[t], !.snap = st])
  /\ UNCHANGED <<disk, lock, up, active, session, worker, bounds>>

(* AgentStore.Save of the copy of the call, and the stage that follows it. *)
SaveCopy(s, stage) == file' = call[s].snap /\ GoTo(s, stage)

SaveReconciled(s) ==
  /\ At(s, "reconcile")
  /\ SaveCopy(s, "act")
  /\ UNCHANGED <<tasks, tree, branches, git, chat, lock, up, mu, active, session, worker, bounds>>

Refused(s) ==
  /\ \/ At(s, "act") /\ ~Gate(call[s].op, call[s].seen, W(s))
     \/ /\ At(s, "act")
        /\ call[s].op \in {"request-plan-changes", "complete", "request-implementation-changes"}
        /\ ~Resolved(W(s), T(s))
     \/ At(s, "launch") /\ ~Resolved(W(s), T(s))
     \/ At(s, "launch") /\ Running(s, W(s), T(s)) # NoRun
     \/ At(s, "launch") /\ nextRun > MaxRuns
  /\ Refuse(s)

Allowed(s, op) == At(s, "act") /\ call[s].op = op /\ Gate(op, call[s].seen, W(s))

(* EnsureTaskWorktree for the three actions that want one; CreateTaskWorktree *)
(* refuses a directory or a branch that is there already.                  *)
WithTree(s, stage) ==
  LET t == T(s) IN
  /\ tree' = [tree EXCEPT ![t] = IF @ = "none" THEN "clean" ELSE @]
  /\ branches' = branches \cup {t}
  /\ SetCall(s, [call[s] EXCEPT !.stage = stage, !.snap.wf[t] = [W(s) EXCEPT !.worktree = TRUE]])
  /\ UNCHANGED <<file, tasks, git, chat, lock, up, mu, active, session, worker, bounds>>

StartAgent(s) == Allowed(s, "start-agent") /\ git /\ WithTree(s, "save")

PrepareRun(s) ==
  /\ \/ Allowed(s, "start-investigation")
     \/ Allowed(s, "approve-plan")
     \/ /\ Allowed(s, "create-worktree")
        /\ tree[T(s)] = "none"
        /\ T(s) \notin branches
  /\ git
  /\ ~W(s).worktree
  /\ WithTree(s, "saveTree")

NoTree(s) ==
  /\ \/ ~git /\ Allowed(s, "start-agent")
     \/ ~git /\ Allowed(s, "create-worktree")
     \/ ~git /\ Allowed(s, "approve-plan")
     \/ /\ Allowed(s, "create-worktree")
        /\ \/ tree[T(s)] # "none"
           \/ T(s) \in branches
  /\ Refuse(s)

(* The session of a Task that moves to a new worktree is closed.           *)
SaveTree(s) ==
  /\ At(s, "saveTree")
  /\ SaveCopy(s, "launch")
  /\ session' = IF call[s].op = "create-worktree"
                THEN [session EXCEPT ![s][T(s)] = NoSession] ELSE session
  /\ UNCHANGED <<tasks, tree, branches, git, chat, lock, up, mu, active, worker, bounds>>

(* The actions that go straight to startRunLocked or startChatLocked.      *)
GoLaunch(s) ==
  /\ \/ Allowed(s, "start-investigation") /\ (W(s).worktree \/ ~git)
     \/ Allowed(s, "approve-plan") /\ W(s).worktree
     \/ Allowed(s, "start-fix")
     \/ Allowed(s, "resume") /\ W(s).resume # "chat"
  /\ GoTo(s, "launch")
  /\ UNCHANGED <<disk, lock, up, mu, active, session, worker, bounds>>

ResumeChat(s) ==
  /\ Allowed(s, "resume")
  /\ W(s).resume = "chat"
  /\ SetCall(s, [call[s] EXCEPT !.op = "resume-chat", !.stage = "launch", !.snap.wf[T(s)] =
       [W(s) EXCEPT !.resume = "none", !.phase = DefaultPhase(call[s].seen, W(s))]])
  /\ UNCHANGED <<disk, lock, up, mu, active, session, worker, bounds>>

(* StartChat: a message for a Task whose chat is running is queued.        *)
StartChat(s) ==
  LET w == W(s)
      r == Running(s, w, T(s))
      own == r # NoRun /\ worker[r].task = T(s) /\ worker[r].phase = "chat"
  IN
  /\ Allowed(s, "chat")
  /\ \/ /\ call[s].seen.status = "in-progress" /\ ChatPhaseAllowed(w.phase)
        /\ Resolved(w, T(s)) /\ w.active = 0 /\ r = NoRun
        /\ GoTo(s, "launch")
        /\ UNCHANGED <<disk, lock, up, mu, active, session, worker, bounds>>
     \/ /\ \/ call[s].seen.status # "in-progress" \/ ~ChatPhaseAllowed(w.phase)
           \/ ~Resolved(w, T(s)) \/ ((w.active # 0 \/ r # NoRun) /\ ~own)
        /\ Refuse(s)
     \/ own /\ Refuse(s)

(* startRunLocked and startChatLocked, with the flock of the root: the     *)
(* chat is saved first, then the state, then the goroutine starts.  The    *)
(* wait for the flock keeps Manager.mu, and ends when it is free or when   *)
(* the client of the call gives up.                                        *)
RootUnusedHere(s, x) == active[s][x] = NoRun
RootFree(s, x) == lock[x] = Nobody

Acquire(s) ==
  LET x == RootOf(W(s), T(s)) IN
  /\ At(s, "launch")
  /\ Resolved(W(s), T(s))
  /\ active[s][x] = NoRun
  /\ nextRun <= MaxRuns
  /\ RootFree(s, x)
  /\ lock' = [lock EXCEPT ![x] = nextRun]
  /\ nextRun' = nextRun + 1
  /\ chat' = [chat EXCEPT ![T(s)] = "streaming"]
  /\ worker' = [worker EXCEPT ![nextRun] =
       [NoWorker EXCEPT !.server = s, !.task = T(s), !.root = x, !.stage = "recorded",
          !.phase = Launch(call[s].op, W(s)).run,
          !.restore = Launch(call[s].op, W(s)).restore]]
  /\ SetCall(s, [call[s] EXCEPT !.stage = "saveRun",
       !.snap = Started(@, T(s), nextRun, Launch(call[s].op, W(s)), call[s].op)])
  /\ UNCHANGED <<file, tasks, tree, branches, git, up, mu, active, session, crashes, faults>>

GiveUpAtRoot(s) == At(s, "root") /\ lock[RootOf(W(s), T(s))] # Nobody /\ Refuse(s)
GiveUp(s) ==
  /\ \/ At(s, "launch") \/ At(s, "root")
  /\ lock[RootOf(W(s), T(s))] # Nobody
  /\ Refuse(s)

Launched(s, r) == r \in Runs /\ worker[r].server = s /\ worker[r].stage = "recorded"

SaveRun(s) ==
  /\ At(s, "saveRun")
  /\ \E r \in Runs :
       /\ Launched(s, r)
       /\ active' = [active EXCEPT ![s][worker[r].root] = r]
       /\ worker' = [worker EXCEPT ![r].stage = "start"]
  /\ IF call[s].op = "chat"
     THEN file' = call[s].snap /\ Leave(s)
     ELSE SaveCopy(s, "answer") /\ UNCHANGED <<mu, lock>>
  /\ UNCHANGED <<tasks, tree, branches, git, chat, up, session, bounds>>

SaveRunFails(s) ==
  /\ At(s, "saveRun")
  /\ MayFault
  /\ faults' = faults + 1
  /\ \E r \in Runs :
       /\ Launched(s, r)
       /\ worker' = [worker EXCEPT ![r] = NoWorker]
       /\ lock' = [x \in Roots |-> IF lock[x] \in {r, s} THEN Nobody ELSE lock[x]]
  /\ mu' = [mu EXCEPT ![s] = Nobody]
  /\ SetCall(s, NoCall)
  /\ UNCHANGED <<disk, up, active, session, nextRun, crashes>>

(* The actions that lock the root themselves, until they return.           *)
LockRoot(s) ==
  \/ /\ \/ Allowed(s, "request-plan-changes")
        \/ Allowed(s, "complete")
        \/ Allowed(s, "request-implementation-changes")
     /\ Resolved(W(s), T(s))
     /\ GoTo(s, "root")
     /\ UNCHANGED <<disk, lock, up, mu, active, session, worker, bounds>>
  \/ /\ At(s, "root")
     /\ RootFree(s, RootOf(W(s), T(s)))
     /\ lock' = [lock EXCEPT ![RootOf(W(s), T(s))] = s]
     /\ IF call[s].op = "request-plan-changes"
        THEN SetCall(s, [call[s] EXCEPT !.stage = "savePlan", !.snap.wf[T(s)] =
               [W(s) EXCEPT !.phase = "idle", !.feedback = TRUE]])
        ELSE GoTo(s, "task")
     /\ UNCHANGED <<disk, up, mu, active, session, worker, bounds>>

(* RequestPlanChanges goes on to startRunLocked, which waits for the lock  *)
(* that this call holds.                                                   *)
SavePlanFeedback(s) ==
  /\ At(s, "savePlan")
  /\ SaveCopy(s, "launch")
  /\ UNCHANGED <<tasks, tree, branches, git, chat, lock, up, mu, active, session, worker, bounds>>

-----------------------------------------------------------------------------
(* Review: commit, merge, completion and requested changes.                *)

Commit(s) ==
  /\ Allowed(s, "commit-worktree")
  /\ tree[T(s)] # "none"
  /\ tree' = [tree EXCEPT ![T(s)] = "clean"]
  /\ SetCall(s, [call[s] EXCEPT !.stage = "save", !.snap.wf[T(s)] =
       [W(s) EXCEPT !.phase = "ready-to-merge", !.commit = TRUE]])
  /\ UNCHANGED <<file, tasks, branches, git, chat, lock, up, mu, active, session, worker, bounds>>

(* MergeTaskWorktree merges the branch, removes the worktree by force and  *)
(* deletes the branch.                                                     *)
Merge(s) ==
  /\ Allowed(s, "merge-worktree")
  /\ tree[Base] = "clean"
  /\ T(s) \in branches
  /\ tree' = [tree EXCEPT ![T(s)] = "none"]
  /\ branches' = branches \ {T(s)}
  /\ GoTo(s, "task")
  /\ UNCHANGED <<file, tasks, git, chat, lock, up, mu, active, session, worker, bounds>>

(* A missing worktree or branch, a dirty workspace and a conflict refuse.  *)
GitRefuses(s) ==
  /\ \/ Allowed(s, "commit-worktree") /\ tree[T(s)] = "none"
     \/ Allowed(s, "merge-worktree")
  /\ Refuse(s)

NextStatus(op, status) ==
  CASE op = "merge-worktree" -> "done"
    [] op = "complete" -> IF status = "in-review" THEN status ELSE "done"
    [] OTHER -> "in-progress"

UpdateTask(s) ==
  LET t == T(s) IN
  /\ At(s, "task")
  /\ tasks' = [tasks EXCEPT ![t].status = NextStatus(call[s].op, @)]
  /\ SetCall(s, [call[s] EXCEPT !.stage = "save", !.undo = call[s].seen.status, !.snap.wf[t] =
       [W(s) EXCEPT
          !.phase = IF call[s].op = "request-implementation-changes" THEN "fix-ready" ELSE "completed",
          !.worktree = @ /\ call[s].op # "merge-worktree"]])
  /\ UNCHANGED <<file, tree, branches, git, chat, lock, up, mu, active, session, worker, bounds>>

Save(s) ==
  /\ At(s, "save")
  /\ SaveCopy(s, "answer")
  /\ session' = IF call[s].op \in {"merge-worktree", "complete"}
                THEN [session EXCEPT ![s][T(s)] = NoSession] ELSE session
  /\ UNCHANGED <<tasks, tree, branches, git, chat, lock, up, mu, active, worker, bounds>>

(* A failed save gives the Task its status back.                           *)
SaveFails(s) ==
  /\ At(s, "save")
  /\ MayFault
  /\ faults' = faults + 1
  /\ tasks' = IF call[s].undo = "none" THEN tasks
              ELSE [tasks EXCEPT ![T(s)].status = call[s].undo]
  /\ Leave(s)
  /\ UNCHANGED <<file, tree, branches, git, chat, up, active, session, worker,
                 nextRun, crashes>>

-----------------------------------------------------------------------------
(* Cancel and StopChat cancel the context of the run and close its adapter.*)

(* The adapter of a run that has one; the entry in Manager.sessions stays. *)
Stop(s, r) ==
  LET attached == worker[r].stage = "prompt" IN
  /\ worker' = [worker EXCEPT ![r].cancelled = TRUE,
                              ![r].session = IF attached THEN "dead" ELSE @]
  /\ session' = IF attached /\ session[s][worker[r].task].state # "none"
                THEN [session EXCEPT ![s][worker[r].task].state = "dead"] ELSE session

Cancel(s) ==
  LET r == Running(s, W(s), T(s)) IN
  /\ Allowed(s, "cancel")
  /\ IF r = NoRun THEN Refuse(s)
     ELSE /\ Stop(s, r)
          /\ GoTo(s, "answer")
          /\ UNCHANGED <<disk, lock, up, mu, active, bounds>>

StopChat(s) ==
  LET r == Running(s, W(s), T(s)) IN
  /\ Allowed(s, "stop-chat")
  /\ IF r # NoRun /\ worker[r].task = T(s) /\ worker[r].phase = "chat"
     THEN Stop(s, r) ELSE UNCHANGED <<worker, session>>
  /\ Leave(s)
  /\ UNCHANGED <<disk, up, active, bounds>>

-----------------------------------------------------------------------------
(* The snapshot every successful action answers with: a chat session is    *)
(* bound to the workflow, and the workflow reconciled, each with a load    *)
(* and a save of its own.                                                  *)
Answer(s) ==
  LET t == T(s)
      rec == Reconciled(file, t, tasks[t], Running(s, file.wf[t], t))
  IN
  /\ At(s, "answer")
  /\ IF ~file.wf[t].chat
     THEN /\ SetCall(s, [call[s] EXCEPT !.stage = "saveChat", !.snap =
               [file EXCEPT !.wf[t].chat = TRUE]])
          /\ chat' = [chat EXCEPT ![t] = IF @ = "none" THEN "idle" ELSE @]
          /\ UNCHANGED <<mu, lock>>
     ELSE IF rec # file
     THEN /\ SetCall(s, [call[s] EXCEPT !.stage = "saveAnswer", !.snap = rec])
          /\ UNCHANGED <<chat, mu, lock>>
     ELSE Leave(s) /\ UNCHANGED chat
  /\ UNCHANGED <<file, tasks, tree, branches, git, up, active, session, worker, bounds>>

SaveAnswer(s) ==
  \/ /\ At(s, "saveChat")
     /\ SaveCopy(s, "answer")
     /\ UNCHANGED <<tasks, tree, branches, git, chat, lock, up, mu, active, session, worker, bounds>>
  \/ /\ At(s, "saveAnswer")
     /\ file' = call[s].snap
     /\ Leave(s)
     /\ UNCHANGED <<tasks, tree, branches, git, chat, up, active, session, worker, bounds>>

-----------------------------------------------------------------------------
(* The goroutine of a run.                                                 *)

Step(r, stage, sess, result) ==
  worker' = [worker EXCEPT ![r].stage = stage, ![r].session = sess, ![r].result = result]

(* ensureSession: the session the server remembers, whatever its state and *)
(* its root, or a new adapter in the root of the run.  An adapter that     *)
(* cannot load the recorded ACP session is remembered even when it cannot  *)
(* open a new one either.                                                  *)
Remembered(w) == session[w.server][w.task]
Known(w) == file.wf[w.task].session

EnsureSession(r) ==
  LET w == worker[r]
      New(state) == session' = [session EXCEPT ![w.server][w.task] =
                                  [state |-> state, cwd |-> w.root]]
  IN
  /\ w.stage = "start"
  /\ \/ /\ Remembered(w).state # "none"
        /\ Step(r, "prompt", Remembered(w).state, "none")
        /\ UNCHANGED <<session, faults>>
     \/ /\ Remembered(w).state = "none"
        /\ \/ /\ ~w.cancelled
              /\ New("live") /\ Step(r, "prompt", "live", "none")
              /\ UNCHANGED faults
           \/ /\ w.cancelled
              /\ Step(r, "finish", "none", "cancelled")
              /\ UNCHANGED <<session, faults>>
           \/ /\ w.cancelled /\ Known(w)
              /\ New("dead") /\ Step(r, "prompt", "dead", "none")
              /\ UNCHANGED faults
           \/ /\ MayFault
              /\ faults' = faults + 1
              /\ IF Known(w) THEN New("dead") /\ Step(r, "prompt", "dead", "none")
                 ELSE Step(r, "finish", "none", "failed") /\ UNCHANGED session
  /\ UNCHANGED <<disk, lock, up, mu, call, active, nextRun, crashes>>

(* The adapter edits its own root in the mode that allows it: implementation   *)
(* and fix runs, and chats in some phases.                                 *)
MayEdit(w) ==
  \/ w.phase \in {"implementation", "fix"}
  \/ w.phase = "chat" /\ w.restore \in {"implementing", "code-review", "fix-ready"}

Edit(r) ==
  LET w == worker[r]
      cwd == Remembered(w).cwd
  IN
  /\ w.stage = "prompt" /\ w.session = "live" /\ MayEdit(w)
  /\ tree[cwd] = "clean"
  /\ tree' = [tree EXCEPT ![cwd] = "dirty"]
  /\ UNCHANGED <<file, tasks, branches, git, chat, lock, up, memory, bounds>>

(* Prompt returns: an answer, an error of an agent that lives on, a dead   *)
(* transport or a cancelled context, whichever select takes when more than *)
(* one is ready.                                                           *)
PromptReturns(r) ==
  LET w == worker[r] IN
  /\ w.stage = "prompt"
  /\ \/ /\ w.session = "live"
        /\ Step(r, IF w.phase = "chat" THEN "finish" ELSE "apply", w.session, "ok")
     \/ Step(r, "finish", w.session, "failed")
     \/ w.cancelled /\ Step(r, "finish", w.session, "cancelled")
  /\ UNCHANGED <<disk, lock, up, mu, call, active, session, bounds>>

AdapterDies(s, t) ==
  /\ session[s][t].state = "live"
  /\ MayFault
  /\ faults' = faults + 1
  /\ session' = [session EXCEPT ![s][t].state = "dead"]
  /\ worker' = [r \in Runs |->
       IF worker[r].server = s /\ worker[r].task = t /\ worker[r].session = "live"
       THEN [worker[r] EXCEPT !.session = "dead"] ELSE worker[r]]
  /\ UNCHANGED <<disk, lock, up, mu, call, active, nextRun, crashes>>

(* applyResult, without Manager.mu: the answer may hold a plan and notes.  *)
ApplyResult(r) ==
  LET w == worker[r] IN
  /\ w.stage = "apply"
  /\ \E plan, notes \in BOOLEAN :
       tasks' = [tasks EXCEPT
         ![w.task].plan = @ \/ (plan /\ w.phase = "investigation"),
         ![w.task].notes = @ \/ notes]
  /\ Step(r, "finish", w.session, "ok")
  /\ UNCHANGED <<file, tree, branches, git, chat, lock, up, mu, call, active, session, bounds>>

(* A cancelled chat is idle again, any other run that failed is an error.  *)
ChatAfter(w) ==
  IF w.result = "ok" \/ (w.result = "cancelled" /\ w.phase = "chat") THEN "idle" ELSE "error"

(* finishRun and finishChatRun: the root is no longer active, whoever has  *)
(* it, the copy is loaded and saved under Manager.mu, and a failed save is *)
(* ignored.  A run that is missing in the file is given up: its chat keeps *)
(* the status it has.  The flock is released last.                         *)
Ended(r) ==
  /\ mu' = [mu EXCEPT ![worker[r].server] = Nobody]
  /\ SetCall(worker[r].server, NoCall)
  /\ lock' = [lock EXCEPT ![worker[r].root] = Nobody]
  /\ worker' = [worker EXCEPT ![r] = NoWorker]

FinishLoad(r) ==
  LET w == worker[r] IN
  /\ w.stage = "finish"
  /\ mu[w.server] = Nobody
  /\ active' = [active EXCEPT ![w.server][w.root] = NoRun]
  /\ IF file.runs[r] = NoRunRecord
     THEN Ended(r)
     ELSE /\ mu' = [mu EXCEPT ![w.server] = r]
          /\ SetCall(w.server, [NoCall EXCEPT !.task = w.task,
               !.snap = Finished(file, w.task, r, w.phase, w.restore, w.result,
                                 w.session # "none")])
          /\ worker' = [worker EXCEPT ![r].stage = "end"]
          /\ UNCHANGED lock
  /\ UNCHANGED <<disk, up, session, bounds>>

FinishSave(r) ==
  LET w == worker[r] IN
  /\ w.stage = "end"
  /\ \/ file' = call[w.server].snap /\ UNCHANGED faults
     \/ MayFault /\ faults' = faults + 1 /\ UNCHANGED file
  /\ chat' = [chat EXCEPT ![w.task] = ChatAfter(w)]
  /\ Ended(r)
  /\ UNCHANGED <<tasks, tree, branches, git, up, active, session, nextRun, crashes>>

-----------------------------------------------------------------------------
(* Servers stop, die and start again.                                      *)

(* Manager.Close, when the HTTP server has drained its calls.  Left out:   *)
(* the server waits for them for five seconds only, and a call that still  *)
(* waits for the mutex then enters the closed manager, until the process   *)
(* ends; of the calls only StartChat looks at its closing flag.            *)
Close(s) ==
  /\ s \in up /\ mu[s] = Nobody
  /\ MayExit
  /\ crashes' = crashes + 1
  /\ up' = up \ {s}
  /\ worker' = [r \in Runs |->
       IF r \notin {active[s][x] : x \in Roots} THEN worker[r]
       ELSE [worker[r] EXCEPT !.cancelled = TRUE,
                              !.session = IF worker[r].stage = "prompt" THEN "dead" ELSE @]]
  /\ active' = [active EXCEPT ![s] = [x \in Roots |-> NoRun]]
  /\ session' = [session EXCEPT ![s] = [t \in Tasks |-> NoSession]]
  /\ UNCHANGED <<disk, lock, mu, call, nextRun, faults>>

WorkersOf(s) == {r \in Runs : worker[r].server = s}

(* The process ends: its goroutines are gone and its flocks released.      *)
Gone(s) ==
  /\ worker' = [r \in Runs |-> IF r \in WorkersOf(s) THEN NoWorker ELSE worker[r]]
  /\ lock' = [x \in Roots |-> IF lock[x] \in WorkersOf(s) \cup {s} THEN Nobody ELSE lock[x]]
  /\ mu' = [mu EXCEPT ![s] = Nobody]
  /\ SetCall(s, NoCall)
  /\ active' = [active EXCEPT ![s] = [x \in Roots |-> NoRun]]
  /\ session' = [session EXCEPT ![s] = [t \in Tasks |-> NoSession]]

Crash(s) ==
  /\ s \in up
  /\ MayExit
  /\ crashes' = crashes + 1
  /\ up' = up \ {s}
  /\ Gone(s)
  /\ UNCHANGED <<disk, nextRun, faults>>

Exit(s) ==
  /\ s \notin up /\ WorkersOf(s) # {}
  /\ Gone(s)
  /\ UNCHANGED <<disk, up, bounds>>

(* NewServer: MarkAllIdle, then MarkRunningInterrupted, under a lock of    *)
(* the project that only this function takes.                              *)
Restart(s) ==
  /\ s \notin up /\ WorkersOf(s) = {}
  /\ \A o \in Servers : ~At(o, "recover")
  /\ up' = up \cup {s}
  /\ chat' = [t \in Tasks |-> IF chat[t] = "streaming" THEN "idle" ELSE chat[t]]
  /\ IF Interrupted(file) = file THEN UNCHANGED <<mu, call>>
     ELSE /\ mu' = [mu EXCEPT ![s] = s]
          /\ SetCall(s, [NoCall EXCEPT !.op = "recover", !.stage = "recover",
                                       !.snap = Interrupted(file)])
  /\ UNCHANGED <<file, tasks, tree, branches, git, lock, active, session, worker, bounds>>

SaveRecovered(s) ==
  /\ At(s, "recover")
  /\ file' = call[s].snap
  /\ Leave(s)
  /\ UNCHANGED <<tasks, tree, branches, git, chat, up, active, session, worker, bounds>>

(* Others change the Task: its status, its plan, its notes.                *)
EditTask(t) ==
  /\ MayFault
  /\ faults' = faults + 1
  /\ \/ \E status \in TaskStatus : tasks' = [tasks EXCEPT ![t].status = status]
     \/ tasks' = [tasks EXCEPT ![t].plan = TRUE]
     \/ tasks' = [tasks EXCEPT ![t].notes = TRUE]
  /\ UNCHANGED <<file, tree, branches, git, chat, lock, up, memory, nextRun, crashes>>

-----------------------------------------------------------------------------
CallStep(s) ==
  \/ SaveReconciled(s) \/ Refused(s) \/ StartAgent(s) \/ PrepareRun(s) \/ NoTree(s)
  \/ SaveTree(s) \/ GoLaunch(s) \/ ResumeChat(s) \/ StartChat(s) \/ Acquire(s) \/ GiveUp(s)
  \/ SaveRun(s) \/ LockRoot(s) \/ SavePlanFeedback(s) \/ Commit(s) \/ Merge(s) \/ GitRefuses(s)
  \/ UpdateTask(s) \/ Save(s) \/ Cancel(s) \/ StopChat(s) \/ Answer(s) \/ SaveAnswer(s)
  \/ SaveRecovered(s)

RunStep(r) ==
  EnsureSession(r) \/ PromptReturns(r) \/ ApplyResult(r) \/ FinishLoad(r) \/ FinishSave(r)

Environment ==
  \/ \E s \in Servers : \/ SaveRunFails(s) \/ SaveFails(s)
                        \/ Close(s) \/ Crash(s) \/ Exit(s) \/ Restart(s)
  \/ \E s \in Servers, t \in Tasks : AdapterDies(s, t)
  \/ \E r \in Runs : Edit(r)
  \/ \E t \in Tasks : EditTask(t)

Next ==
  \/ \E s \in Servers, t \in Tasks, op \in Actions : Enter(s, t, op)
  \/ \E s \in Servers : CallStep(s)
  \/ \E r \in Runs : RunStep(r)
  \/ Environment

Spec == Init /\ [][Next]_vars

(* Fairness.  A handler that can take its next step takes it, and a client *)
(* gives up on a call that waits.  Nobody has to make a call, and no run   *)
(* has to go on: a call that waits for a root does not count on the run    *)
(* that holds it.                                                          *)
FairSpec == Spec /\ \A s \in Servers : WF_vars(CallStep(s))

-----------------------------------------------------------------------------
(* Properties.                                                             *)

Workflow ==
  [phase : Phases, active : Runs \cup {NoRun}, session : BOOLEAN, worktree : BOOLEAN,
   commit : BOOLEAN, chat : BOOLEAN, resume : RunPhases \cup {"none"}, feedback : BOOLEAN]
RunRecord ==
  [task : Tasks, phase : RunPhases \cup {"none"}, status : RunStatus \cup {"none"}]
State == [wf : [Tasks -> Workflow], runs : [Runs -> RunRecord]]
Worker ==
  [server : Servers \cup {Nobody}, task : Tasks, root : Roots,
   phase : RunPhases \cup {"none"}, restore : Phases,
   stage : {"none", "recorded", "start", "prompt", "apply", "finish", "end"},
   session : {"none", "live", "dead"}, cancelled : BOOLEAN,
   result : {"none", "ok", "failed", "cancelled"}]
Calls ==
  [op : AllActions \cup {"none", "resume-chat", "recover"}, task : Tasks,
   stage : {"none", "reconcile", "act", "saveTree", "launch", "root", "savePlan", "task",
            "save", "saveRun", "answer", "saveChat", "saveAnswer", "recover"},
   seen : Task, snap : State, undo : TaskStatus \cup {"none"}]

(* Every variable keeps its type, the file among them: no sequence of      *)
(* calls stores a phase or a run the models do not know.                   *)
TypeOK ==
  /\ file \in State
  /\ tasks \in [Tasks -> Task]
  /\ tree \in [Roots -> {"none", "clean", "dirty"}]
  /\ branches \subseteq Tasks
  /\ git \in BOOLEAN
  /\ chat \in [Tasks -> {"none", "idle", "streaming", "error"}]
  /\ lock \in [Roots -> Runs \cup Servers \cup {Nobody}]
  /\ up \subseteq Servers
  /\ mu \in [Servers -> Runs \cup Servers \cup {Nobody}]
  /\ call \in [Servers -> Calls]
  /\ active \in [Servers -> [Roots -> Runs \cup {NoRun}]]
  /\ session \in [Servers -> [Tasks -> Session]]
  /\ worker \in [Runs -> Worker]
  /\ nextRun \in 1 .. MaxRuns + 1
  /\ crashes \in 0 .. MaxCrashes /\ faults \in 0 .. MaxFaults

Works(r) == worker[r].stage # "none"

(* "Agent run locks prevent two Codex runs from editing the same project": *)
(* a run holds the flock of its root from before it is recorded until its  *)
(* end is, so no root has two runs, whichever servers started them.        *)
WorkspaceIsExclusive ==
  \A r, q \in Runs : Works(r) /\ Works(q) /\ worker[r].root = worker[q].root => r = q

(* A server never takes a run that it executes itself for lost, while the  *)
(* root of the run is there: where its copy of the state has the run       *)
(* interrupted, the copy or the file had it so before, by the hand of      *)
(* another server.                                                         *)
OwnRunIsNotLost ==
  [][\A s \in up, r \in Runs :
       /\ Works(r) /\ worker[r].server = s /\ tree[worker[r].root] # "none"
       /\ call'[s].snap.runs[r].status = "interrupted"
       => "interrupted" \in {call[s].snap.runs[r].status, file.runs[r].status}]_vars

(* With one server, a run that works is the active run of its workflow and *)
(* is recorded as running, whatever calls, faults and edits go on.         *)
LiveRunIsRecorded ==
  \A r \in Runs :
    worker[r].stage \in {"start", "prompt", "apply", "finish", "end"} =>
      /\ file.wf[worker[r].task].active = r
      /\ file.runs[r].status = "running"

(* Every call returns, although some of them wait, with Manager.mu, for a  *)
(* root that only a run which needs Manager.mu gives free.                 *)
CallsReturn == \A s \in Servers : mu[s] = s ~> mu[s] # s

=============================================================================
