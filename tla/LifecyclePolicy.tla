--------------------------- MODULE LifecyclePolicy ---------------------------
(***************************************************************************)
(* The pure part of package tasklifecycle: what a Task file says about the *)
(* lifecycle of the Task, how a status change moves its clocks, and when a *)
(* Task may be archived.  Nothing here has a state of its own.             *)
(*                                                                         *)
(* Time is abstracted to what the policy tells apart: a completion clock   *)
(* is absent ("none"), younger than the retention age ("recent") or older  *)
(* ("aged").  "todo" stands for every status other than "done".            *)
(*                                                                         *)
(* EligibleBeforeChildren is a mutation of Eligible.                       *)
(***************************************************************************)
EXTENDS FiniteSets

CONSTANTS
  Tasks,              \* the Task identifiers
  NoParent,           \* the parent of a Task that has none
  Parent,             \* [Tasks -> Tasks \cup {NoParent}]
  AutoArchiveEnabled  \* the project setting AutoArchive

ASSUME ParentAssumption ==
  /\ Parent \in [Tasks -> Tasks \cup {NoParent}]
  /\ NoParent \notin Tasks

ASSUME SettingsAssumption == AutoArchiveEnabled \in BOOLEAN

Status == {"todo", "done"}

(* The lifecycle content of a Task file.  dir is the directory the file is *)
(* in (Task.Archived is derived from it), "none" when there is no file.    *)
TaskData ==
  [dir: {"none", "tasks", "archive"}, status: Status,
   completedAt: {"none", "recent", "aged"}, archivedAt: BOOLEAN]

NoTask ==
  [dir |-> "none", status |-> "todo", completedAt |-> "none",
   archivedAt |-> FALSE]

(* A Task as the create commands build it before they store it.            *)
NewTask == [NoTask EXCEPT !.dir = "tasks"]

Exists(d) == d.dir # "none"
Archived(d) == d.dir = "archive"

ApplyStatusTransition(d, status) ==
  IF d.status = status THEN d
  ELSE IF status = "done"
  THEN [d EXCEPT !.status = status, !.completedAt = "recent", !.archivedAt = FALSE]
  ELSE IF d.status = "done" \/ Archived(d)
  THEN [d EXCEPT !.status = status, !.completedAt = "none", !.archivedAt = FALSE]
  ELSE [d EXCEPT !.status = status]

(* What Archive and Reopen want the Task to become.                        *)
ArchivedForm(d) == [d EXCEPT !.dir = "archive", !.archivedAt = TRUE]

ReopenedForm(d, status) ==
  [ApplyStatusTransition([d EXCEPT !.dir = "tasks"], status)
     EXCEPT !.completedAt = "none", !.archivedAt = FALSE]

(* The breadth-first walk of unfinishedDescendants visits exactly the      *)
(* least set that holds the children of t and is closed under "child of an *)
(* existing Task".                                                         *)
ChildrenIn(tasks, t) == {c \in Tasks : Parent[c] = t /\ Exists(tasks[c])}

ClosedUnderChildren(tasks, S) == \A c \in S : ChildrenIn(tasks, c) \subseteq S

Descendants(tasks, t) ==
  {d \in Tasks \ {t} :
     \A S \in SUBSET Tasks :
       (ChildrenIn(tasks, t) \subseteq S /\ ClosedUnderChildren(tasks, S)) => d \in S}

UnfinishedDescendants(tasks, t) ==
  {d \in Descendants(tasks, t) : ~Archived(tasks[d]) /\ tasks[d].status # "done"}

(* evaluateInTransaction: the Task may be archived when no reason speaks   *)
(* against it.  automatic is set for the sweep: only then do the setting   *)
(* and the retention age count.                                            *)
EligibleBeforeChildren(tasks, timers, t, automatic) ==
  /\ tasks[t].dir = "tasks"
  /\ tasks[t].status = "done"
  /\ automatic => AutoArchiveEnabled /\ tasks[t].completedAt = "aged"
  /\ t \notin timers

Eligible(tasks, timers, t, automatic) ==
  /\ tasks[t].dir = "tasks"
  /\ tasks[t].status = "done"
  /\ automatic => AutoArchiveEnabled /\ tasks[t].completedAt = "aged"
  /\ t \notin timers
  /\ UnfinishedDescendants(tasks, t) = {}
=============================================================================
