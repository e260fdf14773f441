---------------------------- MODULE MCInterruptions ----------------------------
(***************************************************************************)
(* Three instances of the lifecycle of one Task under two processes, over  *)
(* the same variables: a behaviour belongs to one of them.  In "recreate", *)
(* to which the constants of the configuration belong, creates and timers  *)
(* race a hard-delete that may die; in "crash" a process may die between   *)
(* any two writes of an archive, a reopen or a hard-delete; in "fault" a   *)
(* write, a wait or a hook may fail.                                       *)
(***************************************************************************)
EXTENDS LifecycleProperties, TLC

CONSTANTS p1, p2, r1, t1

VARIABLE part

OneTaskNoParent == [t \in {t1} |-> NoParent]
DoneTask == [dir |-> "tasks", status |-> "done", completedAt |-> "recent", archivedAt |-> FALSE]
ArchivedTask == [DoneTask EXCEPT !.dir = "archive", !.archivedAt = TRUE]

(* A Task moved into the archive by an old version has no archivedAt.      *)
NoneOrOld == {NoTask, [ArchivedTask EXCEPT !.archivedAt = FALSE]}

DeathInArchive == INSTANCE LifecycleProperties WITH
  Calls <- {"archive", "reopen", "delete"}, InitialTasks <- {DoneTask}

FailingWrite == INSTANCE LifecycleProperties WITH
  Calls <- {"archive", "reopen", "update"}, InitialTasks <- {DoneTask, ArchivedTask},
  MaxEvents <- 1, MaxCrashes <- 0, MaxFaults <- 1

SuiteInit ==
  \/ part = "recreate" /\ Init
  \/ part = "crash" /\ DeathInArchive!Init
  \/ part = "fault" /\ FailingWrite!Init

(* Two reopens or two hard-deletes at once, with a death, are in "recreate".*)
NewKind ==
  \A p, q \in Procs :
    p # q /\ pc[p] = "idle" /\ pc'[p] # "idle" /\ pc[q] # "idle" /\ job'[p].op # "archive" => job[q].op # job'[p].op

SuiteNext ==
  /\ UNCHANGED part
  /\ \/ part = "recreate" /\ Next
     \/ part = "crash" /\ DeathInArchive!Next /\ NewKind
     \/ part = "fault" /\ FailingWrite!Next

SuiteSpec == SuiteInit /\ [][SuiteNext]_<<part, vars>>

ProcSymmetry == Permutations({p1, p2})

(* These are stated in LifecycleProperties.                                *)
CrashLagIsRecorded == part = "crash" => DeathInArchive!IndexLagIsRecorded
FailedMoveIsRecorded == part = "fault" => FailingWrite!HalfDoneIsRecorded

(* A mutation patches, and a rollback restores, only what it finds as its  *)
(* record describes it: an edit that was accepted in between would be lost.*)
NoLostEdit == [][part = "fault" => FailingWrite!PatchesKnown]_<<part, vars>>
=============================================================================
