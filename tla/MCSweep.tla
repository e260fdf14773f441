-------------------------------- MODULE MCSweep --------------------------------
(***************************************************************************)
(* Two instances of the lifecycle under the automatic sweep, over the same *)
(* variables: a behaviour belongs to one of them.  In "family" a parent    *)
(* and its child are swept by age while they are edited and timed; in      *)
(* "orphan" an archive may die anywhere and only the sweep comes back.     *)
(***************************************************************************)
EXTENDS Integers, Sequences, FiniteSets, TLC

CONSTANTS p1, p2, r1, t1, t2, NoParent, NoProc, NoRecord

VARIABLES part, task, tombstone, history, timers, index, pending, nextEvent, delivered, holder, pc, job,
          crashes, faults

DoneTask == [dir |-> "tasks", status |-> "done", completedAt |-> "recent", archivedAt |-> FALSE]

Family == INSTANCE LifecycleProperties WITH
  Tasks <- {t1, t2}, Parent <- (t1 :> NoParent @@ t2 :> t1), AutoArchiveEnabled <- TRUE, Procs <- {p1, p2},
  Reasons <- {r1}, Calls <- {"sweep", "update", "startTimer"}, InitialTasks <- {DoneTask}, MaxEvents <- 1,
  MaxCrashes <- 0, MaxFaults <- 0, SlowHooks <- TRUE

Orphan == INSTANCE LifecycleProperties WITH
  Tasks <- {t1}, Parent <- (t1 :> NoParent), AutoArchiveEnabled <- FALSE, Procs <- {p1, p2}, Reasons <- {r1},
  Calls <- {"archive", "sweep"}, InitialTasks <- {DoneTask}, MaxEvents <- 1, MaxCrashes <- 1, MaxFaults <- 0,
  SlowHooks <- TRUE

lifecycleVars == <<task, tombstone, history, timers, index, pending, nextEvent, delivered, holder, pc, job,
                   crashes, faults>>
vars == <<part, lifecycleVars>>

Init == (part = "family" /\ Family!Init) \/ (part = "orphan" /\ Orphan!Init)

Next ==
  /\ UNCHANGED part
  /\ \/ part = "family" /\ Family!Next
     \/ part = "orphan" /\ Orphan!Next

(* The fairness of the sweep, for the part that needs it.                  *)
Sweeping ==
  /\ \A p \in {p1, p2} :
       SF_lifecycleVars(part = "orphan" /\ Orphan!Step(p)) /\ WF_lifecycleVars(part = "orphan" /\ Orphan!CallSweep(p))
  /\ \A k \in Orphan!Effects : WF_lifecycleVars(part = "orphan" /\ Orphan!LeaseEnds(1, k))

FairSpec == Init /\ [][Next]_vars /\ Sweeping

(* The sweep archives a Task only after the retention age and never over a *)
(* descendant that is still to be done (LifecycleProperties).              *)
SweepRespectsRetention == [][part = "family" => Family!ArchivesRipeTasks]_vars

(* The hourly sweep empties the outbox after an archive that died anywhere *)
(* (LifecycleProperties).                                                  *)
SweepDrainsOutbox == part = "orphan" => Orphan!SweepDrainsOutbox
=============================================================================
