------------------------- MODULE LifecycleProperties -------------------------
(***************************************************************************)
(* What the Task lifecycle service should guarantee, stated over the       *)
(* variables of TaskLifecycle.                                             *)
(***************************************************************************)
EXTENDS TaskLifecycle

-----------------------------------------------------------------------------
(* The outbox.                                                             *)

Committed(e) == pending[e] # NoRecord /\ "canonical" \in pending[e].done

StageOf(e) ==
  CASE e >= nextEvent -> "unused"
    [] e < nextEvent /\ pending[e] = NoRecord -> IF e \in delivered THEN "closed" ELSE "withdrawn"
    [] e < nextEvent /\ pending[e] # NoRecord -> IF Committed(e) THEN "committed" ELSE "prepared"

Outbox ==
  INSTANCE EventOutbox WITH
    Event <- Events, stage <- [e \in Events |-> StageOf(e)], announced <- delivered

(* Archive, Reopen and HardDelete implement the event outbox: no event of a *)
(* mutation that was rolled back or never finished is emitted, and no       *)
(* record is removed before its event was emitted (flushTaskLifecyclePending*)
(* and rollbackLifecycleMutation).                                          *)
EventsFollowOutbox == Outbox!Spec

(* A mutation that is resumed after a crash between two of its phases does  *)
(* not append its version a second time.                                    *)
OneVersionPerEvent ==
  \A t \in Tasks : \A i, j \in DOMAIN history[t] :
    (history[t][i] = history[t][j] /\ history[t][i] # NoEvent) => i = j

(* Outside a transaction the directory and the lifecycle metadata of a Task *)
(* file agree, unless a pending record tells the next call how to finish:   *)
(* a crash leaves a record, a failed phase is rolled back in full.          *)
HalfDoneIsRecorded ==
  \A t \in Tasks :
    (holder = NoProc /\ Archived(task[t]) # task[t].archivedAt) =>
      \E op \in {"archive", "reopen"} : Incomplete(t, op) # {}

-----------------------------------------------------------------------------
(* Deletion.                                                               *)

(* A Task that was deleted never comes back under its ID: not by a create,  *)
(* not by an interrupted reopen that is resumed.                           *)
NoResurrection ==
  [][\A t \in Tasks :
       (tombstone[t] # NoReason /\ ~Exists(task[t])) => ~Exists(task'[t])]_vars

(* Once a hard-delete was announced, nothing of the Task is left and nothing *)
(* comes back, whatever version save or timer start was waiting for the     *)
(* lock meanwhile.                                                          *)
DeletedLeavesNothing ==
  \A e \in DOMAIN pending :
    (/\ pending[e] # NoRecord
     /\ pending[e].op = "hard_delete"
     /\ e \in delivered) =>
       LET t == pending[e].task
       IN ~Exists(task[t]) /\ history[t] = <<>> /\ t \notin timers

-----------------------------------------------------------------------------
(* The search index.                                                       *)

(* An index entry that differs from its Task file is never forgotten: while *)
(* nobody works on the Task there is a pending record whose derived state   *)
(* is still to be applied.  The index hook reads the Task without the lock, *)
(* so this depends on the comparison it makes when it commits.  (While a    *)
(* tombstoned Task still has its file, the index may or may not have it.)   *)
IndexLagIsRecorded ==
  \A t \in Tasks :
    (index[t] # Content(task[t]) /\ (IsIDReserved(t) => ~Exists(task[t]))) =>
      \/ \E p \in Procs : pc[p] # "idle" /\ job[p].task = t
      \/ \E e \in Events :
           pending[e] # NoRecord /\ pending[e].task = t /\ "derived" \notin pending[e].applied

-----------------------------------------------------------------------------
(* Eligibility.                                                            *)

(* Only a Task that is done and has no active timer goes into the archive.  *)
OnlyEligibleIsArchived ==
  [][\A t \in Tasks :
       (task[t].dir = "tasks" /\ Archived(task'[t])) =>
         task[t].status = "done" /\ t \notin timers]_vars

(* A mutation patches, and a rollback restores, only what it finds as its   *)
(* record describes it: an edit that was accepted in between would be lost. *)
PatchesKnown ==
  \A p \in Procs :
    (PatchFile(p) \/ UndoPatch(p)) =>
      LET r == pending[job[p].ev]
      IN [task[r.task] EXCEPT !.dir = "none"] \in
           {[r.original EXCEPT !.dir = "none"], [r.desired EXCEPT !.dir = "none"]}

(* The sweep archives a Task only after the retention age and never over a  *)
(* descendant that is still to be done, although it chose its Tasks in an   *)
(* earlier transaction.                                                     *)
ArchivesRipeTasks ==
  \A t \in Tasks :
    (task[t].dir = "tasks" /\ Archived(task'[t])) =>
      task[t].completedAt = "aged" /\ UnfinishedDescendants(task, t) = {}

-----------------------------------------------------------------------------
(* Progress.                                                               *)

(* The lock is taken by polling, so a process that keeps asking gets it    *)
(* (strong fairness); leases end; the server runs its sweep every hour.     *)
Sweeping ==
  /\ \A p \in Procs : SF_vars(Step(p)) /\ WF_vars(CallSweep(p))
  /\ \A e \in Events, k \in Effects : WF_vars(LeaseEnds(e, k))

FairSpec == Spec /\ Sweeping

(* The hourly sweep empties the outbox: an archive that was interrupted, at *)
(* whatever write, and whose caller never comes back, is completed, its     *)
(* event delivered and the index brought up to date.                        *)
SweepDrainsOutbox ==
  \A e \in Events : pending[e] # NoRecord ~> pending[e] = NoRecord
=============================================================================
