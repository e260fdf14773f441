-------------------------- MODULE LifecycleInvariant --------------------------
(***************************************************************************)
(* An inductive invariant of TaskLifecycle: what every process knows about *)
(* the record it works on.  TLC checks it on small instances, the proofs   *)
(* in LifecycleProofs rest on it.                                          *)
(***************************************************************************)
EXTENDS LifecycleProperties

(* The event has a record; its mutation does not count yet.                *)
Recorded(e) == e \in Events /\ e < nextEvent /\ pending[e] # NoRecord
Prepared(e) == Recorded(e) /\ "canonical" \notin pending[e].done

(* The mutation of the event counts, for good.                             *)
Settled(e) ==
  /\ e \in Events
  /\ e < nextEvent
  /\ IF pending[e] = NoRecord THEN e \in delivered ELSE "canonical" \in pending[e].done

Hooks == {"readIndex", "commitIndex", "removeIndex"}

(* The phases that were checkpointed before a process got here.            *)
Before(place) ==
  CASE place \in {"patch", "savePatch"} -> {"move"}
    [] place \in {"version", "saveVersion"} -> {"move", "patch"}
    [] place = "saveCanonical" -> {"move", "patch", "version"}
    [] OTHER -> {}

(* A process is inside a transaction of several writes exactly while it     *)
(* holds the lock.                                                         *)
Located(p) ==
  /\ pc[p] \notin {"idle", "list", "batch"} => job[p].task \in Tasks
  /\ holder = p <=> pc[p] \in Holding
  /\ pc[p] \in Editing => job[p].stage = "last"

(* A mutation, and its rollback, has a record that is not canonical yet.    *)
InMutation(p) ==
  /\ pc[p] \in Forward \cup Undo => Prepared(job[p].ev)
  /\ pc[p] \in Forward => Before(pc[p]) \subseteq pending[job[p].ev].done

(* A hard-delete works on a hard-delete record, or on none.                 *)
InDelete(p) ==
  pc[p] \in {"deleteFile", "deleteHistory", "deleteTime", "deleteSave"} =>
    \/ job[p].ev = NoEvent /\ pc[p] \in {"deleteHistory", "deleteTime"}
    \/ Recorded(job[p].ev) /\ pending[job[p].ev].op = "hard_delete"

(* A flush, which works from a list it made earlier and without the lock,   *)
(* only ever handles events of mutations that count.                       *)
InFlush(p) ==
  /\ \A f \in job[p].queue : Settled(f)
  /\ pc[p] \in {"claim", "emit", "complete", "release"} => Settled(job[p].ev)
  /\ pc[p] \in Hooks /\ job[p].stage # "last" => Settled(job[p].ev) /\ job[p].effect = "derived"
  /\ pc[p] = "complete" /\ job[p].effect = "event" => job[p].ev \in delivered

ProcInv(p) == Located(p) /\ InMutation(p) /\ InDelete(p) /\ InFlush(p)

EventInv ==
  /\ \A e \in Events : e >= nextEvent => pending[e] = NoRecord
  /\ \A e \in Events : pending[e] # NoRecord /\ "event" \in pending[e].applied => e \in delivered
  /\ \A e \in Events : pending[e] # NoRecord /\ "canonical" \in pending[e].done => Ready(pending[e])
  /\ \A e \in delivered : Settled(e)

(* The record a process has in hand is the one its place asks for, also    *)
(* while other processes flush, complete and remove records; and what the  *)
(* sink has accepted counts.                                               *)
Inv ==
  /\ TypeOK
  /\ EventInv
  /\ \A p \in Procs : ProcInv(p)
=============================================================================
