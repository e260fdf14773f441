---------------------------- MODULE MCRuntimeQueue ----------------------------
EXTENDS RuntimeQueue, TLC
CONSTANTS c1, c2, d1, d2, doc1

(* Bounds of the run "queue": a stop comes with two edits at most, a stolen *)
(* start lock with one and without a stop.                                 *)
FewAfterwards ==
  /\ stops > 0 => edits <= 2
  /\ stolen => edits <= 1 /\ stops = 0

QueueSymmetry == Permutations({c1, c2}) \cup Permutations({d1, d2})
=============================================================================
