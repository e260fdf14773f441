---------------------------- MODULE MCSearchIndex ----------------------------
(***************************************************************************)
(* The sessions that write the index, and the models they embed with: a    *)
(* behaviour belongs to one of the two.                                    *)
(***************************************************************************)
EXTENDS SearchIndex, TLC
CONSTANTS t1, d1, s1, s2, a, b

VARIABLES part, configured, onDisk, library, entryOf, entries, mapLock, worker, vectors, now, changed, begun, reported

Embedding == INSTANCE EmbeddingRuntime WITH
  Workers <- {"w1", "w2"}, Models <- {"small", "other"}, Sources <- {"task", "doc"}, Tasks <- {"task"}, MaxCalls <- 2,
  MaxTime <- 1, MaxChanges <- 1, index <- vectors

embeddingVars ==
  <<configured, onDisk, library, entryOf, entries, mapLock, worker, vectors, now, changed, begun, reported>>

SuiteInit ==
  /\ part \in {"sessions", "models"}
  /\ Init
  /\ Embedding!EmbeddingInit
  /\ (part = "models" \/ (configured = "small" /\ onDisk = {"small"} /\ vectors.says = "small"))

SuiteNext ==
  /\ UNCHANGED part
  /\ \/ part = "sessions" /\ Next /\ UNCHANGED embeddingVars
     \/ part = "models" /\ Embedding!EmbeddingNext /\ UNCHANGED vars

SuiteSpec == SuiteInit /\ [][SuiteNext]_<<part, vars, embeddingVars>>

(* What the sessions do with the models is stated in EmbeddingRuntime.     *)
EmbeddingsFit == Embedding!EmbeddingsFit

IndexSymmetry == Permutations({s1, s2}) \cup Permutations({a, b})
=============================================================================
