------------------------- MODULE MCEmbeddingRuntime -------------------------
(* One worker, two indexed sources and one change of the model.            *)
EXTENDS EmbeddingRuntime
=============================================================================
