----------------------------- MODULE MCMemStore -----------------------------
(***************************************************************************)
(* Constants for model-checking MemStore: a queue that a second job can    *)
(* find full.                                                              *)
(***************************************************************************)
EXTENDS MemStore

ASSUME QueueFills == QueueSize < Cardinality(Calls)
=============================================================================
