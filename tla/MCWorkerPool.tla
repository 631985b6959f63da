---------------------------- MODULE MCWorkerPool ----------------------------
(***************************************************************************)
(* Constants for model-checking WorkerPool.  A call spawns at most one     *)
(* process, so as many workers as calls are enough.                        *)
(***************************************************************************)
EXTENDS WorkerPool, Naturals

ASSUME EnoughWorkers == Cardinality(Workers) >= Cardinality(Calls)
=============================================================================
