---------------------------- MODULE MCDirectHost ----------------------------
(***************************************************************************)
(* Constants for model-checking DirectHost: a pid for each command.        *)
(***************************************************************************)
EXTENDS DirectHost

ASSUME EnoughPids == Cardinality(Pids) >= Cardinality(Commands)
=============================================================================
