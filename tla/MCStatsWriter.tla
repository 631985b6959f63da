---------------------------- MODULE MCStatsWriter ----------------------------
(***************************************************************************)
(* Constants for model-checking StatsWriter: enough records to fill the    *)
(* list, and overflow it during a write.                                   *)
(***************************************************************************)
EXTENDS StatsWriter

ASSUME Overflows == Records > MaxBuffer
=============================================================================
