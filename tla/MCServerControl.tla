--------------------------- MODULE MCServerControl ---------------------------
(***************************************************************************)
(* Constants for model-checking ServerControl: the requests are the only   *)
(* code that can hold the loop thread.                                     *)
(***************************************************************************)
EXTENDS ServerControl

CONSTANTS r1, r2

TwoRequests == {r1, r2}
=============================================================================
