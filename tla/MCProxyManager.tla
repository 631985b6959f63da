--------------------------- MODULE MCProxyManager ---------------------------
(***************************************************************************)
(* Constants for model-checking ProxyManager.  No user code holds the loop *)
(* here: ServerControl adds that.                                          *)
(***************************************************************************)
EXTENDS ProxyManager

NoHolders == {}
=============================================================================
