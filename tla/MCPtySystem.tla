----------------------------- MODULE MCPtySystem -----------------------------
(***************************************************************************)
(* PtySystem and its inductive invariant on small instances for TLC.       *)
(***************************************************************************)
EXTENDS PtySystemInv
==============================================================================
