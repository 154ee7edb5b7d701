-------------------------- MODULE MCWslptydListener --------------------------
(***************************************************************************)
(* WslptydListener with a few connections for TLC.                         *)
(***************************************************************************)
EXTENDS WslptydListener
==============================================================================
