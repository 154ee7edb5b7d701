------------------------------ MODULE MCBringUp ------------------------------
(***************************************************************************)
(* BringUp on small instances for TLC.                                     *)
(***************************************************************************)
EXTENDS BringUp

(* No systemd unit anywhere. *)
NoUnits == [p \in Ports |-> Nobody]
==============================================================================
