-------------------------- MODULE MCDrainLifecycle --------------------------
(* Instances of DrainLifecycle for TLC. *)
EXTENDS DrainLifecycle
=============================================================================
