-------------------------- MODULE MCCommandSession --------------------------
(* Instances of CommandSession for TLC. *)
EXTENDS CommandSession
=============================================================================
