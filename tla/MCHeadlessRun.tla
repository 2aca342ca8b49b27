---------------------------- MODULE MCHeadlessRun ----------------------------
(* Instances of HeadlessRun for TLC. *)
EXTENDS HeadlessRun
=============================================================================
