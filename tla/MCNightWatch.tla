----------------------------- MODULE MCNightWatch -----------------------------
(* NightWatch for TLC. *)
EXTENDS NightWatch

\* A night within one day and a night over midnight.
MCWindows == {[start |-> 1, end |-> 3], [start |-> 3, end |-> 1]}
=============================================================================
