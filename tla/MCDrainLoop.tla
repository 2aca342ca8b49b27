----------------------------- MODULE MCDrainLoop -----------------------------
(* Instances of DrainLoop for TLC. *)
EXTENDS DrainLoop

\* story 2 waits for story 1
Chain == [s \in Stories |-> IF s = 2 THEN {1} ELSE {}]

\* no story depends on another one
Independent == [s \in Stories |-> {}]

AllStories == Stories

\* a bound on the first boards; the other statuses come up during the drain
FreshInit ==
  /\ Init
  /\ \A src \in Sources, s \in Stories :
       boards[src][s] \in IF s = 1 THEN {"To Do", "Done"} ELSE {"To Do"}

FreshSpec == FreshInit /\ [][Next]_vars
=============================================================================
