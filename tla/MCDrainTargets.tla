--------------------------- MODULE MCDrainTargets ---------------------------
(* Instances of IdealRuns for TLC. *)
EXTENDS IdealRuns

\* bounds on the first state: two dependencies per story, one story without
\* proper planning
FewInit ==
  /\ IdealInit
  /\ \A s \in Stories : Cardinality(deps[s]) <= 2
  /\ Cardinality(Stories \ planned) <= 1

FewSpec == FewInit /\ [][IdealNext]_idealVars /\ WF_idealVars(IdealNext)
=============================================================================
