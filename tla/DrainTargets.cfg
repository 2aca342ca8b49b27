SPECIFICATION FewSpec
CONSTANTS
  NStories = 3
CHECK_DEADLOCK FALSE
INVARIANTS
  AliveIsLeastFixpoint
PROPERTIES
  StopIsFinal
  PlannedWaitingEnds
