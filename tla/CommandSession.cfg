SPECIFICATION FairSpec
CONSTANTS
  Projects = {p1, p2, p3}
  Global = global
  Cap = 2
  RestartMax = 2
INVARIANTS
  LockFollowsCommand
  HeldSessionLives
PROPERTIES
  CommandEnds
  IdleSessionsClose
