SPECIFICATION FairSpec
CONSTANTS
  Projects = {p1}
  Features = {f1, f2}
  Project <- OneProject
  MaxRuns = 3
  MaxCrashes = 1
CHECK_DEADLOCK FALSE
INVARIANTS
  OneScriptPerFeature
PROPERTIES
  LockIsReleased
