SPECIFICATION FairSpec
CONSTANTS
  Projects = {p1, p2}
  MaxJobs = 3
CHECK_DEADLOCK FALSE
INVARIANTS
  LockFollowsJobs
  OneChildUnlessExpired
  VerdictIsKept
PROPERTIES
  KeepsPromise
