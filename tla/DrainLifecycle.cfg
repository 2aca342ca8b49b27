SPECIFICATION FairSpec
CONSTANTS
  Projects = {p1, p2}
  MaxDrains = 2
  MaxParallel = 1
  MaxCrashes = 1
  MaxWriteFailures = 1
INVARIANTS
  LockIsHeldByItsLoop
  RouterTellsTheTruth
  ActiveDrainsAreLive
  UndoneStopsWereLost
PROPERTIES
  DurableEndIsFinal
  KeepsSessions
  OrphansAreTreated
  FileConverges
