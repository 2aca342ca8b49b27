SPECIFICATION InboxSpec
CONSTANTS
  Max = 3
  MaxCaptures = 3
  MaxAdds = 1
  MaxRuns = 2
  MaxFaults = 1
  Attempts = 2
CHECK_DEADLOCK FALSE
INVARIANTS
  IdsUniqueUnlessRaced
  CheckedIdeaIsSettled
PROPERTIES
  CapturesAreKept
