SPECIFICATION FairSpec
CONSTANTS
  NStories = 2
  Depends <- Chain
  Planned <- AllStories
  EscalationAttempts = 2
  SafetyMax = 3
  Faults = {"write"}
  MaxRounds = 6
  MaxChanges = 1
CHECK_DEADLOCK FALSE
INVARIANTS
  QuietRunsBounded
PROPERTIES
  DrainEnds
