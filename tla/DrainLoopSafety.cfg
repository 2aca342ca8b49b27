SPECIFICATION FreshSpec
CONSTANTS
  NStories = 2
  Depends <- Chain
  Planned <- AllStories
  EscalationAttempts = 1
  SafetyMax = 2
  Faults = {"fetch", "limit", "read", "ref", "write"}
  MaxRounds = 2
  MaxChanges = 1
CHECK_DEADLOCK FALSE
INVARIANTS
  NoBlockOverDone
