SPECIFICATION FairSpec
CONSTANTS
  Names = {n1, n2}
  Keys = {k1, k2}
  NoKey = NoKey
  MaxOps = 2
  MaxCrashes = 0
CHECK_DEADLOCK FALSE
INVARIANTS
  NoMixedStore
