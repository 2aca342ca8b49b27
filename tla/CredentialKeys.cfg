SPECIFICATION FairSpec
CONSTANTS
  Names = {n1, n2}
  Keys = {k1, k2}
  NoKey = NoKey
  MaxOps = 2
  MaxCrashes = 1
CHECK_DEADLOCK FALSE
INVARIANTS
  StoreOpens
  BootFindsKey
  BackupsOpen
PROPERTIES
  VaultIsKept
  CallsEnd
