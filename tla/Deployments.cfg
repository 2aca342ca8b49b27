CONSTANTS
  Hosts = {shop, blog}
  Protected = {devgui}
  LastPort = 2
  Calls = {c1, c2}
  shop = shop
  b1 = b1
  Deployed <- MCDeployed
  Job = job
  MaxTrouble = 1
  None = none
SPECIFICATION FairSpec
PROPERTIES OkMeansServed StopKeepsRoute DriftIsHealed
