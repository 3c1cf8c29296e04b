SPECIFICATION LiveSpec
CONSTANTS
  MinReady = 1
  MaxClusters = 3
  MaxSurge = 1
  MaxRecycling = 1
  Floor = 1
  Autoscaled = TRUE
  Unsupported = {2}
  ListMayFail = FALSE
  MaxHash = 4
  MaxClaims = 0
  MaxFaults = 1
INVARIANTS WithinCapacity
PROPERTIES UpgradeCompletes 
