SPECIFICATION LiveSpec
CONSTANTS
  MinReady = 0
  MaxClusters = 2
  MaxSurge = 1
  MaxRecycling = 1
  Floor = 0
  Autoscaled = TRUE
  Unsupported = {}
  ListMayFail = FALSE
  MaxHash = 2
  MaxClaims = 1
  MaxFaults = 1
PROPERTIES ClaimServed PoolNeverTakesHeld
