SPECIFICATION Spec
CONSTANTS
  l1 = l1
  l2 = l2
  i1 = i1
  i2 = i2
  w1 = w1
  w2 = w2
  v1 = v1
  v2 = v2
  r1 = r1
  r2 = r2
  NoBinding = NoBinding
  NoLease = NoLease
  NoInst = NoInst
  Leases = {l1, l2}
  Insts = {i1}
  LeaseName <- DistinctLeaseNames
  InstName <- DistinctInstNames
  LeaseWorkers = {w1, w2}
  InstWorkers = {v1}
  Replica <- TwoReplicas
  MaxBindings = 2
  MaxExtensions = 1
  DirectLeaseDelete = TRUE
  DirectInstanceDelete = TRUE
INVARIANTS ExclusiveBinding BoundReciprocal
PROPERTIES TeardownNeverReopened
CHECK_DEADLOCK FALSE
