CONSTANTS
  l1 = l1  p1 = p1  o1 = o1  o2 = o2  a = a  b = b
  Leases = {l1}
  Principals = {p1}
  Ops = {o1, o2}
  Pods = {a, b}
  NameOf <- MCNameOf
  LeaseOf <- MCLeaseOf
  PrincipalOf <- MCPrincipalOf
  PodOf <- MCPodOf
  BootOf <- MCBootOf
  StreamsPerLease = 2
  StreamsPerPrincipal = 1
  MaxBoot = 2
  LateCommits = TRUE
SPECIFICATION LiveSpec
INVARIANTS  AccessBarrier StreamLimits 
PROPERTIES ReleaseDrains SlotsReturn
CHECK_DEADLOCK FALSE
