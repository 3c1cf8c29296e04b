SPECIFICATION LiveSpec
CONSTANTS
  Width = 4
  Members = {"a", "b"}
  Legacy = {"b"}
  Pinned = {"p"}
  Requests <- SomeRequests
  BuiltIn <- Wide
  Plans <- BothPlans
  MaxUid <- Uids
  MaxStarts = 2
INVARIANTS ClaimsDisjoint NetworksDisjoint
PROPERTIES NetworkServed
CHECK_DEADLOCK FALSE
