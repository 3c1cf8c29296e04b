SPECIFICATION LiveSpec
CONSTANTS
  Keys <- MCKeys
  Handlers <- MCHandlers
  KeyChoices <- MCKeyChoices
  Procs <- MCProcs
  ProcOf <- MCProcOf
  SlotOf <- MCSlotOf
  ExecutionsPerLease = 2
INVARIANTS SpawnOnce SlotCoversProcess NothingAfterClean ReleasedLeavesNothing
PROPERTIES ReleaseEnds
CHECK_DEADLOCK FALSE
