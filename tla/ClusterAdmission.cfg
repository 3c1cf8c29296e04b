SPECIFICATION LiveSpec
CONSTANTS
  q1 = q1  q2 = q2  q3 = q3  k = k  a = a
  NoKey = NoKey  NoAlias = NoAlias  NoLock = NoLock
  Requests <- MCRequests
  KeyOf <- MCKeyOf
  AliasOf <- MCAliasOf
  Offset <- MCOffset
  MaxConcurrent = 1
  MaxSkew = 1
  Duration = 3
  SafeWindow = 1
  CreateTimeout = 1
  MaxAge = 4
PROPERTIES ImplementsAtomic WaiterPasses
CHECK_DEADLOCK FALSE
