SPECIFICATION FairSpec
CONSTANTS
  Caller = {c1, c2}
  Call = {k1, k2, k3}
  Slot = {s1, s2}
  Declines = TRUE
  None = None
INVARIANTS
  PoolConsistent
  ResponseMeetsItsPromise
PROPERTIES
  OwnFuture
  EveryPromiseSettled
  DestructorReturns
CHECK_DEADLOCK FALSE
