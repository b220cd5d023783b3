SPECIFICATION FairLockSpec
CONSTANTS
  User = {u1, u2}
  Owner = owner
  MaxInit = 3
INVARIANTS
  HeldMeansAlive
PROPERTIES
  StatusGoesForward
  DestroyReturns
CHECK_DEADLOCK FALSE
