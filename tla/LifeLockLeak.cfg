SPECIFICATION LockSpec
CONSTANTS
  User = {u1, u2}
  Owner = owner
  MaxInit = 1
INVARIANTS
  GoneMeansDestroyed
CHECK_DEADLOCK FALSE
