SPECIFICATION FairSpec
CONSTANTS
  Caller = {c1}
  Call = {k1}
  Slot = {s1}
  Declines = FALSE
  None = None
PROPERTIES
  DestructorAlwaysReturns
CHECK_DEADLOCK FALSE
