SPECIFICATION FairSpec
CONSTANTS
  Caller = {c1}
  MaxQueries = 1
  Slot = {s1}
  Declines = FALSE
  Hangs = FALSE
  None = None
PROPERTIES
  DestructorAlwaysReturns
CHECK_DEADLOCK FALSE
