SPECIFICATION FairSpec
CONSTANTS
  Caller = {c1}
  MaxQueries = 1
  Slot = {s1}
  Declines = FALSE
  Hangs = TRUE
  None = None
PROPERTIES
  EveryPromiseSettled
CHECK_DEADLOCK FALSE
