SPECIFICATION FairSpec
CONSTANTS
  Caller = {c1, c2}
  MaxQueries = 2
  Slot = {s1, s2}
  Declines = TRUE
  Hangs = TRUE
  None = None
INVARIANTS
  QueriesConsistent
PROPERTIES
  SettledUnlessHungUp
  DestructorReturns
CHECK_DEADLOCK FALSE
