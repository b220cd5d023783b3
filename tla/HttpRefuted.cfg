SPECIFICATION Spec
CONSTANTS
  Caller = {c1}
  MaxQueries = 2
  Slot = {s1}
  Declines = FALSE
  Hangs = TRUE
  None = None
INVARIANTS
  ResponseWasReceived
  OneOutcome
  ConnectedBeforeSend
  NoConnectionLeaks
CHECK_DEADLOCK FALSE
