SPECIFICATION Spec
CONSTANTS
  Caller = {c1, c2}
  Call = {k1, k2}
  Slot = {s1, s2}
  Declines = FALSE
  None = None
INVARIANTS
  RequestReturnsFuture
  AskerGetsResponse
  PendingNeverCorrupted
CHECK_DEADLOCK FALSE
