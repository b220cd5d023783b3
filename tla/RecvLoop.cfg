SPECIFICATION FairSpec
CONSTANTS
  Handler = {h1, h2}
  Msg = {m1, m2, m3}
  AioError = {"timedout", "closed"}
  None = None
INVARIANTS
  InboxComplete
  SilentOnlyWhenDone
PROPERTIES
  StopReturns
CHECK_DEADLOCK FALSE
