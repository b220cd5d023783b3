SPECIFICATION FairSpec
CONSTANTS
  Caller = {c1, c2}
  Msg = {m1, m2, m3, m4}
  AioError = {"timedout", "canceled"}
  None = None
INVARIANTS
  QueueShared
PROPERTIES
  FifoOutbox
  SettledUnlessSendFails
CHECK_DEADLOCK FALSE
