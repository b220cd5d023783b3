SPECIFICATION FairSpec
CONSTANTS
  Caller = {c1}
  Msg = {m1, m2}
  AioError = {"timedout"}
  None = None
PROPERTIES
  EveryMessageSettled
CHECK_DEADLOCK FALSE
