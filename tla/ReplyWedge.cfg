SPECIFICATION FairSpec
CONSTANTS
  Query = {q1, q2}
  Responder = {t1}
  RecvThread = RecvThread
  UsesTag = FALSE
  LifeLocked = FALSE
  AioError = {"timedout"}
  None = None
PROPERTIES
  EveryReplySettled
CHECK_DEADLOCK FALSE
