SPECIFICATION FairSpec
CONSTANTS
  Query = {q1, q2, q3}
  Responder = {t1, t2}
  RecvThread = RecvThread
  UsesTag = TRUE
  LifeLocked = FALSE
  AioError = {"timedout"}
  None = None
INVARIANTS
  ContextsOwned
PROPERTIES
  RepliesInOrder
  EveryQueryAnswered
CHECK_DEADLOCK FALSE
