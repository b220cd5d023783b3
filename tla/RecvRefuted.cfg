SPECIFICATION Spec
CONSTANTS
  Handler = {h1, h2}
  Msg = {m1}
  AioError = {"closed"}
  None = None
INVARIANTS
  StopIsLast
  NeverStartedTwice
CHECK_DEADLOCK FALSE
