SPECIFICATION Spec
CONSTANTS
  Query = {q1}
  Responder = {t1}
  RecvThread = RecvThread
  UsesTag = TRUE
  LifeLocked = FALSE
  AioError = {}
  None = None
INVARIANTS
  SurvivesDestruction
  CallbackNeverThrows
  NoContextLeft
CHECK_DEADLOCK FALSE
