SPECIFICATION FairSpec
CONSTANTS
  a = a
  b = b
  c = c
  Request = {q1}
  Push = {}
  Path <- MCPath
  Uri <- MCUri
  Malformed = Malformed
  NotFound = NotFound
  Route = {r1}
  MaxTries = 2
  Early = 0
  None = None
PROPERTIES
  EveryRequestAnswered
CHECK_DEADLOCK FALSE
