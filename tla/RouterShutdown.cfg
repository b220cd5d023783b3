SPECIFICATION Spec
CONSTANTS
  a = a
  b = b
  c = c
  Request = {q1}
  Push = {}
  Path <- MCPath
  Uri <- MCUri
  Malformed = Malformed
  NotFound = NotFound
  Route = {r1}
  MaxTries = 1
  Early = 0
  None = None
INVARIANTS
  RoutedBeforeDestruction
CHECK_DEADLOCK FALSE
