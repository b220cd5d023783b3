SPECIFICATION FairSpec
CONSTANTS
  a = a
  b = b
  c = c
  Request = {q1}
  Push = {p1}
  Path <- MCPath
  Uri <- MCUri
  Malformed = Malformed
  NotFound = NotFound
  Route = {r1, r2}
  MaxTries = 4
  Early = 1
  None = None
INVARIANTS
  RoutedOnceToMatch
PROPERTIES
  WellFormedAnswered
CHECK_DEADLOCK FALSE
