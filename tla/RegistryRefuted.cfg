SPECIFICATION Spec
CONSTANTS
  Pipe = {p1, p2}
  Path = {x1}
  Query = {q1, q2}
  None = None
INVARIANTS
  DirectoryMatchesServices
  OnlyServicesMessagesEnlist
  DialerGoesWithRoute
PROPERTIES
  RefusedServiceLeavesQuietly
CHECK_DEADLOCK FALSE
