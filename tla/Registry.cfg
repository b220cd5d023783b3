SPECIFICATION FairSpec
CONSTANTS
  Pipe = {p1, p2}
  Path = {x1}
  Query = {q1, q2}
  None = None
INVARIANTS
  NoLostWakeup
  AnsweredOnce
  RouteTableSound
  ReportsMatchRoutes
PROPERTIES
  ManagementServes
  ShutdownCompletes
CHECK_DEADLOCK FALSE
