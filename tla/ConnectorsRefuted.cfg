SPECIFICATION Spec
CONSTANTS
  Comm = {s1}
  Addr = {a1}
  Thread = {t1}
  Pipe = {p1, p2, p3}
  MaxCount = 4
  None = None
INVARIANTS
  PipesCounted
  CountNeverWraps
CHECK_DEADLOCK FALSE
