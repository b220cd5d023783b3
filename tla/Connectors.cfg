SPECIFICATION FairSpec
CONSTANTS
  Comm = {s1, s2}
  Addr = {a1}
  Thread = {t1, t2}
  Pipe = {p1}
  MaxCount = 3
  None = None
INVARIANTS
  AllOrNothing
PROPERTIES
  CallsReturn
CHECK_DEADLOCK FALSE
