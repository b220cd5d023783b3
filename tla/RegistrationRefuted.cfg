SPECIFICATION RegSpec
CONSTANTS
  Pipe = {p1, p2, p3}
  Path = {x1}
  Query = {q1, q2, q3}
  None = None
SYMMETRY Symmetry
INVARIANTS
  DirectoryMatchesServices
  RegistrationAlwaysTruthful
CHECK_DEADLOCK FALSE
