SPECIFICATION SessionSpec
CONSTANTS
  Operations = {o1, o2}
  Others = {p1}
  None = None
  o1 = o1
  o2 = o2
  p1 = p1
CHECK_DEADLOCK FALSE
INVARIANTS
  RevokesOwnOnly
