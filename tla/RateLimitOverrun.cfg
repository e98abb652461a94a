SPECIFICATION Spec
CONSTANTS
  Request = {r1, r2}
  Process = {p1}
  Limits = {1}
  Absent = Absent
  Alive = 2
  Interval = 1
  MaxTime = 2
INVARIANTS
  ActiveWithinLimit
SYMMETRY Symmetry
CHECK_DEADLOCK FALSE
