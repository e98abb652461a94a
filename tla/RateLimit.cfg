SPECIFICATION Spec
CONSTANTS
  Request = {r1, r2, r3}
  Process = {p1, p2}
  Limits = {0, 2}
  Absent = Absent
  Alive = 2
  Interval = 1
  MaxTime = 3
INVARIANTS
  TypeOK
  LiveHolds
  EndedHoldsNothing
  CountsOnlyRecent
SYMMETRY Symmetry
CHECK_DEADLOCK FALSE
