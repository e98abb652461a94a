SPECIFICATION Spec
CONSTANTS
  p1 = p1
  p2 = p2
  Pages <- MCPages
  MaxEdits = 2
  MaxSyncs = 2
  MaxFetches = 1
SYMMETRY Tabs
CONSTRAINT Unexcused
INVARIANTS
  TypeOK
  HashIsSeen
  
PROPERTY NoLostUpdate
CHECK_DEADLOCK FALSE
