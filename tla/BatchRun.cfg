SPECIFICATION FairSpec
CONSTANTS
  GroupSize = 2
  MaxRows = 4
  MaxEpochs = 3
INVARIANTS
  TypeOK
  SpinnersEnd
  RunningBounded
PROPERTIES
  Settles
CHECK_DEADLOCK FALSE
