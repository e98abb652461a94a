SPECIFICATION Spec
CONSTANTS
  Canvases <- MCCanvases
  NewTypes = {"branch", "loop"}
  MaxId = 20
  MaxEdits = 2
INVARIANTS
  TypeOK
  EdgesJoinNodes
  EdgesStayInLevel
  ContainersHaveStart
  NoCycleUnlessDropped
  SettledIsSaved
CHECK_DEADLOCK FALSE
