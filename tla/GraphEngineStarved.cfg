SPECIFICATION Spec
CONSTANTS
  s = s
  a = a
  a1 = a1
  a2 = a2
  b = b
  b1 = b1
  b2 = b2
  c1 = c1
  c2 = c2
  outer = outer
  innerA = innerA
  innerB = innerB
  Deep = TRUE
  NoNode = NoNode
  NoParallel = NoParallel
  Node <- MCNode
  Root = s
  Routes <- MCRoutes
  ParallelOf <- MCParallelOf
  EndTo <- MCEndTo
  Agents = {}
  Workers = 2
  MaxSubmit = 6
  MaxSteps = 9
PROPERTIES
  TimeLimitEndsRun
CHECK_DEADLOCK FALSE
