SPECIFICATION Spec
CONSTANTS
  s = s
  a = a
  a1 = a1
  a2 = a2
  ja = ja
  b = b
  j = j
  outer = outer
  inner = inner
  NoNode = NoNode
  NoParallel = NoParallel
  Node <- MCNode
  Root = s
  Routes <- MCRoutes
  ParallelOf <- MCParallelOf
  EndTo <- MCEndTo
  Agents = {}
  Workers = 2
  MaxSubmit = 4
  MaxSteps = 9
INVARIANTS
  OnlyBranchesOverlap
  PredecessorsOver
  SuccessIsComplete
PROPERTIES
  ImplementsStream
