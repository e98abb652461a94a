SPECIFICATION Spec
CONSTANTS
  s = s
  a = a
  a1 = a1
  a2 = a2
  b = b
  b1 = b1
  b2 = b2
  c1 = c1
  c2 = c2
  outer = outer
  innerA = innerA
  innerB = innerB
  Deep = FALSE
  NoNode = NoNode
  NoParallel = NoParallel
  Node <- MCNode
  Root = s
  Routes <- MCRoutes
  ParallelOf <- MCParallelOf
  EndTo <- MCEndTo
  Agents = {b}
  Workers = 2
  MaxSubmit = 3
  MaxSteps = 3
INVARIANTS
  TypeOK
  ForksOutliveBranches
  SubmitsBalance
  StepsBounded
PROPERTIES
  RunEnds
\* a run that stops short of its end is what RunEnds is about
CHECK_DEADLOCK FALSE
