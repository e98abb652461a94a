SPECIFICATION Spec
CONSTANTS
  Node = {n1, n2}
  Inner = {n2}
  NoNode = NoNode
  User = {u1, u2}
  Owner = u1
  MaxPings = 1
  MaxBacklog = 2
INVARIANTS
  TypeOK
  NeverEndsUnexpectedly
  SucceededRunIsQuiet
  StopReachesWorker
  OneFinishPerCause
  BlockingAnswersFinal
PROPERTIES
  RaisesOnlyUnstarted
  ImplementsLifecycle
  RequestsEnd
