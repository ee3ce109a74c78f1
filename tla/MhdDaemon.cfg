SPECIFICATION MhdFairSpec
CONSTANTS
  c1 = c1
  c2 = c2
  NULL = NULL
  App = App
  PoolSize = 12
  Align = 1
  Inc = 3
  HeaderRecord = 1
  ReplyHeader = 1
  ContinueLength = 2
  Conns = {c1, c2}
  Scripts <- MCScripts
  ConnLimit = 2
  Pauses = {2, 4, 11}
INVARIANTS MhdTypeOK BuffersApart OneReference ListsAgree LimitEnds InStep ClosedIsCleaned NoBusyRound
PROPERTIES ImplementsCallback EveryRequestIsAnswered DaemonStops
CHECK_DEADLOCK FALSE
