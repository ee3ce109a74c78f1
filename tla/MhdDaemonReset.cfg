SPECIFICATION MhdSpec
CONSTANTS
  c1 = c1
  c2 = c2
  NULL = NULL
  App = App
  PoolSize = 24
  Align = 1
  Inc = 3
  HeaderRecord = 1
  ReplyHeader = 1
  ContinueLength = 2
  Conns = {c1, c2}
  Scripts <- ResetScripts
  ConnLimit = 2
  Pauses = {2, 4, 11}
INVARIANT ResetFits
CHECK_DEADLOCK FALSE
