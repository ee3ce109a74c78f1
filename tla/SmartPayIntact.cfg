SPECIFICATION SmartPaySpec
CONSTANTS
  r1 = r1
  r2 = r2
  c1 = c1
  c2 = c2
  transData = transData
  transData2 = transData2
  Daemon = Daemon
  Manager = Manager
  NULL = NULL
  Garbage = Garbage
  Handlers = {Daemon}
  Requests = {r1, r2}
  Conns = {c1, c2}
  Asks <- FewAsks
  MaxAsks = 2
  Creations = {TRUE}
  FreeEffects = {"intact", "clobbered"}
INVARIANTS AnswerIntact
CHECK_DEADLOCK FALSE
