SPECIFICATION FairSpec
CONSTANTS
  c1 = c1
  c2 = c2
  p1 = p1
  p2 = p2
  p3 = p3
  d1 = d1
  d2 = d2
  d3 = d3
  NULL = NULL
  Garbage = Garbage
  Conns = {c1, c2}
  Asks <- WholeAsks
  MaxAsks = 3
  Posts = {p1, p2, p3}
  EndPoints = {NULL}
INVARIANTS PostStoresItsBody NoDataIsTold GetServesItsUrl
PROPERTIES EveryRequestIsServed
CHECK_DEADLOCK FALSE
