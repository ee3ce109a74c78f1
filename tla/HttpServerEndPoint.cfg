SPECIFICATION Spec
CONSTANTS
  c1 = c1
  c2 = c2
  p1 = p1
  p2 = p2
  p3 = p3
  d1 = d1
  d2 = d2
  d3 = d3
  NULL = NULL
  Garbage = Garbage
  Conns = {c1}
  Asks <- WholeAsks
  MaxAsks = 1
  Posts = {p1, p2}
  EndPoints = {NULL, 1}
INVARIANTS GetServesItsUrl
CHECK_DEADLOCK FALSE
