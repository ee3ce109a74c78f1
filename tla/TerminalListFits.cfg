SPECIFICATION Spec
CONSTANTS
  b1 = b1
  b2 = b2
  b3 = b3
  b4 = b4
  b5 = b5
  b6 = b6
  b7 = b7
  b8 = b8
  b9 = b9
  b10 = b10
  b11 = b11
  transData = transData
  transData2 = transData2
  NULL = NULL
  Blocks = {b1, b2, b3, b4, b5, b6, b7, b8, b9, b10, b11}
  Payloads = {transData, transData2}
  Length <- MCLength
  Calls <- FillCalls
CONSTRAINT InHeapOrder
INVARIANTS ResponseFits
CHECK_DEADLOCK FALSE
