CONSTANTS
  a = a
  b = b
  d = d
  Requests <- ThreeRequests
  MaxConns = 2
  Memory = 2
  Size <- MCSize
  Int32Half = 4
  CounterModulus = 8
  Reliable = FALSE
SPECIFICATION Spec
INVARIANTS
  ReapedOnce
  UnitsAccounted
  RepliesFramed
  DoneMeansReplied
PROPERTIES
  QuietAfterStop
CHECK_DEADLOCK FALSE
