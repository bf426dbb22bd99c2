CONSTANTS
  a = a
  b = b
  d = d
  Requests <- TwoRequests
  MaxConns = 2
  Memory = 2
  Size <- MCSize
  Int32Half = 4
  CounterModulus = 8
  Reliable = FALSE
SPECIFICATION Spec
INVARIANTS
  ActiveIsOpen
CHECK_DEADLOCK FALSE
