CONSTANTS
  a = a
  b = b
  d = d
  Requests <- TwoRequests
  MaxConns = 2
  Memory = 2
  Size <- MCSize
  Int32Half = 4
  CounterModulus = 8
  Reliable = TRUE
SPECIFICATION FairSpec
PROPERTIES
  ErrorIsReaped
  StopCompletes
  BlockedContinues
CHECK_DEADLOCK FALSE
