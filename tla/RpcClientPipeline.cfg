CONSTANTS
  a = a
  b = b
  d = d
  u = u
  NoCall = NoCall
  Calls <- ThreeCalls
  Controllers <- OneController
  MaxConns = 1
  SessionModulus = 2
  Memory = 2
  Size <- MCSize
  DebugBuild = TRUE
  ConnectAgain = FALSE
SPECIFICATION Spec
INVARIANTS
  WireFramed
  UnitsReturned
  ReplyMatches
CHECK_DEADLOCK FALSE
