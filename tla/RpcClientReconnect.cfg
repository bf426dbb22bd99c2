CONSTANTS
  a = a
  b = b
  d = d
  u = u
  NoCall = NoCall
  Calls <- TwoCalls
  Controllers <- OneController
  MaxConns = 2
  SessionModulus = 4
  Memory = 2
  Size <- MCSize
  DebugBuild = FALSE
  ConnectAgain = FALSE
SPECIFICATION FairSpec
INVARIANTS
  InFlightHasConnection
  OutstandingOnlyWhileValid
  LiveConnectionHasReader
  ReplyFindsCounterPositive
  NoInterleavedReads
PROPERTIES
  SwitchIsQuiet
  PromiseSetOnce
  ImplementsCalls
  CallsResolve
  CloseCompletes
CHECK_DEADLOCK FALSE
