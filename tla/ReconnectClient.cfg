CONSTANTS
  u = u
  v = v
  Users <- TwoUsers
SPECIFICATION FairSpec
INVARIANTS
  BackoffFollowsFailures
  GateClosedOnce
  QuietAfterStop
PROPERTIES
  Reconnects
  StopCompletes
CHECK_DEADLOCK FALSE
