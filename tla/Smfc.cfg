SPECIFICATION Spec
CONSTANTS
  Crc <- MCCrc
  Commands <- MCCommands
  Schemas <- MCSchemas
  OldDirs <- MCOldDirs
  MaxRuns = 3
  None = None
  BadInput = BadInput
  Torn = Torn
INVARIANTS
  SuccessMeansComplete
  WellFormed
  WireCompatible
PROPERTIES
  OthersUntouched
