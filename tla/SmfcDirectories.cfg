SPECIFICATION Spec
CONSTANTS
  Crc <- MCCrc
  Commands <- MCCommands
  Schemas <- MCSchemas
  OldDirs <- MCOldDirs
  MaxRuns = 1
  None = None
  BadInput = BadInput
  Torn = Torn
INVARIANT
  DirectoriesExist
