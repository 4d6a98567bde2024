CONSTANTS
  NumChunks <- MCNumChunks
  Timeout <- MCTimeout
SPECIFICATION Spec
INVARIANT TypeOK
INVARIANT ExitZeroOnlyIfCompleted
PROPERTY ChunkOnlyAfterOk
PROPERTY ControllerTerminates
CHECK_DEADLOCK FALSE
