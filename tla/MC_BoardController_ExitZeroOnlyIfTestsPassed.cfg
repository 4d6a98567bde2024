CONSTANTS
  NumChunks <- MCNumChunks
  Timeout <- MCTimeout
SPECIFICATION Spec
INVARIANT ExitZeroOnlyIfTestsPassed
CHECK_DEADLOCK FALSE
