CONSTANTS
  NumChunks <- MCNumChunks
  Timeout <- MCTimeout
SPECIFICATION Spec
INVARIANT CompletedRunIsReported
CHECK_DEADLOCK FALSE
