CONSTANTS
  NumChunks <- MCNumChunks
  Timeout <- MCTimeout
SPECIFICATION Spec
INVARIANT ReplyMatchesRequest
CHECK_DEADLOCK FALSE
