CONSTANTS
  Replies <- MCReplies
  NumCalls <- MCNumCalls
SPECIFICATION Spec
INVARIANT ReturnsWholeFrame
CHECK_DEADLOCK FALSE
