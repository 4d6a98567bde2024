CONSTANTS
  Replies <- MCReplies
  NumCalls <- MCNumCalls
SPECIFICATION Spec
INVARIANT TypeOK
INVARIANT DecodesAlignedFrame
PROPERTY CallsReturn
CHECK_DEADLOCK FALSE
