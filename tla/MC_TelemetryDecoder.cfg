CONSTANT Streams <- MCStreamsMarked
SPECIFICATION Spec
INVARIANT TypeOK
INVARIANT DecodesSentFrames
PROPERTY ParseTerminates
CHECK_DEADLOCK FALSE
