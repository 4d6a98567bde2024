CONSTANT Streams <- MCStreamsEdge
SPECIFICATION Spec
INVARIANT DecodesSentFrames
CHECK_DEADLOCK FALSE
