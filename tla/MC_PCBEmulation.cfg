CONSTANTS
  Streams <- MCAllStreams
  EndMarker <- MCEndMarker
  Timeout <- MCTimeout
SPECIFICATION Spec
INVARIANT TypeOK
INVARIANT SentinelDetectedOnce
INVARIANT ParseOnStableBuffer
PROPERTY RunTerminates
CHECK_DEADLOCK FALSE
