CONSTANTS
  Streams <- MCStreams
  EndMarker <- MCEndMarker
  Timeout <- MCTimeout
SPECIFICATION Spec
INVARIANT TimeoutKeepsCapture
CHECK_DEADLOCK FALSE
