CONSTANTS
  MaxMatches <- MCMaxMatches
SPECIFICATION Spec
INVARIANT PrintsLinkerPath
CHECK_DEADLOCK FALSE
