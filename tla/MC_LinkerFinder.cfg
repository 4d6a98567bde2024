CONSTANTS
  MaxMatches <- MCMaxMatches
SPECIFICATION Spec
CHECK_DEADLOCK FALSE
PROPERTY ImplementsSearch
