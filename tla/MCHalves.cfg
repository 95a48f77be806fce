CONSTANTS
  Trees <- MCHalves
  MaxIncludeDepth = 2
  MinHexEdge = 10
  DefaultEdge = 100
  DefaultMinArea = 7
  DefaultPCI = 70
SPECIFICATION ConfigSpec
INVARIANTS IncludesFillUnsetFields
CHECK_DEADLOCK FALSE
