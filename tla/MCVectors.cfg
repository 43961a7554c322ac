SPECIFICATION VectorsSpec
CONSTANTS
  MaxStarts = 4
  Practice <- MCPractice
CHECK_DEADLOCK FALSE
INVARIANTS NoVoid
PROPERTIES Restores
