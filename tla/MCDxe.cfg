SPECIFICATION Spec
CONSTANTS
  File <- MCFile
  Deps <- MCDeps
  Needs <- MCNeeds
  MaxId = 8
  MaxHeld = 4
  FailAt = {0, 1, 2, 3, 4, 5, 6, 7, 8, 9, 10, 11, 12}
  Practice <- MCPractice
INVARIANTS UsesCounted SymbolsStay AllClosed AlwaysLoads
