SPECIFICATION Spec
CONSTANTS
  NFd = 3
  MaxRef = 3
  Name = {a, b}
  NoName = NoName
  MaxObj = 3
  MaxObjOom = 2
  MaxStarts = 1
SYMMETRY Symmetric
CHECK_DEADLOCK FALSE
PROPERTY TempGoneAtExit
