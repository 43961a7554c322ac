SPECIFICATION Spec
CONSTANTS
  Byte = {1, 2, 3}
  Nl = 2
  Ff = 3
  Chars = {1}
  TbSize = 2
  Sizes = {2}
  Contents <- MCContents
  Items <- MCItems
  MaxLen = 3
  MaxRead = 3
  Practice <- MCPractice
INVARIANTS SeekBackSafe
PROPERTIES RefinesByteStream
