SPECIFICATION Spec
CONSTANTS
  NFd = 4
  MaxObj = 2
  MaxCount = 3
  MaxStarts = 2
  Practice <- MCPractice
INVARIANTS Counted DeviceWorks Tidied
