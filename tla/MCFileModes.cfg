SPECIFICATION Spec
CONSTANTS
  Small = 3
  Big = 4
  NText = 1
  NStd = 1
  MaxStarts = 2
INVARIANTS TypeOK ModesKept GrowsInTime
PROPERTIES OpendirClean
