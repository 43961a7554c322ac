SPECIFICATION FairSpec
CONSTANTS
  TickLen = 3
  Values = {0, 2, 5, 9}
  Intervals = {0, 4}
  None = None
  MaxCalls = 3
  MaxLost = 1
  MaxLate = 8
  MaxNest = 2
CHECK_DEADLOCK FALSE
INVARIANTS TypeOK NeverLate HookedWhileArmed
PROPERTIES OneShotExpires
