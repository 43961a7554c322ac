SPECIFICATION FairExitSpec
CONSTANTS
  MaxReg = 4
  Habits <- MCHabits
INVARIANTS RunsAll Flushed
PROPERTIES Terminates
