SPECIFICATION Spec
CONSTANTS
  Handle = {h1, h2}
  NoHandle = none
  MaxRecur = 2
  Addr = {a1, a2}
  MaxArgs = 2
  HeapMayFail = TRUE
  Val = {0, 1}
  InitVal = 0
SYMMETRY Symmetric
INVARIANTS
  TypeOK
  NoretLive
  ContextOwned
  IdleClean
PROPERTIES
  NoLeak
  PrivateSpec
CHECK_DEADLOCK FALSE
