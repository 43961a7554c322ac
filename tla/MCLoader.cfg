SPECIFICATION Spec
CONSTANTS
  Handle = {h0, h1}
  MaxLibs = 3
  Practice <- MCPractice
CHECK_DEADLOCK FALSE
INVARIANTS TypeOK ReachesItself
