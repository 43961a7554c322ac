SPECIFICATION Spec
CONSTANTS
  NSig = 3
  SIGKILL = 2
  SIGQUIT = 3
  Fn = {f}
  SIG_DFL = SIG_DFL
  SIG_IGN = SIG_IGN
  SIG_ERR = SIG_ERR
  sig_suspender = sig_suspender
  Practice <- MCPractice
  MaxStarts = 2
  MaxFrames = 3
CHECK_DEADLOCK FALSE
INVARIANTS TypeOK MaskExact ChildIsolated
PROPERTIES CallComputes RefinesSignalMask
