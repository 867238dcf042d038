CONSTANTS
  c1 = c1
  c2 = c2
  none = none
  Callers <- MCCallers
  NoCaller = none
  TransMod = 4
  BeforeRollover = 0
  CtrlResched = 2
  MaxIoctls = 2
  MaxResets = 1
SPECIFICATION Spec
CHECK_DEADLOCK FALSE
INVARIANTS
  OwnResponse
  NeverBusy
PROPERTIES
  CleanSlate
  IoctlReturns
  CleanupEnds
