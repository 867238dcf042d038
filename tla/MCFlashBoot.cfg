SPECIFICATION Spec
CONSTANTS
  factory = factory
  new = new
  rebuilt = rebuilt
  huge = huge
  k5 = k5
  k6 = k6
  Images <- MCImages
  Krels <- MCKrels
  KrelOf <- MCKrelOf
  OverCap <- MCOverCap
  Factory = factory
  Torn = torn
  NoFile = nofile
  MaxMinute = 3
  MaxRuns = 3
  MaxFaults = 2
  RetryInMinute = FALSE
  RetryWhileRemoteRuns = FALSE
CHECK_DEADLOCK FALSE
INVARIANTS
  TypeOK
  BackupBeforeEachFlash
  Recoverable
PROPERTIES
  NoScriptedBrick
  RebootHasModules
  OkMeansBooted
  ImplementsBootSlot
