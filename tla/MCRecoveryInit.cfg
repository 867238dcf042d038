SPECIFICATION FairSpec
CONSTANTS
  Paths <- MCPaths
  Disks <- MCDisks
  CrashDisks <- MCCrashDisks
  Payload <- MCPayload
  MaxCrashes = 2
  MaxFaults = 1
CHECK_DEADLOCK FALSE
INVARIANTS
  NoFileLost
  MergeIsOverlay
  RepairComplete
PROPERTIES
  RepairSurvives
  Terminates
