CONSTANTS
  wlan0 = wlan0
  wlan1 = wlan1
  Netdevs <- MCNetdevs
  MaxSuspends = 2
  MaxFaults = 1
SPECIFICATION Spec
CHECK_DEADLOCK FALSE
INVARIANTS
  SuspendedQuiet
  IoctlRings
  WakeLockExact
  DongleFollows
  QueuesRunAgain
PROPERTIES
  WaitsEnd
