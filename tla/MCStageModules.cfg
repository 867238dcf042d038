SPECIFICATION Spec
CONSTANTS
  old = old
  new = new
  rebuilt = rebuilt
  k5 = k5
  k6 = k6
  Builds <- MCBuilds
  Krels <- MCKrels
  KrelOf <- MCKrelOf
  Mods <- MCMods
  ModsOf <- MCModsOf
  Running = old
  NoFile = nofile
  Torn = torn
  MaxRuns = 2
  MaxFaults = 1
CHECK_DEADLOCK FALSE
INVARIANTS
  OkLasts
  RunningKeepsModules
PROPERTIES
  OkMeansStaged
