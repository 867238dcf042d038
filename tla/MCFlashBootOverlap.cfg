SPECIFICATION Spec
CONSTANTS
  factory = factory
  new = new
  rebuilt = rebuilt
  huge = huge
  k5 = k5
  k6 = k6
  Images <- MCTwoImages
  Krels <- MCKrels
  KrelOf <- MCKrelOf
  OverCap = {}
  Factory = factory
  Torn = torn
  NoFile = nofile
  MaxMinute = 2
  MaxRuns = 2
  MaxFaults = 0
  RetryInMinute = FALSE
  RetryWhileRemoteRuns = TRUE
CHECK_DEADLOCK FALSE
PROPERTIES
  NoScriptedBrick
