SPECIFICATION FairSpec
CONSTANTS
  factory = factory
  new = new
  rebuilt = rebuilt
  huge = huge
  k5 = k5
  k6 = k6
  Images <- MCTwoImages
  Krels <- MCKrels
  KrelOf <- MCKrelOf
  OverCap = {}
  Factory = factory
  Torn = torn
  NoFile = nofile
  MaxMinute = 2
  MaxRuns = 2
  MaxFaults = 1
  RetryInMinute = FALSE
  RetryWhileRemoteRuns = FALSE
CHECK_DEADLOCK FALSE
PROPERTIES
  RunEnds
  BrickRecovers
