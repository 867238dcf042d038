SPECIFICATION Spec
CONSTANTS
  r1 = r1
  r2 = r2
  big = big
  k49 = k49
  Revs <- MCSafe
  Krels = {k49}
  KrelOf <- MCKrelOf
  BadKrels = {}
  Unpatchable = {}
  Big = {big}
  NoFile = nofile
  Torn = torn
  Mixed = mixed
  Base = base
  Local = local
  MaxMinute = 2
  MaxFaults = 1
  RetryInMinute = FALSE
INVARIANTS
  PublishedOneBuild
