CONSTANTS
  a = a
  b = b
  t1 = t1
  t2 = t2
  NoStation = NoStation
  Stations <- MCStations
  Threads <- MCThreads
  NumRings = 2
  MaxClients = 2
  QueueMax = 1
  MaxFrames = 2
  MaxEvents = 2
  MaxFaults = 1
SYMMETRY Symmetry
SPECIFICATION Spec
CHECK_DEADLOCK FALSE
INVARIANTS
  IdsConserved
  CounterExact
  DongleRingBacked
  FreeIsClean
  Settled
  PeerGone
