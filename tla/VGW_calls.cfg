CONSTANTS
  c1 = c1
  c2 = c2
  c3 = c3
  s1 = s1
  s2 = s2
  Connection = {c1, c2, c3}
  Session = {s1, s2}
  NoSession = NoSession
  vgwStaleSessionPurgeInterval = 0
  InitialMaxConcurrentCalls = 1
  Limits = {0, 2}
  MaxPackets = 2
  MaxEmpty = 1
  MaxTime = 0
  MayShutDown = TRUE

SPECIFICATION Spec
SYMMETRY Symmetry
CHECK_DEADLOCK FALSE
INVARIANTS
  ListsCountLegs
  TuplesCarryCallNumber
PROPERTIES
  ThrottledCallsAreSilent
  EveryLegIsSignalled
