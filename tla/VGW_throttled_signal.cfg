CONSTANTS
  c1 = c1
  c2 = c2
  c3 = c3
  s1 = s1
  s2 = s2
  Connection = {c1, c2, c3}
  Session = {s1, s2}
  NoSession = NoSession
  vgwStaleSessionPurgeInterval = 1
  InitialMaxConcurrentCalls = 1
  Limits = {}
  MaxPackets = 2
  MaxEmpty = 0
  MaxTime = 2
  MayShutDown = FALSE

SPECIFICATION Spec
SYMMETRY Symmetry
CHECK_DEADLOCK FALSE
PROPERTIES
  ThrottledCallsAreSilent
