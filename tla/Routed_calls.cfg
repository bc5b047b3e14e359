CONSTANTS
  c1 = c1
  c2 = c2
  c3 = c3
  c4 = c4
  s1 = s1
  s2 = s2
  s3 = s3
  Connection = {c1, c2, c3, c4}
  Session = {s1, s2, s3}
  NoSession = NoSession
  vgwStaleSessionPurgeInterval = 0
  InitialMaxConcurrentCalls = 2
  Limits = {1}
  MaxPackets = 2
  MaxEmpty = 0
  MaxTime = 0
  MayShutDown = FALSE
  totalNumberOfSpeechProcessorJobs = 2
  numberOfConcurrentCallsAllowedPerSpeechProcessor = 1
  MaxQueue = 2

SPECIFICATION RoutedSpec
SYMMETRY Symmetry
VIEW RoutedView
CHECK_DEADLOCK FALSE
INVARIANTS
  CountsAreCalls
  NoCallRefused
  PlacesGivenBack
