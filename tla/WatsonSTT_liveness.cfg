CONSTANTS
  identifySpeakers = TRUE
  isTranscriptionCompletedRequested = TRUE
  completeResults = FALSE
  nonFinalUtterancesNeeded = TRUE
  MaxInputs = 2
  MaxFaults = 1
  MayShutDown = TRUE
  NoTuple = NoTuple

SPECIFICATION FairSpec
CHECK_DEADLOCK FALSE
PROPERTIES
  SenderReturns
  StopEndsTranscription
  ShutdownEndsReceiver
