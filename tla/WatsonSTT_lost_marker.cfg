CONSTANTS
  identifySpeakers = TRUE
  isTranscriptionCompletedRequested = TRUE
  completeResults = FALSE
  nonFinalUtterancesNeeded = TRUE
  MaxInputs = 3
  MaxFaults = 1
  MayShutDown = FALSE
  NoTuple = NoTuple

SPECIFICATION Spec
CHECK_DEADLOCK FALSE
INVARIANTS
  WindowMarkerInAnyCase
