CONSTANTS
  identifySpeakers = FALSE
  isTranscriptionCompletedRequested = TRUE
  completeResults = TRUE
  nonFinalUtterancesNeeded = FALSE
  MaxInputs = 4
  MaxFaults = 1
  MayShutDown = FALSE
  NoTuple = NoTuple

SPECIFICATION Spec
CHECK_DEADLOCK FALSE
INVARIANTS
  FinalizedOnlyBetweenConversations
  OneRequestAtATime
  CloseLosesNoAudio
PROPERTIES
  MovesOnAfterMarker
