CONSTANTS
  identifySpeakers = TRUE
  isTranscriptionCompletedRequested = TRUE
  completeResults = FALSE
  nonFinalUtterancesNeeded = TRUE
  MaxInputs = 3
  MaxFaults = 2
  MayShutDown = FALSE
  NoTuple = NoTuple

SPECIFICATION Spec
CHECK_DEADLOCK FALSE
INVARIANTS
  TypeOK
  NoDanglingTuple
  QuietAfterFinalized
  ResultsMeetTheirConversation
  MessagesFindListener
  ClientStableWhileSending
PROPERTIES
  HandoverSpec
  EndTupleThenWindowMarker
  OutputInOrder
