CONSTANTS
  FileSize = 5
  audioBlockSize = 2
  MaxFaults = 1

SPECIFICATION FairSpec
CHECK_DEADLOCK FALSE
INVARIANTS
  AudioAfterBothStarted
  AudioSharedOut
PROPERTIES
  SimulatorEnds
