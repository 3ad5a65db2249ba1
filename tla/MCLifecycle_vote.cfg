SPECIFICATION AnsweringSpec
CONSTANTS
  Clients = {v1}
  Faults = FALSE
  MaxPanics = 0
  MaxSignals = 0
PROPERTIES UnvetoedVotePasses
CHECK_DEADLOCK FALSE
