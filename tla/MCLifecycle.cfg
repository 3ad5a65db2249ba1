SPECIFICATION LiveSpec
CONSTANTS
  Clients = {v1}
  Faults = TRUE
  MaxPanics = 1
  MaxSignals = 1
INVARIANTS TypeOK EndIsTold
PROPERTIES FinalStateKept StopOutlastsModel StopEnds CallbackPanicEnds
CHECK_DEADLOCK FALSE
