SPECIFICATION LiveSpec
CONSTANTS
  Ids = {c1, c2}
  NoId = NoId
  Resumed = c1
  Kinds = {"update", "status", "ok", "event", "stop", "failed"}
  Codes = {"ok", "again", "raise"}
  Rescues = {TRUE, FALSE}
  Voters = {TRUE, FALSE}
  Interrupts = {"Stopping", "Finishing", "cancel"}
  Faults = TRUE
  MaxRounds = 1
  MaxUpdates = 1
INVARIANTS TypeOK OpenCallIsRemembered CodeFitsAnswer
PROPERTIES WaitIsJustified Completes StopEnds
CHECK_DEADLOCK FALSE
