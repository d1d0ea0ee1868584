SPECIFICATION Spec
CONSTANTS
  Players = {ann}
  Builds = {b1, b2}
  NoRecord = NoRecord
  EndTick = 2
  SaveEvery = 1
  MaxStops = 1
  MaxInputs = 1
  Faults = {"read"}
PROPERTIES HistoryIsPermanent
CHECK_DEADLOCK FALSE
