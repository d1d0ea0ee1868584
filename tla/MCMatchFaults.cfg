SPECIFICATION FairSpec
CONSTANTS
  Players = {ann, bob}
  Builds = {b1, b2}
  NoRecord = NoRecord
  EndTick = 3
  SaveEvery = 2
  MaxStops = 2
  MaxInputs = 2
  Faults = {"save", "read", "drain"}
INVARIANTS LogExplainsWorld RewindBound HistoryIsComplete OpenHasNoMatch
PROPERTIES RunningEnds StopEnds

CHECK_DEADLOCK FALSE
