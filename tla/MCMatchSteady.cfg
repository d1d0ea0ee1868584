SPECIFICATION Spec
CONSTANTS
  Players = {ann, bob}
  Builds = {b1, b2}
  NoRecord = NoRecord
  EndTick = 4
  SaveEvery = 2
  MaxStops = 2
  MaxInputs = 2
  Faults = {"settle", "reopen"}
INVARIANTS OnlyForeignIsAbandoned FinishedIsInHistory GracefulStopRewindsNothing
PROPERTIES HistoryIsPermanent ImplementsPromise
SYMMETRY Symmetry
CHECK_DEADLOCK FALSE
