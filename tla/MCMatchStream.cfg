SPECIFICATION FairSpec
CONSTANTS
  EndTick = 4
  HistoryEvery = 1
  HistoryCap = 2
  GraphMax = 3
  EventCap = 3
  FeedSlack = 1
  Rewind = 2
  NoSnap = NoSnap
  TickEvents = {0, 2}
  MaxDrops = 1
  MaxStops = 1
INVARIANTS FeedIsTheWorlds FrameOwesNothing EndIsFinal HistoryEven SeriesAscends
PROPERTIES SpectatorSeesTheEnd StopEndsStreams
CHECK_DEADLOCK FALSE
