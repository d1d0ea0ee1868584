SPECIFICATION ReplaySpec
CONSTANTS
  EndTick = 4
  HistoryEvery = 1
  HistoryCap = 5
  GraphMax = 6
  EventCap = 3
  FeedSlack = 1
  Rewind = 2
  NoSnap = NoSnap
  TickEvents = {0, 2}
  MaxDrops = 1
  MaxStops = 1
INVARIANT GraphFollowsTheBoard
CHECK_DEADLOCK FALSE
