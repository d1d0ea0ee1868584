SPECIFICATION MCSpec
CONSTANTS
  Users = {ann, bob, cid}
  Owner = ann
  Requests = {r1, r2, r3}
  Profiles = {scout}
  Kits = {kit}
  NoKit = NoKit
  MaxColonies = 3
  NoColonies = NoColonies
  Bodies <- MCBodies
  Members = 2
  ProfilesSeated <- MCSeated
  StartingBudgets = {0, 23, 50}
  MaxEntries = 3
  Bots = {1, 2, 3}
  Programs = {p}
  Everyone = Everyone
  HistoryTicks = 2
  MaxWatched = 2
  WatchIdleTicks = 2
  Wiped = Wiped
  NoTable = NoTable
  MaxTick = 3
  MaxInstalls = 1
  Writers = {1}
  Busy = {3}
  MaxRules = 256
  MaxActionsPerRule = 8
  MaxCondDepth = 16
  MaxCondNodes = 256
  MemPoints = 3
  FullHealth = 10
  LowHealth = 2
  NoCell = NoCell
  Far = 2
  Reach = 1
  Minds <- MCMinds
  Conditions <- MCConditions
SYMMETRY Symmetry
INVARIANTS SeatsFit MatchIsTheRows OpeningsAreEqual RingIsTheDecisions ExplainAgrees WarningsAreTrue
PROPERTIES FrozenByTheStart FieldUntouched WatchKeepsTheFresh
