SPECIFICATION MCSpec
CONSTANTS
  Users = {ann, bob}
  Owner = ann
  Requests = {r1, r2}
  Profiles = {scout}
  Kits = {kit}
  NoKit = NoKit
  MaxColonies = 2
  NoColonies = NoColonies
  Builds = {b1}
  EndTick = 2
  SaveEvery = 1
  Faults = {"save", "settle", "reopen", "read", "drain"}
  NoRecord = NoRecord
  MaxStops = 1
  MaxInputs = 1
  Browsers = {w1, w2}
  Tokens = {t1, t2}
  NoToken = NoToken
  Life = 4
  Names = {scout, mine}
  Starters = {scout}
  Robots = {r1}
  Callers = {q1, q2}
  Colony = Colony
  BuiltIn = BuiltIn
  Unborn = Unborn
  Gone = Gone
  MaxEntries = 1
  MaxSaves = 3
  MaxId = 2
  SaveName = mine
SYMMETRY Symmetry
INVARIANTS RestartKeepsColonies CommandersAreSeated NamesItsRules NoDraftIsFielded
PROPERTIES SessionsEnd
CHECK_DEADLOCK FALSE
