SPECIFICATION MCSpec
CONSTANTS
  Width = 3
  Height = 3
  NoCargo = NoCargo
  hull = hull
  gun = gun
  arm = arm
  gunner = gunner
  hauler = hauler
  Variants = {hull, gun, arm}
  Blueprints = {gunner, hauler}
  Manipulators = {arm}
  Home <- MCHome
  Parts <- MCParts
  Barriers <- MCBarriers
  Enterable <- MCEnterable
  MoveTicks <- MCMoveTicks
  TurnTicks <- MCTurnTicks
  BuildTicks <- MCBuildTicks
  Durability <- MCDurability
  Weapons <- MCWeapons
  InteractRange = 1
  InteractTicks = 1
  Approved <- MCApproved
  Roster <- MCRoster
  Stock <- MCStock
  Ground <- MCGround
  SpawnEvery = 4
  Duration = 4
  MaxCommands = 1
  GridWidth = 6
  GridHeight = 4
  Shapes <- MCShapes
  Sites <- MCSites
  Draws <- MCDraws
  MaxPaints = 2
  MaxBases = 2
  MaxLoose = 1
INVARIANTS TypeOK Conservation KillsAreLosses LossesAreTold ArenaConnected
PROPERTIES WreckIsInert RecallGetsHome
CHECK_DEADLOCK FALSE
