SPECIFICATION MindSpec
CONSTANTS
  MaxRules = 256
  MaxActionsPerRule = 8
  MaxCondDepth = 16
  MaxCondNodes = 256
  MemPoints = 3
  FullHealth = 10
  LowHealth = 2
  NoCell = NoCell
  Far = 2
  Reach = 1
  Minds <- MCMinds
  Conditions <- MCConditions
INVARIANT InertStaysInert
