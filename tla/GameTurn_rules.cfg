SPECIFICATION Spec
CONSTANTS
  NumPlayers = 2
  Rows = 3
  Cols = 5
  MaxTurns = 4
  AttackRadius2 = 1
  SpawnCost = 1
  EnergyInterval = 2
  KillScore = 1
  ZoneEnabled = TRUE
  ZoneStartTurn = 1
  ZoneShrinkInterval = 2
  ZoneShrinkStep = 6
  ZoneMinRadius = 1
  DominanceLimit = 2
  StalemateLimit = 2
  Walls <- SkirmishWalls
  CoreMap <- SkirmishCores
  NodeMap <- SkirmishNodes
  Silent = {}
INVARIANTS BoardIsSound ScoreLedger OutcomeJustified
CHECK_DEADLOCK FALSE
