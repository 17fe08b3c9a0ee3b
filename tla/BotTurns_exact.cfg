SPECIFICATION FairSpec
CONSTANTS
  Players = {p1, p2}
  Threshold = 3
  MaxTurns = 5
  MaxMatches = 1
  LateStart = FALSE
INVARIANTS CrashIsEarned GuardFollowsRunner DebugOfThisTurn
PROPERTY TurnsSettle
CHECK_DEADLOCK FALSE
