SPECIFICATION Spec
CONSTANTS
  NumIslands = 2
  MaxPrograms = 3
  MaxRetries = 1
  Niches = {n1}
  FitLevels = {10, 20}
  Opponents = {o1, o2}
  Rounds = 2
  PopCap = 1
  Interval = 1
  PolicySQLAccepted = TRUE
  MaxFaults = 2
INVARIANTS ActiveIsDeployed DriftIsBounded NicheImproves
CHECK_DEADLOCK FALSE
