SPECIFICATION Spec
CONSTANTS
  Players = {p1, p2}
  Threshold = 2
  MaxTurns = 2
  MaxMatches = 2
  LateStart = TRUE
SYMMETRY PlayerSymmetry
INVARIANTS InactiveOnce
PROPERTY InactiveNotAsked
CHECK_DEADLOCK FALSE
