SPECIFICATION Spec
CONSTANTS
  s1 = s1
  s2 = s2
  Sessions = {s1, s2}
  GemPos = {"g1"}
  SeqLen = 3
  MovesRoom = 4
  PlayersRoom = 3
  Crowd = 2
  MaxLogins = 1
  MaxMoves = 2
  Burst = 2
  Mishaps = {}
SYMMETRY SessionSymmetry
INVARIANTS
  GemReportOwed
CHECK_DEADLOCK FALSE
