SPECIFICATION Spec
CONSTANTS
  s1 = s1
  s2 = s2
  Sessions = {s1, s2}
  GemPos = {"g1"}
  SeqLen = 2
  MovesRoom = 4
  PlayersRoom = 3
  Crowd = 2
  MaxLogins = 1
  MaxMoves = 0
  Burst = 1
  Mishaps = {"drop"}
SYMMETRY SessionSymmetry
INVARIANTS
  UsersAreConnected
CHECK_DEADLOCK FALSE
