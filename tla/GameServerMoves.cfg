SPECIFICATION Spec
CONSTANTS
  s1 = s1
  s2 = s2
  Sessions = {s1, s2}
  GemPos = {"g1"}
  SeqLen = 2
  MovesRoom = 2
  PlayersRoom = 1
  Crowd = 2
  MaxLogins = 2
  MaxMoves = 3
  Burst = 3
  Mishaps = {}
SYMMETRY SessionSymmetry
INVARIANTS
  TypeOK
  RegisteredReachable
  PendingBound
  PendingMovesQueued
  MovesRelayedOnce
CHECK_DEADLOCK FALSE
