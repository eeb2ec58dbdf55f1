SPECIFICATION Spec
CONSTANTS
  s1 = s1
  s2 = s2
  s3 = s3
  Sessions = {s1, s2, s3}
  GemPos = {"g1"}
  SeqLen = 2
  MovesRoom = 2
  PlayersRoom = 2
  Crowd = 3
  MaxLogins = 1
  MaxMoves = 1
  Burst = 1
  Mishaps = {"drop", "early_close"}
SYMMETRY SessionSymmetry
INVARIANTS
  RosterComplete
  NoGhosts
  CrashHasCause
PROPERTY
  ImplementsService
CHECK_DEADLOCK FALSE
