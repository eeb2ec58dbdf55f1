SPECIFICATION FairSystemSpec
CONSTANTS
  s1 = s1
  s2 = s2
  Sessions = {s1, s2}
  GemPos = {"g1"}
  SeqLen = 2
  MovesRoom = 2
  PlayersRoom = 1
  Crowd = 2
  MaxLogins = 1
  MaxMoves = 1
  Burst = 1
  Mishaps = {"drop", "early_close"}
PROPERTY PlayersMeet
CHECK_DEADLOCK FALSE
