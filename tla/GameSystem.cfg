SPECIFICATION SystemSpec
CONSTANTS
  s1 = s1
  s2 = s2
  Sessions = {s1, s2}
  g1 = g1
  g2 = g2
  GemPos = {g1, g2}
  SeqLen = 3
  MovesRoom = 3
  PlayersRoom = 1
  Crowd = 2
  MaxLogins = 1
  MaxMoves = 2
  Burst = 2
  Mishaps = {"drop", "early_close"}
SYMMETRY SystemSymmetry
INVARIANTS
  ScreenShowsPlayers
  HandledOnceEntered
  GemsAreServers
  StepsInOrder
PROPERTY PagesPlayByTheRules
CHECK_DEADLOCK FALSE
