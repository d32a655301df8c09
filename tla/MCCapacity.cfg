SPECIFICATION ServerSpec
CONSTANTS
  Ranked = FALSE
  ScoreToWin = 1
  RoundEndDelay = 1
  MaxJoins = 3
  MaxRounds = 3
  Accounts = {}
  Guest = "guest"
  MaxPlayers = 2
  MaxLoading = 3
  MaxMatches = 2
INVARIANTS
  CapacityIsKept
CHECK_DEADLOCK FALSE
