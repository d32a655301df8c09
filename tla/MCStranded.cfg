SPECIFICATION ServerSpec
CONSTANTS
  Ranked = FALSE
  ScoreToWin = 1
  RoundEndDelay = 1
  MaxJoins = 2
  MaxRounds = 3
  Accounts = {}
  Guest = "guest"
  MaxPlayers = 2
  MaxLoading = 2
  MaxMatches = 2
INVARIANTS
  NobodyIsStranded
CHECK_DEADLOCK FALSE
