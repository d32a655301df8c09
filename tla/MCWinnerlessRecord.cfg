SPECIFICATION ServerSpec
CONSTANTS
  Ranked = TRUE
  ScoreToWin = 1
  RoundEndDelay = 1
  MaxJoins = 2
  MaxRounds = 2
  Accounts = {"ann", "bob"}
  Guest = "guest"
  MaxPlayers = 2
  MaxLoading = 1
  MaxMatches = 2
INVARIANTS
  ResultsNameTheWinner
CHECK_DEADLOCK FALSE
