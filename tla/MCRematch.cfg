SPECIFICATION Spec
CONSTANTS
  Ranked = FALSE
  ScoreToWin = 1
  RoundEndDelay = 1
  MaxJoins = 3
  MaxRounds = 6
INVARIANTS
  UnanimityStarts
