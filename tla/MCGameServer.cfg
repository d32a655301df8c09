SPECIFICATION FairServerSpec
CONSTANTS
  Ranked = TRUE
  ScoreToWin = 2
  RoundEndDelay = 1
  MaxJoins = 3
  MaxRounds = 4
  Accounts = {ann, bob}
  Guest = Guest
  MaxPlayers = 2
  MaxLoading = 2
  MaxMatches = 2
INVARIANTS
  SeatsAreHeld
  RecordedOncePerMatch
  MatchesAreAccountedFor
  NoSelfMatch
PROPERTIES
  RoundOverEnds
CHECK_DEADLOCK FALSE
