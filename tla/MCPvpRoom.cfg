SPECIFICATION Spec
CONSTANTS
  Ranked = FALSE
  ScoreToWin = 2
  RoundEndDelay = 2
  MaxJoins = 4
  MaxRounds = 6
INVARIANTS
  PickerIsPresent
  TargetEndsTheMatch
  CoinsAreEarned
PROPERTIES
  ImplementsMatch
