SPECIFICATION LadderSpec
CONSTANTS
  MAX_TIER = 4
  PLACEMENT_MATCHES = 2
  MIN_MMR = 740
  MAX_MMR = 880
  BASE_MMR = 800
  MMR_AT_TIER_1 = 740
  Chances = {0, 50, 100}
  Rivals = {740, 800, 880}
  ScoreToWin = 2
  MaxRr = 120
PROPERTIES
  DemotionTakesTwoLosses
  ResultsShow
