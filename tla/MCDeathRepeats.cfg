SPECIFICATION Spec
CONSTANTS
  DuelCards = {}
  TrainingCards = {"tank"}
  Tiers <- SmallWaves
  MAX_HP = 1
  Life = 3
  BLOCK_METER_MAX = 1
  RespawnTicks = 1
  BreakTicks = 1
  RoundEndTicks = 1
  MaxAir = 2
  MaxCards = 1
  MaxWave = 2
PROPERTIES
  DeathRepeatsItsWave
CHECK_DEADLOCK FALSE
