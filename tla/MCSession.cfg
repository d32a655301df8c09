SPECIFICATION FairSpec
CONSTANTS
  Maps = {dust, ice}
  NoMap = NoMap
  MaxSockets = 2
  MaxInbox = 1
  MaxCoins = 1
  MaxMatches = 1
INVARIANTS
  OwnSession
  FilterIsTransparent
  TerrainIsTheMaps
  CoinsArrive
  RefusalsAreExplained
PROPERTIES
  ConnectingEnds
CHECK_DEADLOCK FALSE
