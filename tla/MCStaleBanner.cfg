SPECIFICATION Spec
CONSTANTS
  Maps = {dust}
  NoMap = NoMap
  MaxSockets = 1
  MaxInbox = 1
  MaxCoins = 0
  MaxMatches = 2
INVARIANTS
  BannerIsOfThisMatch
CHECK_DEADLOCK FALSE
