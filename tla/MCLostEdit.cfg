SPECIFICATION Spec
CONSTANTS
  Accounts = {resident, fresh}
  Residents = {resident}
  NoAccount = NoAccount
  Items = {}
  NoItem = NoItem
  PocketCoins = 0
  SeedCap = 1
  MaxCoins = 1
  MaxCalls = 1
  MaxEdits = 1
  MaxReloads = 1
PROPERTIES
  EditsSurvive
CHECK_DEADLOCK FALSE
