SPECIFICATION Spec
CONSTANTS
  Accounts = {resident, fresh}
  Residents = {resident}
  NoAccount = NoAccount
  Items = {hat, wig}
  NoItem = NoItem
  PocketCoins = 1
  SeedCap = 0
  MaxCoins = 1
  MaxCalls = 2
  MaxEdits = 2
  MaxReloads = 1
CONSTRAINT NotOverlapped
INVARIANTS
  ProfileIsOneAccounts
  LocalLedgerBalances
  EditsAreSaved
PROPERTIES
  AccountsAreNotLost
CHECK_DEADLOCK FALSE
