SPECIFICATION LedgerSpec
CONSTANTS
  Accounts <- AnnAndBob
  Items = {"hat", "cape"}
  Price <- Prices
  Seed = 1
  Results <- SomeResults
  SeasonSeeded = TRUE
  Tx = {1, 2, 3}
  Nobody = 0
INVARIANTS
  CoinsAreKept
CHECK_DEADLOCK FALSE
