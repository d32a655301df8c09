SPECIFICATION FairLedgerSpec
CONSTANTS
  Accounts <- AnnAndBob
  Items = {"hat", "cape", "badge"}
  Price <- Prices
  Seed = 1
  Results <- SomeResults
  SeasonSeeded = FALSE
  Tx = {1, 2, 3}
  Nobody = 0
INVARIANTS
  CoinsStayLegal
  MatchesAreCounted
  SoldOnce
PROPERTIES
  TransactionsEnd
CHECK_DEADLOCK FALSE
