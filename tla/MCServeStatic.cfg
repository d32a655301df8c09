SPECIFICATION FairSpec
CONSTANTS
  Clients = {tab, phone}
  MaxPolls = 3
  MaxAsks = 3
INVARIANTS RefusalsAreReadable HealthzNamesTheTarget
PROPERTIES EmbedIsDecided EndsArePassedOn
CHECK_DEADLOCK FALSE
