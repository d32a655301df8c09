SPECIFICATION Spec
CONSTANTS
  Clients = {tab, phone}
  MaxPolls = 3
  MaxAsks = 3
INVARIANT HealthzTellsOfDeath
CHECK_DEADLOCK FALSE
