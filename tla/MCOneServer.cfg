SPECIFICATION Spec
CONSTANTS
  Clients = {tab, phone}
  MaxPolls = 3
  MaxAsks = 3
INVARIANT OneServer
CHECK_DEADLOCK FALSE
