SPECIFICATION Spec
CONSTANTS
  MaxWire = 2
  MaxRounds = 2
INVARIANTS
  GuardStopsWithTheHand
CHECK_DEADLOCK FALSE
