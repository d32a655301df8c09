SPECIFICATION Spec
CONSTANTS
  MaxWire = 3
  MaxRounds = 2
INVARIANTS
  NothingActsByItself
  PickerIsNotLocked
  VoteIsThisMatchs
CHECK_DEADLOCK FALSE
