SPECIFICATION StoreSpec
CONSTANTS
  Tabs = {one, two}
  SlotNames = {keep, pit, tower}
  MaxSlots = 2
  MaxSaves = 4
PROPERTIES
  OnlyTheOldestGo
CHECK_DEADLOCK FALSE
