SPECIFICATION Spec
CONSTANTS
  Width = 4
  Height = 2
  MinSize = 1
  Grid = 2
  MidHandleMin = 4
  MaxBlocks = 2
  Kinds = {"solid"}
  Options = {"default"}
  Original <- MCOriginal
  Points <- MCPoints
  Numbers <- MCNumbers
  MaxEdits = 3
INVARIANTS
  DragHoldsItsBlock
CHECK_DEADLOCK FALSE
