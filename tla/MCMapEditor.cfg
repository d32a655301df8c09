SPECIFICATION Spec
CONSTANTS
  Width = 4
  Height = 2
  MinSize = 1
  Grid = 2
  MidHandleMin = 4
  MaxBlocks = 2
  Kinds = {"solid", "mover"}
  Options = {"default", "fast"}
  Original <- MCOriginal
  Points <- MCPoints
  Numbers <- MCNumbers
  MaxEdits = 5
INVARIANTS
  SelectionIsTheUsers
  MergeKeepsTheGround
  LayoutArrivesAsDrawn
CHECK_DEADLOCK FALSE
