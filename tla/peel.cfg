CONSTANTS
  BlockCount = 4
  RefListMax = 3
  RowShapes <- Shapes
SPECIFICATION FairSpec
INVARIANTS
  PeelInv
  RowLinkedOnce
  UnmarkedFits
  PeelOrderTriangular
  SquareRemainder
PROPERTIES
  RefusedRowLeavesNoTrace
  GreedyCompletes
CHECK_DEADLOCK FALSE
