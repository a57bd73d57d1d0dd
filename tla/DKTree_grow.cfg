SPECIFICATION FairSpec
CONSTANTS
  K = 2
  Powers = {}
  Sizes = {3}
  MaxVertices = 6
  Deletions = {0, 1, 2, 3, 4, 5}
  WithinMatrix = TRUE
  Arcs <- GrowArcs
  Queries <- GrowQueries
INVARIANTS TypeOK ColumnsInOrder BlockPerOne PositionsInRange LevelsAgree FramesCurrent LayoutOfGraph UnusedRowsAreEmpty
PROPERTIES FailedCallsChangeNothing ImplementsGraph CallsReturn
