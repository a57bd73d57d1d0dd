SPECIFICATION GSpec
CONSTANTS
  K = 2
  Powers = {}
  Sizes = {9}
  MaxVertices = 9
  Deletions = {0, 7, 8}
  WithinMatrix = TRUE
  Arcs <- DeepArcs
  Queries <- DeepQueries
INVARIANTS FramesCurrent LayoutOfGraph
PROPERTIES ImplementsGraph
