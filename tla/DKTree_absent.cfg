SPECIFICATION FairSpec
CONSTANTS
  K = 2
  Powers = {}
  Sizes = {3}
  MaxVertices = 3
  Deletions = {}
  WithinMatrix = TRUE
  Arcs <- AbsentArcs
  Queries <- NoQueries
PROPERTY ImplementsHeader
