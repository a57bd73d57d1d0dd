SPECIFICATION CSpec
CONSTANTS
  K = 2
  Powers = {}
  Sizes = {2}
  MaxVertices = 2
  Deletions = {}
  WithinMatrix = TRUE
  Arcs <- SmallArcs
  Queries <- NoQueries
PROPERTY AddEdgeThrowsOnlyIfAbsent
