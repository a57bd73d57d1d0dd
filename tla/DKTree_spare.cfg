SPECIFICATION CSpec
CONSTANTS
  K = 2
  Powers = {}
  Sizes = {4}
  MaxVertices = 6
  Deletions = {}
  WithinMatrix = FALSE
  Arcs <- SpareArcs
  Queries <- NoQueries
INVARIANT ReportEdgeIsRight
