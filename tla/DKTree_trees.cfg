SPECIFICATION TreesSpec
CONSTANTS
  K = 2
  Powers = {}
  Sizes = {8}
  MaxVertices = 10
  Deletions = {8, 1}
  WithinMatrix = TRUE
  Arcs <- TreesArcs
  Queries <- TreesQueries
  NodeSizeMax = 3
  LeafSizeMax = 1
VIEW TreesView
INVARIANTS
  VectorsAgree
PROPERTIES
  AnswersAgree
