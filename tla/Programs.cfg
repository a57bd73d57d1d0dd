SPECIFICATION PSpec
CONSTANTS
  K = 2
  Powers = {4}
  Sizes = {3}
  MaxVertices = 40
  Deletions = {}
  WithinMatrix = FALSE
  Arcs <- NoArcs
  Queries <- NoArcs
  NodeSizeMax = 3
  LeafSizeMax = 3
  Rounds = 10
  Files <- MCFiles
  Scripts <- MCScripts
  LargeTests <- MCLargeTests
  TreeTests <- MCTreeTests
INVARIANTS
  LoadedSoFar
  InsideMatrix
  RepliesAsExpected
  DestructorsFreeAll
PROPERTIES
  ProgramEnds
