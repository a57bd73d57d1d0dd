SPECIFICATION Spec
CONSTANTS
  BlockSize = 2
  NodeSizeMax = 3
  LeafSizeMax = 3
  CountsOnes = TRUE
  MaxBlocks = 10
  MaxOnes = 1
  Probes = {0, 1, 2, 3, 4, 5, 6, 7, 8, 9, 10, 11, 12, 13, 14, 15, 16, 17, 18, 19, 20}
VIEW TreeView
INVARIANTS
  TypeOK
  Linked
  CountersCurrent
  SizesInBounds
  PathCurrent
  LeafHoldsPosition
  Balanced
PROPERTIES
  ImplementsVector
  CallsAdvance
