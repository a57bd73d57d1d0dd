SPECIFICATION Spec
CONSTANTS
  BlockSize = 1
  NodeSizeMax = 3
  LeafSizeMax = 1
  CountsOnes = TRUE
  MaxBlocks = 9
  MaxOnes = 1
  Probes = {0, 1, 2, 3, 4, 5, 6, 7, 8, 9}
VIEW TreeView
INVARIANTS
  Linked
  CountersCurrent
  SizesInBounds
  Balanced
PROPERTIES
  ImplementsVector
