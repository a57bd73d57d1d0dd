SPECIFICATION SpecLtree
CONSTANTS
  BlockSize = 2
  NodeSizeMax = 3
  LeafSizeMax = 2
  CountsOnes = FALSE
  MaxBlocks = 8
  MaxOnes = 1
  Probes = {1, 6, 15}
VIEW TreeView
INVARIANTS
  CountersCurrent
  LeafHoldsPosition
PROPERTIES
  ImplementsVector
