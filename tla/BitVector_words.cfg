SPECIFICATION Spec
CONSTANTS
  W = 4
  LENGTH = 3
  Step = 2
  Sizes = {2}
  MaxOnes = 1
VIEW Vectors
INVARIANTS
  RanksAreCounts
PROPERTIES
  ImplementsStrings
CONSTANT MaxRest = 1
