SPECIFICATION Spec
CONSTANTS
  W = 4
  LENGTH = 3
  Step = 2
  Sizes = {2, 8}
  MaxOnes = 1
INVARIANTS
  InsertedBitsAreZero
CONSTANT MaxRest = 1
