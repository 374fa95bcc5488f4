CONSTANTS
  MaxLevels = 2
  Prices = {1, 2, 3, 4}
  MaxSize = 2
SPECIFICATION Spec
INVARIANTS
  BestFirst
  KeptLevelsExact
  ExactWithinDepth
