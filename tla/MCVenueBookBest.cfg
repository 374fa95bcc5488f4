CONSTANTS
  MaxLevels = 2
  Prices = {1, 2, 3, 4}
  MaxSize = 1
SPECIFICATION Spec
INVARIANT BestLevels
