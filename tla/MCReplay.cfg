SPECIFICATION FairSpec
CONSTANTS
  Symbols <- MCSymbols
  n = 20
  TradeCounts = {2}
  Jitters <- MCJitters
  UsualJitter <- MCUsualJitter
  Sizes = {2}
  MaxOdd = 2
  SeqWidth = 64
  kBandReanchorRun = 3
  Passes = 2
  Sweep <- MCSweep
  Owner <- MCOwner
  RingCapacity = 2
  kCapacity = 2
INVARIANTS
  DefectsExplained
  AsSequential
  TimedExactly
PROPERTIES
  Finishes
CHECK_DEADLOCK FALSE
