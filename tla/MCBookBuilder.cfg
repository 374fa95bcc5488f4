CONSTANTS
  Book <- MCBook
  InitialBook <- MCInitialBook
  Change <- MCChange
  Apply <- MCApply
  LevelLists <- MCLevelLists
  FromLevels <- MCFromLevels
  RecoverBuf = 2
  MaxDeltas = 4
  StatCap = 1
SPECIFICATION FairSpec
INVARIANTS
  LiveExact
PROPERTIES
  NeverRewinds
  Recovers
