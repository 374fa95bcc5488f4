SPECIFICATION SessionSpec
CONSTANTS
  Frames <- MCFrames
  MaxWire = 3
  MaxDrops = 0
  MaxRecords = 2
INVARIANT NoDataNotReplayed
CHECK_DEADLOCK FALSE
