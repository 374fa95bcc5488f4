SPECIFICATION Spec
CONSTANTS
  SeqWidth = 3
  kBandReanchorRun = 3
  Trades <- MCTrades
  Bars <- MCBars
  Quotes <- MCQuotes
  MaxRecords = 5
INVARIANTS
  AccumulatorExact
  GapsAddUp
  ReferenceWithinTraded
  SustainedMoveAccepted
  OutlierDoesNotPoison
PROPERTIES
  BarVerdictExact
CHECK_DEADLOCK FALSE
