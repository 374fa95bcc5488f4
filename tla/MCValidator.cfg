SPECIFICATION Spec
CONSTANTS
  SeqWidth = 4
  kBandReanchorRun = 3
  kCapacity = 3
  Symbols <- MCSymbols
  NoKey = "0"
  Hash <- MCHash
  Records <- MCRecords
  MaxWindow = 1
PROPERTIES
  IsPerSymbol
