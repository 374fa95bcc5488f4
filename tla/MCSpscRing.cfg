SPECIFICATION FairSpec
CONSTANTS
  Capacity = 2
  CacheFarCursor = TRUE
  W = 4
  Items = {a, b}
  MaxItems = 6
INVARIANTS
  NoRace
  SizeBounded
PROPERTIES
  NoSacrificedSlot
  IsFifo
  AllDelivered
