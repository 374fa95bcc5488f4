SPECIFICATION FairFeed
CONSTANTS
  Window = 2
  kMaxGap = 4
  MaxSeq = 4
  Records = {0, 1, 2, 3}
  MaxOffers = 9
  Count = 4
  MaxLead = 2
  StraySizes = {"short"}
  MaxStrays = 1
INVARIANTS
  NoFalseGaps
  HandledIsValidated
PROPERTIES
  Reports
CHECK_DEADLOCK FALSE
