SPECIFICATION FeedSpec
CONSTANTS
  Window = 2
  kMaxGap = 4
  MaxSeq = 4
  Records = {0, 1, 2, 3}
  MaxOffers = 8
  Count = 4
  MaxLead = 3
  StraySizes = {"short"}
  MaxStrays = 0
INVARIANTS
  DeliveryUnaffected
CHECK_DEADLOCK FALSE
