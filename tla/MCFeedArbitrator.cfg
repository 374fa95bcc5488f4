CONSTANTS
  Window = 2
  kMaxGap = 3
  MaxSeq = 5
  Records = {r1, r2}
  MaxOffers = 4
SPECIFICATION FairSpec
INVARIANTS
  NoAlias
  InOrder
  ExactlyOnce
  Integrity
  Conservation
  PromptRelease
PROPERTIES
  IsOrderedFeed
  NothingStranded
  CallReturns
