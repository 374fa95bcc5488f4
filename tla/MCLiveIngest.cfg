SPECIFICATION FairSession
CONSTANTS
  Frames <- MCFrames
  MaxWire = 4
  MaxDrops = 2
  MaxRecords = 4
INVARIANTS
  SubscriptionHeld
  ReadersAgree
  CaptureComplete
PROPERTIES
  NoDataDiscarded
  Resumes
  StopHonoured
CHECK_DEADLOCK FALSE
