SPECIFICATION FairSpec
CONSTANTS
  Threshold = 2
  MaxRequests = 3
  Window = 3
  MaxTime = 14
PROPERTIES
  NoRequestInWindow
  DroppedOnlyInWindow
  WaitReturns
