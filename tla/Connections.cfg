SPECIFICATION MCSpec
CONSTANTS
  Keys = {k1, k2}
  Chunks = 2
  ATTEMPTS = 2
  UNFINISHED = 1
  MaxFaults = 2
  Messages = 2
  Parts = 3
  WINDOW = 2
  Capacity = 2
  MaxKeys = 2
  MaxLinkFaults = 2
  None = None
INVARIANTS SavedAsSent InOrder ReachableAsTold
PROPERTIES Arrives ServiceIsTold
CHECK_DEADLOCK FALSE
