SPECIFICATION FairSpec
CONSTANTS
  RingDepth = 2
  KissDepth = 1
  Capacity = 2
  MaxRetries = 2
  NimbleFails = TRUE
  MaxMsgs = 3
  MaxKiss = 2
INVARIANTS TypeOK FramesPerPass RequestsInOrder KissInOrder
PROPERTIES ResultIsLast AllDrained
