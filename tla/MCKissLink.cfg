SPECIFICATION KissSpec
CONSTANTS
  Contents <- MCContents
  Written <- MCWritten
  kKissMaxFrame = 5
  kChunkPayload = 5
  IdMod = 2
  MaxPending = 1
  MaxFrames = 3
  MaxAir = 1
INVARIANTS FrameExact MixedOnlyAfterWrap SuccessMeansReceived KissTxExact
