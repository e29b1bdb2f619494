SPECIFICATION Spec
CONSTANTS
  Slots = 1
  Timeout = 2
  ClockMod = 3
  IdMod = 2
  RingDepth = 1
  Writers = {w1, w2}
  MaxTotal = 3
  MaxMsgs = 2
SYMMETRY WriterSymmetry
INVARIANTS OneWholeMessage SuccessMeansDelivered
PROPERTY CompletedInTime
