SPECIFICATION Spec
CONSTANTS
  Timeout = 1
  ClockMod = 6
  MaxTick = 2
  MaxFrames = 1
  WdMax = 1
INVARIANT OneTransmitter
