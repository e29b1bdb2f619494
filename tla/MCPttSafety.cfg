SPECIFICATION FairSpec
CONSTANTS
  Timeout = 2
  ClockMod = 7
  MaxTick = 2
  MaxFrames = 2
  WdMax = 1
INVARIANTS TypeOK PttOnlyDuringTx FiresInTime
PROPERTY HungReleases
