SPECIFICATION FairSpec
CONSTANTS
  Depth = 2
  IndexMod = 6
  Values = {a, b}
  Torn = Torn
  MaxPush = 8
INVARIANTS TypeOK NoSharedEntry RefusedOnlyWhenFull
PROPERTIES IsBoundedFifo AllDelivered
