SPECIFICATION Spec
CONSTANTS
  Freqs = {"f1", "f2"}
  Squelches = {"s1", "s2"}
  Widths = {"wide"}
  Volumes = {"v8"}
  BootFreq = "f1"
  kDefaultSquelch = "s1"
  DefaultWidth = "wide"
  DefaultVolume = "v8"
  MaxLate = 1
INVARIANTS  SuccessMeansInForce
PROPERTY EveryCommandReturns
