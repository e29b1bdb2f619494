SPECIFICATION Spec
CONSTANTS
  kStaleMs = 3
  kBackoff = 2
  ClockMod = 6
  MaxStep = 2
  DayLen = 2
  MaxTime = 2
INVARIANTS ValidIsFresh NeverAhead
