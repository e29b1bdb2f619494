SPECIFICATION FairSpec
CONSTANTS
  MaxQueue = 2
  MaxRetries = 2
  RetryInterval = 3
  ClockMod = 6
  MaxId = 3
  Clients = {c1}
  TxTime = 1
  MaxDelay = 1
  MaxMsgs = 3
  EarlierIds = {2}
INVARIANTS OneResult AttemptsMatchState AckedWasOnAir
PROPERTIES RetrySpacing AllSettled ImplementsLifecycle
