SPECIFICATION ConfigSpec
CONSTANTS
  Letters = {"A", "ssid", "text", "n", "u", "0041"}
  BadLetters = {"/", "colon", "control"}
  Escapes = {"quoted", "slash", "linefeed", "number"}
  Kept <- MCKept
  Meant <- MCMeant
  Bare = {"-1", "15", "16", "3.7", "67", "null"}
  Leading <- MCLeading
  Integral = {"-1", "15", "16", "67"}
  IntMod = 64
  Objects <- MCObjects
  TxObjects <- MCTxObjects
  kMaxCallsign = 1
  kMaxText = 2
  kMaxJsonLen = 23
INVARIANTS IdentityIsLastWritten RequestIsWhatWasAsked StoredIsCurrent
