SPECIFICATION StationSpec
CONSTANTS
  Characters <- MCCharacters
  kAddrCallsignMaxLen = 3
  kMaxAddresses = 3
  kMaxInfoLen = 18
  kAddresseeLen = 6
  kMaxAckIdLen = 2
  Callsigns <- MCCallsigns
  Ssids = {0, 1, 11}
  Dests <- MCDests
  Texts <- MCTexts
  Ids <- MCIds
  Heard <- MCHeard
INVARIANTS OnAirIsWhatWasAsked AckTakenIffOurs
