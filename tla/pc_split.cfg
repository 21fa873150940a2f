\* Peers that disagree about the height, one call each.
SPECIFICATION Spec
CONSTANTS
  Peers <- P3
  Calls <- CallsOnce
  Caller <- CallerOnce
  Heights <- HeightTwo
  Hash <- HashTwo
  Threshold = 1
  Signing = {"c1"}
  CrashPeers = {}
  MaxInFlight = 1
  None = None
INVARIANTS TypeOK PartySound OneParty MemberPartyFormed
CHECK_DEADLOCK FALSE
