\* The leader calls twice; nobody crashes.
SPECIFICATION Spec
CONSTANTS
  Peers <- P2
  Calls <- CallsRetry
  Caller <- CallerRetry
  Heights <- HeightOne
  Hash <- HashOne2P
  Threshold = 1
  Signing = {}
  CrashPeers = {}
  MaxInFlight = 1
  None = None
INVARIANT MemberPartyFormed
CHECK_DEADLOCK FALSE
