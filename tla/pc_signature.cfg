\* A signature that arrives while the member waits for its leader.
SPECIFICATION Spec
CONSTANTS
  Peers <- P2
  Calls <- CallsOnce2P
  Caller <- CallerOnce2P
  Heights <- HeightOne
  Hash <- HashOne2P
  Threshold = 1
  Signing = {"a1", "b1"}
  CrashPeers = {}
  MaxInFlight = 1
  None = None
INVARIANT SignatureEndsJoin
CHECK_DEADLOCK FALSE
