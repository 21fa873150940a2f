\* The leader retries, and crashes at any point; every call returns.
SPECIFICATION FairSpec
CONSTANTS
  Peers <- P2
  Calls <- CallsRetry
  Caller <- CallerRetry
  Heights <- HeightOne
  Hash <- HashOne2P
  Threshold = 1
  Signing = {}
  CrashPeers = {"a"}
  MaxInFlight = 1
  None = None
INVARIANTS MemberListAnnounced LeaderHandlersNeverBlock
PROPERTY JoinReturns
CHECK_DEADLOCK FALSE
