\* Two sessions that follow each other or overlap, and three notifications.
SPECIFICATION FairSpec
CONSTANTS
  s1 = s1
  s2 = s2
  None = None
  Sessions = {s1, s2}
  MaxNotices = 3
INVARIANTS TypeOK SigChanNeverBlocks HandlerNeverBlocks JoinTookSignature AnswerIsSignature
INVARIANTS WaiterRegistered SignerSubscribed
PROPERTY KeySignReturns
CHECK_DEADLOCK FALSE
