\* Two workers, one key generation block that may be delivered twice, one restart.
SPECIFICATION FairSpec
CONSTANTS
  Workers = {"w1", "w2"}
  Tasks = {"t1", "t2"}
  KeygenBlocks = {1}
  MaxHeight = 2
  MaxPerRequest = 2
  MaxRestarts = 1
  MaxRefused = 1
  None = None
INVARIANTS PassedIsDelivered RegisterInOnePlace RespNeverBlocks NoBadSequence
PROPERTY HandOverEnds
CHECK_DEADLOCK FALSE
