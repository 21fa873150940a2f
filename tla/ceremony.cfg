\* Two nodes, one of which may crash.
SPECIFICATION FairSpec
CONSTANTS
  Nodes = {"a", "b"}
  Batch <- TwoKinds
  CrashNodes = {"a"}
  None = None
INVARIANTS NewFoundNeverBlocks JoinOutcome EarlyShareKept
INVARIANTS TaskDoneSound SuccessIsSaved
PROPERTY CallReturns
CHECK_DEADLOCK FALSE
