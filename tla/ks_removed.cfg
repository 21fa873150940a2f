\* Two sessions that overlap.
SPECIFICATION Spec
CONSTANTS
  s1 = s1
  s2 = s2
  None = None
  Sessions = {s1, s2}
  MaxNotices = 2
INVARIANT SignatureReachesWaiter
CHECK_DEADLOCK FALSE
