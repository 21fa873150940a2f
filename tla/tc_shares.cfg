\* Four parties with losses or a hash of the owner's, five with different messages.
SPECIFICATION FairSpec
CONSTANTS
  p1 = p1
  p2 = p2
  p3 = p3
  p4 = p4
  m1 = m1
  m2 = m2
  m3 = m3
  None = None
  Owner = Owner
  Msgs = {m1, m2, m3}
  Broadcasts <- OneBacked
  Losable = {"share", "ver", "request", "reply"}
INVARIANTS TypeOK StoredIsApplied NoFalseBlame HandedIsBacked
PROPERTIES SameShareOnce AllUpdated
CHECK_DEADLOCK FALSE
