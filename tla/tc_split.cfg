\* Five parties and an owner that sends two messages, each to enough receivers.
SPECIFICATION FairSpec
CONSTANTS
  p1 = p1
  p2 = p2
  p3 = p3
  p4 = p4
  m1 = m1
  m2 = m2
  m3 = m3
  None = None
  Owner = Owner
  Msgs = {m1, m2, m3}
  Broadcasts <- TwoBacked
  Losable = {"share", "ver", "request", "reply"}
PROPERTY SameShareOnce
CHECK_DEADLOCK FALSE
