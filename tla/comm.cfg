\* Two sessions, two topics, two streams of peers and one broadcast.
SPECIFICATION FairSpec
CONSTANTS
  s1 = s1
  s2 = s2
  t1 = t1
  t2 = t2
  i1 = i1
  i2 = i2
  o1 = o1
  b1 = b1
  None = None
  Sessions = {s1, s2}
  Topics = {t1, t2}
  Inbound = {i1, i2}
  Outbound = {o1}
  BroadcastCap = 1
  Bootstrap = {b1}
  MaxTries = 2
INVARIANTS TypeOK SubscribedWhileRunning NoStreamForgotten StoppedIsQuiet
PROPERTIES HandlerProgress StartAndStopEnd
CHECK_DEADLOCK FALSE
