CONSTANTS
  c1 = c1
  c2 = c2
  c3 = c3
  t1 = t1
  t2 = t2
  Tokens = {t1, t2}
  BadPath = BadPath
  NoToken = NoToken
  Conns = {c1, c2}
  MaxDetails = 2
SPECIFICATION FairSpec
PROPERTIES
  QueuedDetailsKept
