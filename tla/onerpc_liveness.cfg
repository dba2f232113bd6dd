CONSTANTS
  c1 = c1
  w1 = w1
  w2 = w2
  t1 = t1
  Conns = {c1}
  NoPath = NoPath
  Scheme <- MCScheme
  Shapes <- MCOneShape
  HttpMaxBody = 1
  MaxBatch = 1
  Timeout = 0
  IdSpace = 3
  MaxRequests = 2
  WsIds = {w1}
  Tokens = {t1}
  BadPath = BadPath
  NoToken = NoToken
  CommandLines <- MCCommandLines
  Dcap = FALSE
SPECIFICATION FairSpec
PROPERTIES
  ClientsServed
  TerminateEndsServe
