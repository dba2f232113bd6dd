CONSTANTS
  c1 = c1
  c2 = c2
  Conns = {c1, c2}
  NoPath = NoPath
  Scheme <- MCOneScheme
  Shapes <- MCTwoShapes
  HttpMaxBody = 1
  MaxBatch = 2
  Timeout = 1
  IdSpace = 4
  MaxRequests = 3
SYMMETRY Symmetry
SPECIFICATION Spec
INVARIANTS
  TypeOK
  NoClientForgotten
  RepliesReachAsker
  SentAtMostOnce
  PendingUnanswered
PROPERTIES
  ClosedOnlyWhenSettled
