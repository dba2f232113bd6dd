CONSTANTS
  c1 = c1
  c2 = c2
  Conns = {c1, c2}
  Paths = {"dot", "nope"}
  Routes = {"dot"}
  IdSpace = 3
  MaxRequests = 2
  MaxDown = 2
SPECIFICATION FairSpec
INVARIANTS
  TypeOK
  SubmittedAtMostOnce
  OpenHasStream
  StreamsLeftBehind
  InOrder
PROPERTIES
  KeepsContract
  NoWsRequestStays
  RefusedGetClosed
  LeftStreamsEnd
