CONSTANTS
  c1 = c1
  c2 = c2
  Conns = {c1, c2}
  NoPath = NoPath
  Scheme <- MCExampleScheme
  Shapes <- MCAllShapes
  HttpMaxBody = 1
  MaxBatch = 2
  Timeout = 1
  IdSpace = 3
  MaxRequests = 2
SPECIFICATION Spec
INVARIANTS
  ConfiguredRoutesServe
