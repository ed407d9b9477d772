SPECIFICATION Spec
CONSTANTS
  a1 = a1
  a2 = a2
  b1 = b1
  c1 = c1
  c2 = c2
  k1 = k1
  k2 = k2
  Item = {a1, a2, b1}
  Origin <- TwoOrigins
  Mode = "full"
  Limit = 3
  Coord = {c1}
  Consumer = {k1, k2}
  Of <- BothOfFirst
  Token = {1, 2, 3, 4, 5, 6}
  Foreign = Foreign
  None = None
  MaxFailures = 2
  Rows <- NeverAnalysed
  MaxFaults = 0
  MaxEdits = 0
  MaxDeletes = 0
  MaxForeign = 0
INVARIANTS
  TypeOK
  OneRunningPerOrigin
PROPERTIES
  FuseHolds
SYMMETRY SwapConsumers
CHECK_DEADLOCK FALSE
