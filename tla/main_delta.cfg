SPECIFICATION Spec
CONSTANTS
  a = a
  b = b
  nz = nz
  pz = pz
  nan = nan
  inf = inf
  Values <- DoubleValues
  NegZero = nz
  PosZero = pz
  Unsupported = {nan, inf}
  Null = Null
  Rank <- DoubleRank
  NoId = NoId
  Thrown = Thrown
  MaxId = 7
  Placeholder = pz
  WordBits = 2
  MaxRows = 3
  MaxMainRows = 3
INVARIANTS
  DeltaIsWhatWasAppended
  PointReadsMatch
  QueriesMatch
CHECK_DEADLOCK FALSE
