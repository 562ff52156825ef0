SPECIFICATION ColumnSpec
CONSTANTS
  a = a
  b = b
  c = c
  nz = nz
  pz = pz
  nan = nan
  Values <- DoubleValues
  NegZero = nz
  PosZero = pz
  Unsupported = {nan}
  Null = Null
  Rank <- DoubleRank
  NoId = NoId
  Thrown = Thrown
  MaxId = 3
  WordBits = 3
  IdBits = 2
  SizeMax = 255
  Rejected = Rejected
  MaxRows = 5
INVARIANTS
  PackedDecodesAlike
  PackedQueriesMatch
  RefusedForCause
CHECK_DEADLOCK FALSE
