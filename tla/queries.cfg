SPECIFICATION Spec
CONSTANTS
  a = a
  nz = nz
  pz = pz
  Values <- DoubleValues
  NegZero = nz
  PosZero = pz
  Unsupported = {}
  Null = Null
  Rank <- DoubleRank
  NoId = NoId
  Thrown = Thrown
  MaxId = 7
  NoDelta = NoDelta
  None = None
  NoThread = NoThread
  Writers = {w1}
  Readers = {r1}
  Mergers = {m1}
  Observers = {}
  Initial <- ZeroRowInitial
  MaxRows = 3
  MaxMerges = 2
  MayThrow = FALSE
INVARIANTS
  BuiltMainDecodes
  ViewQueriesMatch
  ViewAnswersGrow
