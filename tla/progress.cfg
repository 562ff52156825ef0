SPECIFICATION FairSpec
CONSTANTS
  a = a
  nz = nz
  pz = pz
  nan = nan
  NegZero = nz
  PosZero = pz
  Null = Null
  NoDelta = NoDelta
  None = None
  NoThread = NoThread
  Values <- IntValues
  Unsupported = {}
  Writers = {w1}
  Readers = {}
  Mergers = {m1, m2}
  Observers = {o1}
  Initial <- EmptyInitial
  MaxRows = 1
  MaxMerges = 1
  MayThrow = TRUE
PROPERTIES
  AppendReturns
  SnapshotsReturn
  MergeReturns
  ClosedRowsReachMain
