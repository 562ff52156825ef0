SPECIFICATION Spec
CONSTANTS
  a = a
  nz = nz
  pz = pz
  nan = nan
  NegZero = nz
  PosZero = pz
  Null = Null
  NoDelta = NoDelta
  None = None
  NoThread = NoThread
  Values <- NanValues
  Unsupported = {nan}
  Writers = {w1}
  Readers = {r1}
  Mergers = {m1, m2}
  Observers = {}
  Initial <- EmptyInitial
  MaxRows = 2
  MaxMerges = 2
  MayThrow = TRUE
INVARIANTS
  HandoffDropsNothing
  CountersMatchMain
  IInv
PROPERTIES
  ImplementsAppendLog
  FailedMergeEndsMerging
  RowsKept
SYMMETRY ThreadSymmetry
