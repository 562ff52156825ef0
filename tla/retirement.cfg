SPECIFICATION Spec
CONSTANTS
  a = a
  nz = nz
  pz = pz
  nan = nan
  NegZero = nz
  PosZero = pz
  Null = Null
  NoDelta = NoDelta
  None = None
  NoThread = NoThread
  Values <- IntValues
  Unsupported = {}
  Writers = {w1}
  Readers = {r1}
  Mergers = {m1, m2}
  Observers = {o1}
  Initial <- EmptyInitial
  MaxRows = 1
  MaxMerges = 2
  MayThrow = TRUE
INVARIANTS
  HeldStatesTracked
  RetirementAccounted
  SnapshotLag
  SnapshotOldestNotNewer
SYMMETRY ThreadSymmetry
