SPECIFICATION Spec
CONSTANTS
  a = a
  nz = nz
  pz = pz
  nan = nan
  NegZero = nz
  PosZero = pz
  Null = Null
  NoDelta = NoDelta
  None = None
  NoThread = NoThread
  Values <- IntValues
  Unsupported = {}
  Writers = {w1, w2}
  Readers = {r1}
  Mergers = {m1, m2}
  Observers = {}
  Initial <- EmptyInitial
  MaxRows = 2
  MaxMerges = 2
  MayThrow = FALSE
INVARIANTS
  TypeOK
  PublishReplacesItsHandoff
  AppendFindsOpenDelta
  RetiredBounded
PROPERTIES
  ImplementsAppendLog
  DeltasAreAtomic
SYMMETRY ThreadSymmetry
