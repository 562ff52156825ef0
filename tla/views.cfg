SPECIFICATION Spec
CONSTANTS
  a = a
  nz = nz
  pz = pz
  nan = nan
  NegZero = nz
  PosZero = pz
  Null = Null
  NoDelta = NoDelta
  None = None
  NoThread = NoThread
  Values <- ZeroValues
  Unsupported = {}
  Writers = {w1}
  Readers = {r1, r2}
  Mergers = {m1}
  Observers = {}
  Initial <- OneRowInitial
  MaxRows = 3
  MaxMerges = 2
  MayThrow = FALSE
INVARIANTS
  AnswerNamesItsRow
  RowSpaceCovered
PROPERTIES
  ImplementsAppendLog
SYMMETRY ThreadSymmetry
