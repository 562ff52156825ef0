SPECIFICATION Spec
CONSTANTS
  Values = {a}
  Null = Null
  Placeholder = T0
  Writers = {w1, w2}
  Readers = {r1}
  Closers = {c1}
  NoThread = NoThread
  None = None
  ChunkCapacity = 2
  WordBits = 2
  MaxRows = 4
  MaxFreezes = 2
  MayThrow = TRUE
INVARIANTS
  PrefixReadsWhole
  WritersInStep
  KnownRowsSeen
  FrozenIsNewest
SYMMETRY ThreadSymmetry
