SPECIFICATION Spec
CONSTANTS
  Values = {a}
  Null = Null
  Placeholder = T0
  Garbage = Garbage
  Writers = {w1, w2}
  Readers = {r1, r2}
  Closers = {c1, c2}
  NoThread = NoThread
  None = None
  ChunkCapacity = 4
  WordBits = 2
  MaxRows = 5
  MayThrow = TRUE
INVARIANTS
  FrozenIsWhole
PROPERTIES
  ImplementsAtomicDelta
SYMMETRY ThreadSymmetry
