SPECIFICATION AuditSpec
CONSTANTS
  a = a
  nz = nz
  pz = pz
  NegZero = nz
  PosZero = pz
  Null = Null
  NoDelta = NoDelta
  None = None
  NoThread = NoThread
  Values <- IntValues
  Unsupported = {}
  Writers = {w1}
  Readers = {r1}
  Mergers = {m1}
  Observers = {}
  Initial <- EmptyInitial
  MaxRows = 2
  MaxMerges = 1
  MayThrow = FALSE
INVARIANTS
  ViewIsOfOneOfItsLoads
