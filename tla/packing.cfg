SPECIFICATION Spec
CONSTANTS
  WordBits = 5
  IdBits = 3
  SizeMax = 13
  MaxCodes = 5
  Rejected = Rejected
INVARIANTS
  RoundTrip
  AccessesInBounds
CHECK_DEADLOCK FALSE
