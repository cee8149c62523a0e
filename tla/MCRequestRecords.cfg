SPECIFICATION Spec
CONSTANTS
  Limits <- MCLimits
  MaxRequests = 6
  MaxRestarts = 2
INVARIANTS
  RingIsLatest
  FileKeepsRing
