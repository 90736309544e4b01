CONSTANTS
  a = a
  b = b
  r1 = r1
  r2 = r2
  r3 = r3
  Slots <- ThreeSlots
  Services <- OneService
  PoolLen <- Pool2
  CandidateSets <- WholePool
  W = 6
  MaxDisconnects = 0

SPECIFICATION HSpec
SYMMETRY Symmetric
INVARIANTS
  NeverClearlyBusier
