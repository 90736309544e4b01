CONSTANTS
  a = a
  b = b
  r1 = r1
  r2 = r2
  r3 = r3
  Slots <- TwoSlots
  Services <- TwoServices
  PoolLen <- SharedPools
  CandidateSets <- CustomSets
  W = 5
  MaxDisconnects = 1

SPECIFICATION Spec
SYMMETRY Symmetric
INVARIANTS
  TypeOK
  Accounting
  PicksACandidate
