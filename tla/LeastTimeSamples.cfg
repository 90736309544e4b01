CONSTANTS
  a = a
  b = b
  r1 = r1
  r2 = r2
  r3 = r3
  Slots <- TwoSlots
  Services <- TwoServices
  PoolLen <- SharedPools
  CandidateSets <- CustomSets
  W = 5
  Weight = 2
  Samples = {0, 1, 3}
  MaxSpurious = 1

SPECIFICATION Spec
SYMMETRY Symmetric

INVARIANTS
  TypeOK
  PicksACandidate

PROPERTIES
  TowardsASample
  StaysObserved
