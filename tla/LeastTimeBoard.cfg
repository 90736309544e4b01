CONSTANTS
  a = a
  b = b
  r1 = r1
  r2 = r2
  r3 = r3
  Slots <- TwoSlots
  Services <- OneService
  PoolLen <- OneBackend
  CandidateSets <- WholePool
  W = 6
  Weight = 2
  Samples = {1, 4}
  MaxSpurious = 1

SPECIFICATION FairSpec

PROPERTY ImplementsAverages
