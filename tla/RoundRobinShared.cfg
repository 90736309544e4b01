CONSTANTS
  a = a
  b = b
  r1 = r1
  r2 = r2
  r3 = r3
  Slots <- ThreeSlots
  Services <- TwoServices
  Candidates <- TwoPools
  W = 6

SPECIFICATION Spec
SYMMETRY Symmetric
INVARIANT TurnsAreEven
