--------------------------- MODULE ConsistentHash ---------------------------
(***************************************************************************)
(* balancing/consistent_hash.rs: jump consistent hashing of an affinity    *)
(* key, and the turns of requests without one.  The code has Word = 2^64,  *)
(* Top = 2^31, so that key >> 33 is key \div (Word \div Top), and          *)
(* Multiplier = 2862933555777941757.                                       *)
(***************************************************************************)
EXTENDS Integers

CONSTANTS Word, Top, Multiplier

ASSUME HashAssumption ==
  /\ Word \in Nat \ {0} /\ Top \in Nat \ {0} /\ Multiplier \in Nat
  /\ Word % Top = 0

NewJump(key) == [key |-> key, b |-> -1, j |-> 0]

JumpingInclusive(s, buckets) == s.j <= buckets

Jumping(s, buckets) == s.j < buckets

(* One turn of the loop of jump_consistent_hash. *)
Mixed(key)  == (key * Multiplier + 1) % Word
HighBits(key) == key \div (Word \div Top)

JumpStepFromZero(s) ==     \* (b + 1) forgets its + 1
  LET key == Mixed(s.key)
  IN  [key |-> key, b |-> s.j, j |-> (s.j * Top) \div (HighBits(key) + 1)]

JumpStep(s) ==
  LET key == Mixed(s.key)
  IN  [key |-> key, b |-> s.j, j |-> ((s.j + 1) * Top) \div (HighBits(key) + 1)]
=============================================================================
