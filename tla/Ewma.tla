-------------------------------- MODULE Ewma --------------------------------
(***************************************************************************)
(* The moving average of balancing/least_time.rs, in whole microseconds.   *)
(***************************************************************************)
EXTENDS Integers

CONSTANT Weight   \* EWMA_WEIGHT

ASSUME WeightAssumption == Weight \in Nat /\ Weight > 1

(* Two averages that would be easy to write by mistake. *)
EwmaOneDivision(old, x) ==
  IF old = 0 THEN x ELSE (old * (Weight - 1) + x) \div Weight

EwmaWithoutDecay(old, x) == IF old = 0 THEN x ELSE old + x \div Weight

(* No average yet: the sample itself.  The two divisions truncate apart.   *)
Ewma(old, x) ==
  IF old = 0 THEN x ELSE old - old \div Weight + x \div Weight

(* y lies between x and z, in either order. *)
Between(x, y, z) == (x <= y /\ y <= z) \/ (z <= y /\ y <= x)

=============================================================================
