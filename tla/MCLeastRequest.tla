--------------------------- MODULE MCLeastRequest ---------------------------
(* Instances of LeastRequest for TLC. *)
EXTENDS LeastRequest, TLC

CONSTANTS a, b, r1, r2, r3

(* One service; the strategy returns the whole pool. *)
OneService  == {a}
Pool2       == [s \in {a} |-> 2]
WholePool   == [s \in Services |-> {All(PoolLen[s])}]

(* Two services of different size share one policy object. *)
TwoServices == {a, b}
SharedPools == (a :> 1) @@ (b :> 2)

(* A custom strategy: no candidate, a subset, a repeated index, an index *)
(* outside the pool.                                                     *)
CustomSets  == [s \in Services |->
                  {<<>>, All(PoolLen[s]), <<0, 0>>, <<PoolLen[s] - 1, PoolLen[s]>>}]

TwoSlots   == {r1, r2}
ThreeSlots == {r1, r2, r3}
Symmetric  == Permutations(Slots)

=============================================================================
