---------------------------- MODULE MCLeastTime ----------------------------
(* Instances of LeastTime for TLC. *)
EXTENDS LeastTime, TLC

CONSTANTS a, b, r1, r2, r3

(* Two services share one policy object; the board may be too short. *)
TwoServices == {a, b}
SharedPools == (a :> 1) @@ (b :> 2)
CustomSets  == [s \in Services |-> {<<>>, All(PoolLen[s]), <<PoolLen[s]>>}]

(* One service with one backend that everyone measures. *)
OneService == {a}
OneBackend == [s \in {a} |-> 1]
WholePool  == [s \in Services |-> {All(PoolLen[s])}]

TwoSlots   == {r1, r2}
ThreeSlots == {r1, r2, r3}
Symmetric  == Permutations(Slots)

=============================================================================
