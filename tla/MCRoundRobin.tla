---------------------------- MODULE MCRoundRobin ----------------------------
(* Instances of RoundRobin for TLC. *)
EXTENDS RoundRobin, TLC

CONSTANTS a, b, r1, r2, r3

(* One service; the strategy returns three indices in an order of its own. *)
OneService == {a}
ThreeTurns == [s \in {a} |-> <<2, 0, 1>>]

(* Two services with two backends each, on the default policy. *)
TwoServices == {a, b}
TwoPools    == [s \in {a, b} |-> <<0, 1>>]

ThreeSlots == {r1, r2, r3}
Symmetric  == Permutations(Slots)

=============================================================================
