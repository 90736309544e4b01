------------------------------ MODULE Averages ------------------------------
(***************************************************************************)
(* What the latency board of the least-time balancer promises, whatever    *)
(* its implementation does with loads and swaps: once a sample has been    *)
(* measured for a backend it is folded into that backend's average, in one *)
(* step and once, from the average as it is at that step.  As long as      *)
(* samples are waiting, samples keep landing (not each in bounded time:    *)
(* the promise is that of a lock-free object).                             *)
(***************************************************************************)
EXTENDS Ewma

CONSTANTS
  Slots,     \* who measures
  Sizes,     \* lengths the board may be given
  Samples    \* latencies, in microseconds

VARIABLES
  latency,   \* average per backend; 0 before the first sample
  pending    \* per slot, the sample to be recorded, or Nothing

avars == <<latency, pending>>

Nothing == [index |-> -1, sample |-> 0]

Init ==
  /\ latency = [i \in {} |-> 0]
  /\ pending = [r \in Slots |-> Nothing]

(* The board is laid out once, before the first sample. *)
Allocate(n) ==
  /\ latency = [i \in {} |-> 0]
  /\ latency' = [i \in 0 .. n - 1 |-> 0]
  /\ UNCHANGED pending

Measure(r, i, x) ==
  /\ pending[r] = Nothing
  /\ pending' = [pending EXCEPT ![r] = [index |-> i, sample |-> x]]
  /\ UNCHANGED latency

Record(r) ==
  /\ pending[r] # Nothing
  /\ latency' = [latency EXCEPT ![pending[r].index] = Ewma(@, pending[r].sample)]
  /\ pending' = [pending EXCEPT ![r] = Nothing]

Next ==
  \/ \E n \in Sizes : Allocate(n)
  \/ \E r \in Slots :
       \/ \E i \in DOMAIN latency, x \in Samples : Measure(r, i, x)
       \/ Record(r)

SafeSpec == Init /\ [][Next]_avars

Spec == SafeSpec /\ WF_avars(\E r \in Slots : Record(r))

=============================================================================
