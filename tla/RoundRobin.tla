----------------------------- MODULE RoundRobin -----------------------------
(***************************************************************************)
(* `pick` of the round-robin balancer (balancing/round_robin.rs), and of   *)
(* the consistent-hash balancer when the strategy returned no affinity key *)
(* (balancing/consistent_hash.rs), which runs the same code: its mask for  *)
(* a power of two is the remainder too.  One atomic counter serves every   *)
(* route of every service that uses the policy object.                     *)
(***************************************************************************)
EXTENDS Integers, FiniteSets, Sequences, FiniteSetsExt

CONSTANTS
  Slots,        \* concurrent calls of pick
  Services,     \* services whose routes share this policy object
  Candidates,   \* [Services -> Seq(Nat)], the candidate list of each service
  W             \* usize holds 0 .. W - 1

ASSUME RotationAssumption ==
  /\ IsFiniteSet(Slots)
  /\ Services # {}
  /\ Candidates \in [Services -> Seq(Nat)]
  /\ W \in Nat /\ W > 1

VARIABLES
  next,      \* the AtomicUsize
  stage,     \* where each call is
  service,   \* service of the call's route
  taken,     \* what the call's fetch_add returned
  served     \* [service -> [index -> Nat]], picks returned so far, less those
             \* of the least served index of the service

vars == <<next, stage, service, taken, served>>

Indices(s) == {Candidates[s][k] : k \in DOMAIN Candidates[s]}

(* candidate_index(n % len) *)
Turn(s, n) == Candidates[s][(n % Len(Candidates[s])) + 1]

Level(count) ==
  LET least == Min({count[i] : i \in DOMAIN count})
  IN  [i \in DOMAIN count |-> count[i] - least]

-----------------------------------------------------------------------------

(* The load and the store of a counter that is not atomic. *)
FetchAddTorn(r, s) ==
  /\ Candidates[s] # <<>>
  /\ stage[r] = "idle"
  /\ stage' = [stage EXCEPT ![r] = "taken"]
  /\ service' = [service EXCEPT ![r] = s]
  /\ taken' = [taken EXCEPT ![r] = next]
  /\ \/ next' = (next + 1) % W
     \/ UNCHANGED next
  /\ UNCHANGED served

(* fetch_add(1); with no candidates pick returns None before it. *)
FetchAdd(r, s) ==
  /\ Candidates[s] # <<>>
  /\ stage[r] = "idle"
  /\ stage' = [stage EXCEPT ![r] = "taken"]
  /\ service' = [service EXCEPT ![r] = s]
  /\ taken' = [taken EXCEPT ![r] = next]
  /\ next' = (next + 1) % W
  /\ UNCHANGED served

ReturnPick(r) ==
  LET s == service[r]
      i == Turn(s, taken[r])
  IN  /\ stage[r] = "taken"
      /\ stage' = [stage EXCEPT ![r] = "idle"]
      /\ taken' = [taken EXCEPT ![r] = 0]
      /\ served' = [served EXCEPT ![s] = Level([@ EXCEPT ![i] = served[s][i] + 1])]
      /\ UNCHANGED <<next, service>>

-----------------------------------------------------------------------------

Init ==
  /\ next = 0
  /\ stage = [r \in Slots |-> "idle"]
  /\ service = [r \in Slots |-> CHOOSE s \in Services : TRUE]
  /\ taken = [r \in Slots |-> 0]
  /\ served = [s \in Services |-> [i \in Indices(s) |-> 0]]

Next ==
  \E r \in Slots :
    \/ \E s \in Services : FetchAdd(r, s)
    \/ ReturnPick(r)

Spec == Init /\ [][Next]_vars

-----------------------------------------------------------------------------

(* Calls that have taken a turn of index i and not returned it yet. *)
InHand(s, i) ==
  Cardinality({r \in Slots :
                 stage[r] = "taken" /\ service[r] = s /\ Turn(s, taken[r]) = i})

(***************************************************************************)
(* The candidates of a service get the same number of turns, give or take  *)
(* one, however the calls overlap and in whatever order they return.       *)
(***************************************************************************)
TurnsAreEven ==
  \A s \in Services : \A i, j \in Indices(s) :
    served[s][i] + InHand(s, i) <= served[s][j] + InHand(s, j) + 1

=============================================================================
