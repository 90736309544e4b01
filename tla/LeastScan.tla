----------------------------- MODULE LeastScan -----------------------------
(***************************************************************************)
(* `pick` of the two balancers that look for a smallest value: the         *)
(* least-request and the least-time balancer run the same code over an     *)
(* array of atomics (in-flight counters, latency averages) that all        *)
(* handlers share.  `pick` takes no lock: it is a sequence of atomic       *)
(* operations, one action each, and the calls of other handlers interleave *)
(* with it.  The modules that extend this one say what the cells hold and  *)
(* what on_start and on_result do to them.                                 *)
(*                                                                         *)
(* A slot is one handler invocation at a time; it is reused for the next   *)
(* request once the handler has returned or has been dropped.              *)
(***************************************************************************)
EXTENDS Integers, FiniteSets, Sequences

CONSTANTS
  Slots,           \* concurrent handler invocations
  Services,        \* services whose routes share this policy object
  PoolLen,         \* [Services -> Nat], backends in the pool of a service
  CandidateSets,   \* [Services -> set of candidate lists a strategy may return]
  W                \* usize and u64 hold 0 .. W - 1

Word == 0 .. W - 1

ASSUME ScanAssumption ==
  /\ W \in Nat /\ W > 1
  /\ Services # {}
  /\ PoolLen \in [Services -> Nat]
  /\ DOMAIN CandidateSets = Services
  /\ \A s \in Services : CandidateSets[s] \subseteq Seq(Nat)

VARIABLES
  size,         \* length of the OnceLock's boxed slice, Unset before get_or_init
  cells,        \* the slice of atomics
  offset,       \* rotating start of the scan, AtomicUsize
  stage,        \* where each handler is
  service,      \* service of the handler's route
  candidates,   \* BalanceCtx::candidates, All being <<0, 1, ...>>
  first,        \* local `offset` of `pick`
  step,         \* local `i` of `pick`
  best,         \* local `best_index`
  bestValue     \* local `best_count`, `best_latency`

shared == <<size, cells, offset>>
locals == <<service, candidates, first, step, best, bestValue>>
scanVars == <<shared, stage, locals>>

Unset == -1
None  == -1
Indices == UNION {0 .. PoolLen[s] - 1 : s \in Services}

(* Up to "picked" a handler is inside select_backend; the rest is up to the *)
(* balancer: an upstream call, then a swap being tried.                     *)
ScanStages == {"idle", "arrived", "ready", "scan", "picked"}
Stages     == ScanStages \union {"started", "swapping"}

(* fetch_add(1) and fetch_sub(1) wrap around at the width of a usize. *)
Plus1Unbounded(x) == x + 1
Plus1(x)  == IF x = W - 1 THEN 0 ELSE x + 1
Minus1(x) == IF x = 0 THEN W - 1 ELSE x - 1

(* CandidateSet::All of a pool of n backends, as the list candidate_index walks. *)
All(n) == [k \in 1 .. n |-> k - 1]

-----------------------------------------------------------------------------

(* A named operator just before an action or operator is the same thing     *)
(* with a plausible bug in it; the mutation runs put it in its place.       *)

(* slice.get(idx).map(load).unwrap_or(0) *)
ValueMissingAsMax(idx) == IF idx \in 0 .. size - 1 THEN cells[idx] ELSE W - 1
Value(idx) == IF idx \in 0 .. size - 1 THEN cells[idx] ELSE 0

(* candidate_index((offset + i) % len), `+` wrapping as in a release build *)
Candidate(r) ==
  candidates[r][(((first[r] + step[r]) % W) % Len(candidates[r])) + 1]

InPool(r) == best[r] \in 0 .. PoolLen[service[r]] - 1

Goto(r, from, to) ==
  /\ stage[r] = from
  /\ stage' = [stage EXCEPT ![r] = to]

(* The handler returns: its locals are gone. *)
Leave(r, from) ==
  /\ Goto(r, from, "idle")
  /\ candidates' = [candidates EXCEPT ![r] = <<>>]
  /\ first' = [first EXCEPT ![r] = 0]
  /\ step' = [step EXCEPT ![r] = 0]
  /\ best' = [best EXCEPT ![r] = None]
  /\ bestValue' = [bestValue EXCEPT ![r] = W - 1]
  /\ UNCHANGED service

(* The router has answered: dispatch builds the BalanceCtx and calls pick. *)
Arrive(r, s, c) ==
  /\ Goto(r, "idle", "arrived")
  /\ service' = [service EXCEPT ![r] = s]
  /\ candidates' = [candidates EXCEPT ![r] = c]
  /\ UNCHANGED <<shared, first, step, best, bestValue>>

(* No candidates: pick returns None before it touches the shared state. *)
PickNone(r) ==
  /\ candidates[r] = <<>>
  /\ Leave(r, "arrived")
  /\ UNCHANGED shared

(* The cells are allocated once, for the pool of the first caller. *)
GetOrInit(r) ==
  /\ candidates[r] # <<>>
  /\ Goto(r, "arrived", "ready")
  /\ IF size = Unset
       THEN /\ size' = PoolLen[service[r]]
            /\ cells' = [i \in 0 .. PoolLen[service[r]] - 1 |-> 0]
       ELSE UNCHANGED <<size, cells>>
  /\ UNCHANGED <<offset, locals>>

TakeOffset(r) ==
  /\ Goto(r, "ready", "scan")
  /\ first' = [first EXCEPT ![r] = offset]
  /\ offset' = Plus1(offset)
  /\ step' = [step EXCEPT ![r] = 0]
  /\ best' = [best EXCEPT ![r] = None]
  /\ bestValue' = [bestValue EXCEPT ![r] = W - 1]
  /\ UNCHANGED <<size, cells, service, candidates>>

LoadCellStopsEarly(r) ==
  LET idx    == Candidate(r)
      better == Value(idx) < bestValue[r]
  IN  /\ Goto(r, "scan",
              IF step[r] + 2 >= Len(candidates[r]) THEN "picked" ELSE "scan")
      /\ step' = [step EXCEPT ![r] = @ + 1]
      /\ best' = [best EXCEPT ![r] = IF better THEN idx ELSE @]
      /\ bestValue' = [bestValue EXCEPT ![r] = IF better THEN Value(idx) ELSE @]
      /\ UNCHANGED <<shared, service, candidates, first>>

(* One turn of the scan: one atomic load, kept when strictly smaller. *)
LoadCell(r) ==
  LET idx    == Candidate(r)
      better == Value(idx) < bestValue[r]
  IN  /\ Goto(r, "scan",
              IF step[r] + 1 = Len(candidates[r]) THEN "picked" ELSE "scan")
      /\ step' = [step EXCEPT ![r] = @ + 1]
      /\ best' = [best EXCEPT ![r] = IF better THEN idx ELSE @]
      /\ bestValue' = [bestValue EXCEPT ![r] = IF better THEN Value(idx) ELSE @]
      /\ UNCHANGED <<shared, service, candidates, first>>

(* select_backend: None, or an index outside the pool, ends in an error. *)
Reject(r) ==
  /\ ~ InPool(r)
  /\ Leave(r, "picked")
  /\ UNCHANGED shared

-----------------------------------------------------------------------------

ScanInit ==
  /\ size = Unset
  /\ cells = [i \in {} |-> 0]
  /\ offset = 0
  /\ stage = [r \in Slots |-> "idle"]
  /\ service = [r \in Slots |-> CHOOSE s \in Services : TRUE]
  /\ candidates = [r \in Slots |-> <<>>]
  /\ first = [r \in Slots |-> 0]
  /\ step = [r \in Slots |-> 0]
  /\ best = [r \in Slots |-> None]
  /\ bestValue = [r \in Slots |-> W - 1]

Pick(r) == PickNone(r) \/ GetOrInit(r) \/ TakeOffset(r) \/ LoadCell(r)

(* select_backend, from the router's answer to the lookup in the pool *)
Select(r) ==
  \/ \E s \in Services : \E c \in CandidateSets[s] : Arrive(r, s, c)
  \/ Pick(r)
  \/ Reject(r)

-----------------------------------------------------------------------------

ScanTypes ==
  /\ size \in {Unset} \union {PoolLen[s] : s \in Services}
  /\ cells \in [0 .. size - 1 -> Word]
  /\ offset \in Word
  /\ stage \in [Slots -> Stages]
  /\ service \in [Slots -> Services]
  /\ candidates \in [Slots -> Seq(Nat)]
  /\ first \in [Slots -> Word]
  /\ step \in [Slots -> Nat]
  /\ best \in [Slots -> Nat \union {None}]
  /\ bestValue \in [Slots -> Word]

Chosen(r) == \E k \in 1 .. Len(candidates[r]) : best[r] = candidates[r][k]

(***************************************************************************)
(* Whatever the interleaving and wherever the scan starts, a call of pick  *)
(* that was given candidates returns one of them; it never ends with None. *)
(* It would if a cell could reach the value the scan starts from.          *)
(***************************************************************************)
PicksACandidate ==
  \A r \in Slots : stage[r] \notin {"idle", "arrived", "ready", "scan"} => Chosen(r)

=============================================================================
