------------------------------ MODULE LeastTime ------------------------------
(***************************************************************************)
(* The least-time balancer (balancing/least_time.rs) as the dispatcher     *)
(* drives it.  The cells of the scan are its averages.  on_start is the    *)
(* trait's empty default; on_result of a success folds the latency into    *)
(* the backend's average with a load and a loop of weak compare-exchanges, *)
(* each an atomic step that races with those of other handlers.            *)
(***************************************************************************)
EXTENDS LeastScan, Ewma

CONSTANTS
  Samples,      \* head latencies that may be measured
  MaxSpurious   \* bound on compare-exchanges that fail without a reason

(* A latency is below u64::MAX microseconds, some 580 000 years. *)
ASSUME SamplesAssumption ==
  /\ Samples \subseteq 0 .. W - 2
  /\ MaxSpurious \in Nat

VARIABLES
  sample,    \* local `sample` of on_result
  old,       \* local `old` of on_result
  spurious   \* compare-exchanges that failed without a reason so far (bounded)

results == <<sample, old, spurious>>
vars    == <<scanVars, results>>

-----------------------------------------------------------------------------

OnStart(r) ==
  /\ InPool(r)
  /\ Goto(r, "picked", "started")
  /\ UNCHANGED <<shared, locals, results>>

(* on_result of an error returns at once, on_result for an index the board *)
(* does not have falls through, and a handler dropped at its await never   *)
(* calls it: the board hears of none of them.                              *)
NoSample(r) ==
  /\ Leave(r, "started")
  /\ UNCHANGED <<shared, results>>

(* The upstream answered after x microseconds; the average is loaded. *)
LoadAverage(r, x) ==
  /\ best[r] \in 0 .. size - 1
  /\ Goto(r, "started", "swapping")
  /\ sample' = [sample EXCEPT ![r] = x]
  /\ old' = [old EXCEPT ![r] = cells[best[r]]]
  /\ UNCHANGED <<shared, locals, spurious>>

Return(r) ==
  /\ Leave(r, "swapping")
  /\ sample' = [sample EXCEPT ![r] = 0]
  /\ old' = [old EXCEPT ![r] = 0]

SwapStores(r) ==
  /\ Return(r)
  /\ cells' = [cells EXCEPT ![best[r]] = Ewma(old[r], sample[r])]
  /\ UNCHANGED <<size, offset, spurious>>

(* compare_exchange_weak finds `old` and succeeds ... *)
Swap(r) ==
  /\ Return(r)
  /\ cells[best[r]] = old[r]
  /\ cells' = [cells EXCEPT ![best[r]] = Ewma(old[r], sample[r])]
  /\ UNCHANGED <<size, offset, spurious>>

(* ... finds something else, or fails as a weak one may; `old = actual`. *)
SwapFails(r) ==
  /\ stage[r] = "swapping"
  /\ \/ /\ cells[best[r]] # old[r]
        /\ UNCHANGED spurious
     \/ /\ cells[best[r]] = old[r]
        /\ spurious < MaxSpurious
        /\ spurious' = spurious + 1
  /\ old' = [old EXCEPT ![r] = cells[best[r]]]
  /\ UNCHANGED <<scanVars, sample>>

-----------------------------------------------------------------------------

Init ==
  /\ ScanInit
  /\ sample = [r \in Slots |-> 0]
  /\ old = [r \in Slots |-> 0]
  /\ spurious = 0

(* The loop of on_result. *)
TrySwap(r) == Swap(r) \/ SwapFails(r)

Next ==
  \E r \in Slots :
    \/ Select(r) /\ UNCHANGED results
    \/ OnStart(r)
    \/ NoSample(r)
    \/ \E x \in Samples : LoadAverage(r, x)
    \/ TrySwap(r)

Spec == Init /\ [][Next]_vars

(* on_result does not await: a thread that has entered it runs on.  Nothing *)
(* is assumed of upstreams, nor of who wins a race for an average.          *)
FairSpec == Spec /\ \A r \in Slots : WF_vars(TrySwap(r))

-----------------------------------------------------------------------------

(* Types of the variables. *)
TypeOK ==
  /\ ScanTypes
  /\ sample \in [Slots -> Samples \union {0}]
  /\ old \in [Slots -> Word]
  /\ spurious \in 0 .. MaxSpurious

(***************************************************************************)
(* An average only ever moves towards the sample being recorded, without   *)
(* passing it, and the first one is the sample itself: no race of          *)
(* on_results and no rounding takes it out of what was measured.           *)
(***************************************************************************)
TowardsASample ==
  [][\A i \in DOMAIN cells :
       cells'[i] # cells[i] =>
         \E r \in Slots :
           /\ stage[r] = "swapping" /\ best[r] = i
           /\ IF cells[i] = 0 THEN cells'[i] = sample[r]
                              ELSE Between(cells[i], cells'[i], sample[r])]_vars

(***************************************************************************)
(* 0 means "not observed yet" and wins every scan.  A backend that has an  *)
(* average does not go back to it, however small the samples, so an        *)
(* observed backend is never again preferred for being unknown.            *)
(***************************************************************************)
StaysObserved ==
  [][\A i \in DOMAIN cells : cells[i] # 0 => cells'[i] # 0]_vars

-----------------------------------------------------------------------------
(* The board implements Averages: a sample is recorded by the successful   *)
(* compare-exchange, and waits from the load to that point.                *)

Waiting(r) ==
  IF stage[r] = "swapping"
    THEN [index |-> best[r], sample |-> sample[r]]
    ELSE [index |-> None, sample |-> 0]

Board == INSTANCE Averages
           WITH Sizes   <- {PoolLen[s] : s \in Services},
                latency <- cells,
                pending <- [r \in Slots |-> Waiting(r)]

(***************************************************************************)
(* Every sample measured is folded into the average once, from the average *)
(* as it is at that moment (no update is lost), and while handlers spin on *)
(* their compare-exchange, some of them get through.                       *)
(***************************************************************************)
ImplementsAverages == Board!Spec

=============================================================================
