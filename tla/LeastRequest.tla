---------------------------- MODULE LeastRequest ----------------------------
(***************************************************************************)
(* The least-request balancer (balancing/least_request.rs) as the          *)
(* dispatcher drives it.  The cells of the scan are its in_flight counters: *)
(* on_start adds one, on_result takes one off, and a handler that is       *)
(* dropped in between takes nothing off.                                   *)
(***************************************************************************)
EXTENDS LeastScan

CONSTANT MaxDisconnects   \* bound on handler futures dropped while upstream

(***************************************************************************)
(* The number of handlers (with those that were dropped) fits in a usize:  *)
(* memory runs out long before.                                            *)
(***************************************************************************)
ASSUME SlotsAssumption ==
  /\ IsFiniteSet(Slots)
  /\ MaxDisconnects \in Nat
  /\ Cardinality(Slots) + MaxDisconnects + 1 < W

VARIABLES
  leaked,       \* per index, handlers dropped between on_start and on_result
  disconnects   \* number of handlers dropped so far (bounded)

losses == <<leaked, disconnects>>
vars   == <<scanVars, losses>>


-----------------------------------------------------------------------------

OnStart(r) ==
  /\ InPool(r)
  /\ Goto(r, "picked", "started")
  /\ cells' = [i \in DOMAIN cells |->
                    IF i = best[r] THEN Plus1(cells[i]) ELSE cells[i]]
  /\ UNCHANGED <<size, offset, locals, losses>>

OnResultOfSuccessOnly(r) ==
  /\ Leave(r, "started")
  /\ \/ UNCHANGED cells
     \/ cells' = [i \in DOMAIN cells |->
                       IF i = best[r] THEN Minus1(cells[i]) ELSE cells[i]]
  /\ UNCHANGED <<size, offset, losses>>

(* The upstream answered, failed or timed out. *)
OnResult(r) ==
  /\ Leave(r, "started")
  /\ cells' = [i \in DOMAIN cells |->
                    IF i = best[r] THEN Minus1(cells[i]) ELSE cells[i]]
  /\ UNCHANGED <<size, offset, losses>>

(* The client goes away: hyper drops the handler's future at its await on *)
(* the upstream call, and nothing after that await runs.                  *)
Disconnect(r) ==
  /\ disconnects < MaxDisconnects
  /\ Leave(r, "started")
  /\ disconnects' = disconnects + 1
  /\ leaked' = [leaked EXCEPT ![best[r]] = @ + 1]
  /\ UNCHANGED shared

-----------------------------------------------------------------------------

Init ==
  /\ ScanInit
  /\ leaked = [i \in Indices |-> 0]
  /\ disconnects = 0

Next ==
  \E r \in Slots :
    \/ Select(r) /\ UNCHANGED losses
    \/ OnStart(r)
    \/ OnResult(r)
    \/ Disconnect(r)

Spec == Init /\ [][Next]_vars

-----------------------------------------------------------------------------

(* Types of the variables. *)
TypeOK ==
  /\ ScanTypes
  /\ leaked \in [Indices -> Nat]
  /\ disconnects \in 0 .. MaxDisconnects

(* Handlers that have called on_start for index i and will call on_result. *)
Holders(i) == {r \in Slots : stage[r] = "started" /\ best[r] = i}

(***************************************************************************)
(* A counter is the number of handlers between on_start and on_result on   *)
(* that index, plus those that were dropped there: no call is counted      *)
(* twice or lost by the lock-free updates, and no fetch_sub goes below     *)
(* zero (which would make the backend look full for ever).                 *)
(***************************************************************************)
Accounting ==
  \A i \in DOMAIN cells : cells[i] = Cardinality(Holders(i)) + leaked[i]

=============================================================================
