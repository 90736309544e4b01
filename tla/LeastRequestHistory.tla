------------------------- MODULE LeastRequestHistory -------------------------
(***************************************************************************)
(* What "the backend with the fewest in-flight requests" can mean when     *)
(* `pick` reads the counters one by one while other handlers start and     *)
(* finish.  Two history variables record, for every handler inside `pick`, *)
(* the lowest and the highest number of requests each backend of its       *)
(* service really had in flight since the scan began.                      *)
(***************************************************************************)
EXTENDS LeastRequest

VARIABLES
  floor,    \* [Slots -> [Indices -> Nat]], lowest load during the scan
  ceiling   \* [Slots -> [Indices -> Nat]], highest load during the scan

hvars == <<vars, floor, ceiling>>

(* Requests of service s that backend i is really serving. *)
Load(s, i) ==
  Cardinality({r \in Slots : stage[r] = "started" /\ service[r] = s /\ best[r] = i})

Lesser(a, b)  == IF a <= b THEN a ELSE b
Greater(a, b) == IF a <= b THEN b ELSE a

HInit ==
  /\ Init
  /\ floor   = [r \in Slots |-> [i \in Indices |-> 0]]
  /\ ceiling = [r \in Slots |-> [i \in Indices |-> 0]]

(* The window of a handler opens with its fetch_add on the offset, follows *)
(* the loads until the pick is over, and is forgotten after that.          *)
Tracked(r, load, old, extreme) ==
  IF stage'[r] \notin {"scan", "picked"} THEN 0
  ELSE CASE stage[r] = "ready"  -> load
         [] stage[r] = "scan"   -> extreme
         [] stage[r] = "picked" -> old

Watch ==
  /\ floor' = [r \in Slots |-> [i \in Indices |->
       LET load == Load(service[r], i)'
       IN  Tracked(r, load, floor[r][i], Lesser(floor[r][i], load))]]
  /\ ceiling' = [r \in Slots |-> [i \in Indices |->
       LET load == Load(service[r], i)'
       IN  Tracked(r, load, ceiling[r][i], Greater(ceiling[r][i], load))]]

HNext == Next /\ Watch

HSpec == HInit /\ [][HNext]_hvars

(***************************************************************************)
(* A pick never chooses a backend that had, at every moment of its scan,   *)
(* more requests of the service in flight than some other candidate had    *)
(* at any moment of it.  The loads race with on_start and on_result of     *)
(* other handlers, so the choice need not be minimal at any one instant;   *)
(* this is what is left of "fewest" under those races.                     *)
(***************************************************************************)
NeverClearlyBusier ==
  \A r \in Slots :
    stage[r] = "picked" /\ InPool(r) =>
      \A k \in 1 .. Len(candidates[r]) :
        candidates[r][k] \in 0 .. PoolLen[service[r]] - 1 =>
          floor[r][best[r]] <= ceiling[r][candidates[r][k]]

=============================================================================
