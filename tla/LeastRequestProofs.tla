------------------------- MODULE LeastRequestProofs -------------------------
(***************************************************************************)
(* The counters of the least-request balancer, for any number of handlers, *)
(* services, backends and candidate lists, and any width of usize:         *)
(* Accounting and PicksACandidate are invariants of Spec.                  *)
(*                                                                         *)
(* The inductive invariant adds to the one of the scan and to Accounting   *)
(* that nothing was lost before the counters existed (NoEarlyLoss) and     *)
(* that every dropped handler is a disconnect (LossesBounded).  The last   *)
(* bounds every counter away from usize::MAX, which is what the scan needs *)
(* to choose a candidate, and a choice is what on_result relies on to take *)
(* off only what was added: the two invariants hold together or not at all. *)
(*                                                                         *)
(* The second part is NeverClearlyBusier of LeastRequestHistory, for a     *)
(* policy object that one service uses, when no handler is dropped: for    *)
(* any candidate lists whose lengths divide the range of the offset (as a  *)
(* power of two does).  Its invariant says how far a scan has come: the    *)
(* best count so far is not above what any candidate looked at had at some *)
(* moment of the scan, and not below what the chosen one had.              *)
(***************************************************************************)
EXTENDS LeastRequestHistory, LeastScanProofs, FiniteSetTheorems, NumbersAndLists

NoEarlyLoss == size = Unset => \A i \in Indices : leaked[i] = 0

LossesBounded == \A i \in Indices : leaked[i] <= disconnects

IInv ==
  /\ ScanIInv
  /\ TypeOK
  /\ NoEarlyLoss
  /\ LossesBounded
  /\ Accounting

-----------------------------------------------------------------------------

(* Counting a new holder adds one. *)
LEMMA HolderAdded ==
  ASSUME NEW S, IsFiniteSet(S), NEW A \in SUBSET S, NEW r \in S, r \notin A
  PROVE  Cardinality(A \union {r}) = Cardinality(A) + 1
<1>1. IsFiniteSet(A)
  BY FS_Subset
<1>2. QED
  BY <1>1, FS_AddElement

(* Forgetting a holder removes one; there was at least one. *)
LEMMA HolderRemoved ==
  ASSUME NEW S, IsFiniteSet(S), NEW A \in SUBSET S, NEW r \in A
  PROVE  /\ Cardinality(A \ {r}) = Cardinality(A) - 1
         /\ Cardinality(A) \in Nat \ {0}
<1>1. IsFiniteSet(A)
  BY FS_Subset
<1>2. /\ Cardinality(A) \in Nat
      /\ Cardinality(A \ {r}) = Cardinality(A) - 1
      /\ Cardinality(A \ {r}) \in Nat
  BY <1>1, FS_RemoveElement, FS_CardinalityType, FS_Subset
<1>3. QED
  BY <1>2

(* There are no more holders than handlers. *)
LEMMA HoldersBounded ==
  ASSUME NEW i
  PROVE  /\ Cardinality(Holders(i)) \in Nat
         /\ Cardinality(Holders(i)) <= Cardinality(Slots)
         /\ Cardinality(Slots) \in Nat
<1>1. Holders(i) \in SUBSET Slots
  BY DEF Holders
<1>2. QED
  BY <1>1, SlotsAssumption, FS_Subset, FS_CardinalityType

(* No counter reaches usize::MAX. *)
LEMMA CountersBelowMax ==
  ASSUME IInv PROVE CellsBelowMax
<1> SUFFICES ASSUME NEW i \in DOMAIN cells PROVE cells[i] < W - 1
  BY DEF CellsBelowMax
<1>1. i \in Indices
  BY CellIndices DEF IInv, TypeOK
<1>2. /\ leaked[i] \in Nat /\ leaked[i] <= disconnects
      /\ disconnects \in Nat /\ disconnects <= MaxDisconnects
  BY <1>1, SlotsAssumption DEF IInv, TypeOK, LossesBounded
<1>3. cells[i] = Cardinality(Holders(i)) + leaked[i]
  BY DEF IInv, Accounting
<1>4. QED
  BY <1>2, <1>3, HoldersBounded, SlotsAssumption, ScanAssumption

-----------------------------------------------------------------------------

(* Before the first request nothing is counted and nothing is lost. *)
LEMMA InitIInv == Init => IInv
<1> SUFFICES ASSUME Init PROVE IInv
  OBVIOUS
<1>1. ScanIInv
  BY ScanInitIInv DEF Init
<1>2. DOMAIN cells = {}
  BY DEF Init, ScanInit
<1>3. QED
  BY <1>1, <1>2, SlotsAssumption DEF Init, IInv, ScanIInv, TypeOK, NoEarlyLoss, LossesBounded,
     Accounting

(* select_backend does not touch the counts, or allocates them as zeroes. *)
LEMMA SelectKeepsIInv ==
  ASSUME IInv, NEW r \in Slots, Select(r), UNCHANGED losses
  PROVE  IInv'
<1>1. ScanIInv'
  BY CountersBelowMax, SelectStep DEF IInv
<1>2. TypeOK'
  BY <1>1 DEF IInv, TypeOK, losses, ScanIInv
<1>3. /\ \A q \in Slots : /\ stage'[q] \in ScanStages <=> stage[q] \in ScanStages
                          /\ stage[q] \notin ScanStages =>
                               stage'[q] = stage[q] /\ best'[q] = best[q]
      /\ \/ UNCHANGED <<size, cells>>
         \/ size = Unset /\ cells' = [i \in 0 .. size' - 1 |-> 0]
  BY SelectFrame DEF IInv
<1>4. \A i : Holders(i)' = Holders(i)
  BY <1>3 DEF Holders, ScanStages
<1>5. NoEarlyLoss' /\ LossesBounded'
  BY <1>3 DEF IInv, NoEarlyLoss, LossesBounded, losses
<1>6. Accounting'
  <2>1. CASE UNCHANGED <<size, cells>>
    BY <1>4, <2>1 DEF IInv, Accounting, losses
  <2>2. CASE size = Unset /\ cells' = [i \in 0 .. size' - 1 |-> 0]
    <3>1. \A i : Holders(i) = {}
      BY <2>2 DEF IInv, ScanIInv, CellsExist, Holders
    <3>2. \A i \in DOMAIN cells' : i \in Indices
      BY <1>1, <2>2, PoolIndices DEF ScanIInv, ScanTypes
    <3>3. \A i \in DOMAIN cells' : cells'[i] = 0 /\ leaked'[i] = 0
      BY <2>2, <3>2 DEF IInv, NoEarlyLoss, losses
    <3>4. QED
      BY <1>4, <3>1, <3>3, FS_EmptySet DEF Accounting
  <2>3. QED
    BY <1>3, <2>1, <2>2
<1>7. QED
  BY <1>1, <1>2, <1>5, <1>6 DEF IInv

(* fetch_add: one holder more, one more on its counter. *)
LEMMA OnStartKeepsIInv ==
  ASSUME IInv, NEW r \in Slots, OnStart(r)
  PROVE  IInv'
<1>1. cells' \in [0 .. size - 1 -> Word]
  BY ScanAssumption DEF OnStart, IInv, TypeOK, ScanTypes, Plus1, Word
<1>2. ScanIInv'
  BY <1>1, AfterPickStep DEF OnStart, Goto, IInv, InSelect, Stages, ScanStages
<1>3. TypeOK' /\ NoEarlyLoss' /\ LossesBounded'
  BY <1>2 DEF OnStart, IInv, TypeOK, ScanIInv, NoEarlyLoss, LossesBounded, losses
<1>4. CellsBelowMax
  BY CountersBelowMax
<1>5. Accounting'
  <2> SUFFICES ASSUME NEW i \in DOMAIN cells
               PROVE  cells'[i] = Cardinality(Holders(i)') + leaked'[i]
    BY DEF Accounting, OnStart
  <2>1. leaked[i] \in Nat /\ leaked' = leaked
    BY CellIndices DEF IInv, TypeOK, OnStart, losses
  <2>2. cells[i] = Cardinality(Holders(i)) + leaked[i]
    BY DEF IInv, Accounting
  <2>3. CASE i = best[r]
    <3>1. Holders(i)' = Holders(i) \union {r} /\ r \notin Holders(i)
      BY <2>3 DEF Holders, IInv, TypeOK, ScanTypes, OnStart, Goto, locals
    <3>2. Cardinality(Holders(i)') = Cardinality(Holders(i)) + 1
      <4>1. Holders(i) \in SUBSET Slots
        BY DEF Holders
      <4>2. QED
        BY <3>1, <4>1, HolderAdded, SlotsAssumption
    <3>3. cells[i] # W - 1
      BY <1>4, ScanAssumption DEF CellsBelowMax, Word, IInv, TypeOK, ScanTypes
    <3>4. cells'[i] = cells[i] + 1
      BY <2>3, <3>3 DEF OnStart, Plus1
    <3>5. QED
      BY <2>1, <2>2, <3>2, <3>4, HoldersBounded
  <2>4. CASE i # best[r]
    <3>1. Holders(i)' = Holders(i)
      BY <2>4 DEF Holders, IInv, TypeOK, ScanTypes, OnStart, Goto, locals
    <3>2. QED
      BY <2>1, <2>2, <2>4, <3>1 DEF OnStart
  <2>5. QED
    BY <2>3, <2>4
<1>6. QED
  BY <1>2, <1>3, <1>5 DEF IInv

(* The holders when a holder returns or is dropped. *)
LEMMA HolderLeaves ==
  ASSUME IInv, NEW r \in Slots, Leave(r, "started"), NEW i
  PROVE  /\ i = best[r] =>
              /\ Cardinality(Holders(i)') = Cardinality(Holders(i)) - 1
              /\ Cardinality(Holders(i)) \in Nat \ {0}
         /\ i # best[r] => Holders(i)' = Holders(i)
<1> USE DEF IInv, TypeOK, ScanTypes, Leave, Goto, Holders
<1>1. CASE i = best[r]
  <2>1. Holders(i)' = Holders(i) \ {r} /\ r \in Holders(i)
    BY <1>1
  <2>2. QED
    BY <1>1, <2>1, HolderRemoved, SlotsAssumption
<1>2. CASE i # best[r]
  BY <1>2
<1>3. QED
  BY <1>1, <1>2

(* The handler that finishes is one of the holders: the counter is not zero. *)
LEMMA OnResultKeepsIInv ==
  ASSUME IInv, NEW r \in Slots, OnResult(r)
  PROVE  IInv'
<1>1. cells' \in [0 .. size - 1 -> Word]
  BY ScanAssumption DEF OnResult, IInv, TypeOK, ScanTypes, Minus1, Word
<1>2. ScanIInv'
  BY <1>1, LeaveStep DEF OnResult, Leave, Goto, IInv
<1>3. TypeOK' /\ NoEarlyLoss' /\ LossesBounded'
  BY <1>2 DEF OnResult, IInv, TypeOK, ScanIInv, NoEarlyLoss, LossesBounded, losses
<1>4. Accounting'
  <2> SUFFICES ASSUME NEW i \in DOMAIN cells
               PROVE  cells'[i] = Cardinality(Holders(i)') + leaked'[i]
    BY DEF Accounting, OnResult
  <2>1. leaked[i] \in Nat /\ leaked' = leaked
    BY CellIndices DEF IInv, TypeOK, OnResult, losses
  <2>2. cells[i] = Cardinality(Holders(i)) + leaked[i]
    BY DEF IInv, Accounting
  <2>3. CASE i = best[r]
    <3>1. /\ Cardinality(Holders(i)') = Cardinality(Holders(i)) - 1
          /\ Cardinality(Holders(i)) \in Nat \ {0}
      BY <2>3, HolderLeaves DEF OnResult
    <3>2. cells'[i] = cells[i] - 1
      BY <2>1, <2>2, <2>3, <3>1 DEF OnResult, Minus1
    <3>3. QED
      BY <2>1, <2>2, <3>1, <3>2
  <2>4. CASE i # best[r]
    BY <2>1, <2>2, <2>4, HolderLeaves DEF OnResult
  <2>5. QED
    BY <2>3, <2>4
<1>5. QED
  BY <1>2, <1>3, <1>4 DEF IInv

(* A dropped handler moves from the holders to the losses of its index. *)
LEMMA DisconnectKeepsIInv ==
  ASSUME IInv, NEW r \in Slots, Disconnect(r)
  PROVE  IInv'
<1>1. ScanIInv'
  BY LeaveStep DEF Disconnect, Leave, Goto, IInv, shared, TypeOK, ScanTypes
<1>2. best[r] \in Indices /\ size # Unset
  BY DEF Disconnect, Leave, Goto, IInv, ScanIInv, ScanTypes, HoldsPoolIndex, CellsExist, InPool,
     Indices, ScanStages
<1>3. leaked[best[r]] + 1 \in Nat /\ leaked \in [Indices -> Nat]
  BY <1>2 DEF IInv, TypeOK
<1>4. TypeOK'
  <2>1. leaked' \in [Indices -> Nat]
    BY <1>2, <1>3 DEF Disconnect
  <2>2. disconnects' \in 0 .. MaxDisconnects
    BY SlotsAssumption DEF Disconnect, IInv, TypeOK
  <2>3. QED
    BY <1>1, <2>1, <2>2 DEF TypeOK, ScanIInv
<1>5. NoEarlyLoss' /\ LossesBounded'
  BY <1>2, SlotsAssumption DEF Disconnect, IInv, TypeOK, NoEarlyLoss, LossesBounded, shared
<1>6. Accounting'
  <2> SUFFICES ASSUME NEW i \in DOMAIN cells
               PROVE  cells[i] = Cardinality(Holders(i)') + leaked'[i]
    BY DEF Accounting, Disconnect, shared
  <2>1. i \in Indices /\ leaked[i] \in Nat
    BY CellIndices DEF IInv, TypeOK
  <2>2. cells[i] = Cardinality(Holders(i)) + leaked[i]
    BY DEF IInv, Accounting
  <2>3. CASE i = best[r]
    <3>1. leaked'[i] = leaked[i] + 1
      BY <1>3, <2>1, <2>3 DEF Disconnect
    <3>2. QED
      BY <2>1, <2>2, <2>3, <3>1, HolderLeaves DEF Disconnect
  <2>4. CASE i # best[r]
    <3>1. leaked'[i] = leaked[i]
      BY <1>3, <2>1, <2>4 DEF Disconnect
    <3>2. QED
      BY <2>2, <2>4, <3>1, HolderLeaves DEF Disconnect
  <2>5. QED
    BY <2>3, <2>4
<1>7. QED
  BY <1>1, <1>4, <1>5, <1>6 DEF IInv

-----------------------------------------------------------------------------

(* A step of something else leaves all of it alone. *)
LEMMA StutterKeepsIInv == IInv /\ UNCHANGED vars => IInv'
<1> SUFFICES ASSUME IInv, UNCHANGED vars PROVE IInv'
  OBVIOUS
<1> USE DEF vars, scanVars, shared, locals, losses
<1>1. ScanTypes' /\ TypeOK'
  BY DEF IInv, TypeOK, ScanTypes
<1>2. CellsExist' /\ HoldsPoolIndex' /\ ScanLocals' /\ PicksACandidate'
  BY DEF IInv, ScanIInv, CellsExist, HoldsPoolIndex, InPool, ScanLocals, Chosen, PicksACandidate
<1>3. NoEarlyLoss' /\ LossesBounded'
  BY DEF IInv, NoEarlyLoss, LossesBounded
<1>4. Accounting'
  <2>1. \A i : Holders(i)' = Holders(i)
    BY DEF Holders
  <2>2. QED
    BY <2>1 DEF IInv, Accounting
<1>5. QED
  BY <1>1, <1>2, <1>3, <1>4 DEF IInv, ScanIInv

(* IInv is inductive, so it holds in every reachable state. *)
LEMMA Invariance == Spec => []IInv
<1>1. IInv /\ [Next]_vars => IInv'
  BY SelectKeepsIInv, OnStartKeepsIInv, OnResultKeepsIInv, DisconnectKeepsIInv,
     StutterKeepsIInv DEF Next
<1>2. QED
  BY <1>1, InitIInv, PTL DEF Spec

(* Every reachable state is well typed. *)
THEOREM TypeCorrect == Spec => []TypeOK
<1>1. IInv => TypeOK
  BY DEF IInv
<1>2. QED
  BY <1>1, Invariance, PTL

(* Every counter is the number of handlers between on_start and on_result  *)
(* on its index plus those dropped there: fetch_add and fetch_sub of any   *)
(* number of handlers lose no update and never go below zero.              *)
THEOREM CountersAreExact == Spec => []Accounting
<1>1. IInv => Accounting
  BY DEF IInv
<1>2. QED
  BY <1>1, Invariance, PTL

(* pick never answers None when the strategy returned candidates, and what *)
(* it answers is one of them.                                              *)
THEOREM PickIsACandidate == Spec => []PicksACandidate
<1>1. IInv => PicksACandidate
  BY DEF IInv, ScanIInv
<1>2. QED
  BY <1>1, Invariance, PTL

-----------------------------------------------------------------------------
(* LeastRequestHistory. *)

(* One service's policy; nothing is dropped, and no scan meets the wrap *)
(* of the offset out of step.                                           *)
Undisturbed(s) ==
  /\ Services = {s}
  /\ MaxDisconnects = 0
  /\ \A c \in CandidateSets[s] : c # <<>> => W % Len(c) = 0

InScan(r) == stage[r] \in {"scan", "picked"}

(* The turn of r's scan that looks at its k-th candidate. *)
TurnOf(r, k) ==
  LET n  == Len(candidates[r])
      p0 == first[r] % n
  IN  IF k - 1 >= p0 THEN k - 1 - p0 ELSE k - 1 - p0 + n

GivenCandidates(s) ==
  \A r \in Slots : stage[r] # "idle" => candidates[r] \in CandidateSets[s]

HTypes ==
  /\ floor \in [Slots -> [Indices -> Nat]]
  /\ ceiling \in [Slots -> [Indices -> Nat]]

(* While r scans, the window holds the loads of this moment. *)
WindowIsOpen(s, r) ==
  stage[r] = "scan" =>
    \A i \in Indices : floor[r][i] <= Load(s, i) /\ Load(s, i) <= ceiling[r][i]

(* The best count is not above the window of any candidate looked at. *)
BestIsLeast(r) ==
  InScan(r) =>
    /\ candidates[r] # <<>>
    /\ stage[r] = "picked" => step[r] = Len(candidates[r])
    /\ \A k \in 1 .. Len(candidates[r]) :
         TurnOf(r, k) < step[r] /\ candidates[r][k] \in Indices =>
           bestValue[r] <= ceiling[r][candidates[r][k]]

(* The best count is not below the window of the one it was read from. *)
BestIsReal(r) ==
  InScan(r) /\ best[r] \in Indices => floor[r][best[r]] <= bestValue[r]

HInv(s) ==
  /\ HTypes
  /\ GivenCandidates(s)
  /\ \A r \in Slots : WindowIsOpen(s, r) /\ BestIsLeast(r) /\ BestIsReal(r)

-----------------------------------------------------------------------------
(* The scan's positions. *)

(* The candidate a scan looks at next is the one whose turn it is, and the *)
(* turns of a list of n are 0 .. n - 1.                                    *)
LEMMA TurnsCoverTheList ==
  ASSUME NEW s, Undisturbed(s), IInv, GivenCandidates(s), NEW r \in Slots, InScan(r),
         candidates[r] # <<>>
  PROVE  /\ Len(candidates[r]) \in Nat \ {0}
         /\ \A k \in 1 .. Len(candidates[r]) : TurnOf(r, k) \in 0 .. Len(candidates[r]) - 1
         /\ step[r] < Len(candidates[r]) =>
              \E k \in 1 .. Len(candidates[r]) :
                /\ Candidate(r) = candidates[r][k]
                /\ \A l \in 1 .. Len(candidates[r]) : TurnOf(r, l) = step[r] <=> l = k
<1> DEFINE n == Len(candidates[r])
           p0 == first[r] % n
           p == ((first[r] + step[r]) % W) % n
<1>1. /\ n \in Nat \ {0} /\ first[r] \in Nat /\ step[r] \in Nat /\ W \in Nat \ {0}
      /\ W % n = 0
  BY ScanAssumption DEF IInv, ScanIInv, ScanTypes, Word, Undisturbed, GivenCandidates, InScan
<1>2. \A k : TurnOf(r, k) = IF k - 1 >= p0 THEN k - 1 - p0 ELSE k - 1 - p0 + n
  BY DEF TurnOf
<1>3. Candidate(r) = candidates[r][p + 1]
  BY DEF Candidate
<1> HIDE DEF n
<1>4. p0 \in 0 .. n - 1
  BY <1>1, Divided
<1>5. ASSUME step[r] < n
      PROVE  p = IF p0 + step[r] < n THEN p0 + step[r] ELSE p0 + step[r] - n
  <2> DEFINE f == first[r]
             t == step[r]
             x == f + t
  <2>1. f \in Nat /\ t \in 0 .. n - 1 /\ x \in Nat /\ x = f + t
    BY <1>1, <1>5
  <2>2. p = (x % W) % n /\ p0 = f % n /\ t = step[r]
    OBVIOUS
  <2> HIDE DEF f, t, x, p, p0
  <2>3. n \in Nat \ {0} /\ x - f \in 0 .. n - 1
    BY <1>1, <2>1
  <2>4. (x % W) % n = x % n
    <3>1. x \in Nat /\ W \in Nat \ {0} /\ n \in Nat \ {0} /\ W % n = 0
      BY <1>1, <2>1
    <3> QED
      BY <3>1, RemainderOfWrapped, Zenon
  <2>5. x % n = IF (f % n) + (x - f) < n THEN (f % n) + (x - f) ELSE (f % n) + (x - f) - n
    BY <2>1, <2>3, RemainderOfSum
  <2>6. p = IF p0 + (x - f) < n THEN p0 + (x - f) ELSE p0 + (x - f) - n
    BY <2>2, <2>4, <2>5, Zenon
  <2>7. x - f = t
    BY <2>1
  <2> QED
    BY <2>2, <2>6, <2>7, Zenon
<1> HIDE DEF p0, p
<1>6. \A k \in 1 .. n : TurnOf(r, k) \in 0 .. n - 1
  BY <1>1, <1>2, <1>4
<1>7. ASSUME step[r] < n
      PROVE  p + 1 \in 1 .. n /\ \A l \in 1 .. n : TurnOf(r, l) = step[r] <=> l = p + 1
  <2>1. p \in 0 .. n - 1
    BY <1>1, <1>4, <1>5, <1>7
  <2>2. ASSUME NEW l \in 1 .. n
        PROVE  TurnOf(r, l) = step[r] <=> l = p + 1
    <3>1. TurnOf(r, l) = IF l - 1 >= p0 THEN l - 1 - p0 ELSE l - 1 - p0 + n
      BY <1>2
    <3>2. n \in Nat /\ p0 \in 0 .. n - 1 /\ step[r] \in 0 .. n - 1
      BY <1>1, <1>4, <1>7
    <3>3. p = IF p0 + step[r] < n THEN p0 + step[r] ELSE p0 + step[r] - n
      BY <1>5, <1>7
    <3>4. CASE p0 + step[r] < n
      BY <3>1, <3>2, <3>3, <3>4
    <3>5. CASE ~(p0 + step[r] < n)
      BY <3>1, <3>2, <3>3, <3>5
    <3> QED
      BY <3>4, <3>5
  <2> QED
    BY <1>1, <2>1, <2>2
<1>8. QED
  BY <1>1, <1>3, <1>6, <1>7 DEF n

(* A candidate's counter is the load of its backend, and the load is a number. *)
LEMMA ReadsTheLoad ==
  ASSUME NEW s, Undisturbed(s), IInv, NEW i \in Indices
  PROVE  /\ Load(s, i) \in Nat
         /\ size # Unset => Value(i) = Load(s, i)
<1>1. s \in Services /\ \A r \in Slots : service[r] = s
  BY DEF Undisturbed, IInv, ScanIInv, ScanTypes
<1>2. Load(s, i) = Cardinality(Holders(i))
  <2>1. {r \in Slots : stage[r] = "started" /\ service[r] = s /\ best[r] = i} = Holders(i)
    BY <1>1 DEF Holders
  <2>2. QED
    BY <2>1 DEF Load
<1>3. leaked[i] = 0
  BY DEF IInv, LossesBounded, TypeOK, Undisturbed
<1>4. ASSUME size # Unset PROVE Value(i) = Load(s, i)
  <2>1. size = PoolLen[s] /\ Indices = 0 .. PoolLen[s] - 1
    BY <1>4 DEF Undisturbed, IInv, ScanIInv, ScanTypes, Indices
  <2>2. i \in DOMAIN cells /\ i \in 0 .. size - 1
    BY <2>1 DEF IInv, ScanIInv, ScanTypes
  <2>3. cells[i] = Cardinality(Holders(i))
    BY <1>3, <2>2, HoldersBounded DEF IInv, Accounting
  <2>4. QED
    BY <1>2, <2>2, <2>3 DEF Value
<1>5. QED
  BY <1>2, <1>4, HoldersBounded

-----------------------------------------------------------------------------
(* The windows. *)

(* A step of handler r, as Next has it. *)
ActsOn(r) ==
  \/ Select(r) /\ UNCHANGED losses
  \/ OnStart(r)
  \/ OnResult(r)
  \/ Disconnect(r)

(* What a handler's scan consists of stays as it is. *)
Rests(q) ==
  /\ stage'[q] = stage[q] /\ candidates'[q] = candidates[q] /\ first'[q] = first[q]
  /\ step'[q] = step[q] /\ best'[q] = best[q] /\ bestValue'[q] = bestValue[q]

(* A step moves one handler, and a handler is in its scan after a step of  *)
(* its own only by one of two.                                             *)
LEMMA OneHandlerMoves ==
  ASSUME IInv, NEW r \in Slots, ActsOn(r)
  PROVE  /\ \A q \in Slots \ {r} : Rests(q)
         /\ InScan(r)' => TakeOffset(r) \/ LoadCell(r)
<1> USE DEF IInv, ScanIInv, ScanTypes, Goto, Rests, InScan
<1>1. ASSUME NEW from, Leave(r, from)
      PROVE  (\A q \in Slots \ {r} : Rests(q)) /\ ~InScan(r)'
  BY <1>1 DEF Leave
<1>2. CASE PickNone(r) \/ Reject(r) \/ OnResult(r) \/ Disconnect(r)
  BY <1>1, <1>2 DEF PickNone, Reject, OnResult, Disconnect
<1>3. ASSUME NEW t \in Services, NEW c \in CandidateSets[t], Arrive(r, t, c)
      PROVE  (\A q \in Slots \ {r} : Rests(q)) /\ ~InScan(r)'
  BY <1>3 DEF Arrive
<1>4. CASE GetOrInit(r)
  BY <1>4 DEF GetOrInit, locals
<1>5. CASE TakeOffset(r)
  BY <1>5 DEF TakeOffset
<1>6. CASE LoadCell(r)
  BY <1>6 DEF LoadCell
<1>7. CASE OnStart(r)
  BY <1>7 DEF OnStart, locals
<1>8. QED
  BY <1>2, <1>3, <1>4, <1>5, <1>6, <1>7 DEF ActsOn, Select, Pick

(* What Watch does to the window of a handler. *)
LEMMA WindowStep ==
  ASSUME NEW s, Undisturbed(s), IInv, IInv', HTypes, Watch, NEW r \in Slots,
         InScan(r)' => stage[r] \in {"ready", "scan", "picked"}
  PROVE  /\ floor'[r] \in [Indices -> Nat] /\ ceiling'[r] \in [Indices -> Nat]
         /\ InScan(r)' => \A i \in Indices :
              /\ Load(s, i)' \in Nat
              /\ stage[r] = "ready" =>
                   floor'[r][i] = Load(s, i)' /\ ceiling'[r][i] = Load(s, i)'
              /\ stage[r] = "scan" =>
                   /\ floor'[r][i] = Lesser(floor[r][i], Load(s, i)')
                   /\ ceiling'[r][i] = Greater(ceiling[r][i], Load(s, i)')
              /\ stage[r] = "picked" =>
                   floor'[r][i] = floor[r][i] /\ ceiling'[r][i] = ceiling[r][i]
<1>1. \A i \in Indices : Load(s, i)' \in Nat
  <2> SUFFICES ASSUME NEW i \in Indices PROVE Load(s, i)' \in Nat
    OBVIOUS
  <2> DEFINE L == {q \in Slots : stage[q] = "started" /\ service[q] = s /\ best[q] = i}'
  <2>1. L \in SUBSET Slots /\ Load(s, i)' = Cardinality(L)
    BY DEF Load
  <2>2. QED
    BY <2>1, SlotsAssumption, FS_Subset, FS_CardinalityType
<1>2. service'[r] = s
  BY DEF Undisturbed, IInv, ScanIInv, ScanTypes
<1>3. floor[r] \in [Indices -> Nat] /\ ceiling[r] \in [Indices -> Nat]
  BY DEF HTypes
<1>4. /\ floor'[r] = [i \in Indices |->
                        Tracked(r, Load(s, i)', floor[r][i], Lesser(floor[r][i], Load(s, i)'))]
      /\ ceiling'[r] = [i \in Indices |->
                        Tracked(r, Load(s, i)', ceiling[r][i],
                                Greater(ceiling[r][i], Load(s, i)'))]
  BY <1>2 DEF Watch
<1>5. \A i \in Indices :
        /\ floor[r][i] \in Nat /\ Lesser(floor[r][i], Load(s, i)') \in Nat
        /\ ceiling[r][i] \in Nat /\ Greater(ceiling[r][i], Load(s, i)') \in Nat
  BY <1>1, <1>3 DEF Lesser, Greater
<1>6. ASSUME NEW i \in Indices
      PROVE  /\ floor'[r][i] \in Nat /\ ceiling'[r][i] \in Nat
             /\ InScan(r)' =>
                  /\ stage[r] = "ready" =>
                       floor'[r][i] = Load(s, i)' /\ ceiling'[r][i] = Load(s, i)'
                  /\ stage[r] = "scan" =>
                       /\ floor'[r][i] = Lesser(floor[r][i], Load(s, i)')
                       /\ ceiling'[r][i] = Greater(ceiling[r][i], Load(s, i)')
                  /\ stage[r] = "picked" =>
                       floor'[r][i] = floor[r][i] /\ ceiling'[r][i] = ceiling[r][i]
  <2>1. /\ floor'[r][i] = Tracked(r, Load(s, i)', floor[r][i],
                                  Lesser(floor[r][i], Load(s, i)'))
        /\ ceiling'[r][i] = Tracked(r, Load(s, i)', ceiling[r][i],
                                    Greater(ceiling[r][i], Load(s, i)'))
    BY <1>4
  <2> DEFINE load == Load(s, i)'
             low == Lesser(floor[r][i], load)
             high == Greater(ceiling[r][i], load)
  <2>2. /\ load \in Nat /\ low \in Nat /\ high \in Nat
        /\ floor[r][i] \in Nat /\ ceiling[r][i] \in Nat
    BY <1>1, <1>5
  <2> HIDE DEF load, low, high
  <2>3. /\ Tracked(r, load, floor[r][i], low) \in Nat
        /\ InScan(r)' =>
             /\ stage[r] = "ready" => Tracked(r, load, floor[r][i], low) = load
             /\ stage[r] = "scan" => Tracked(r, load, floor[r][i], low) = low
             /\ stage[r] = "picked" => Tracked(r, load, floor[r][i], low) = floor[r][i]
    BY <2>2 DEF Tracked, InScan
  <2>4. /\ Tracked(r, load, ceiling[r][i], high) \in Nat
        /\ InScan(r)' =>
             /\ stage[r] = "ready" => Tracked(r, load, ceiling[r][i], high) = load
             /\ stage[r] = "scan" => Tracked(r, load, ceiling[r][i], high) = high
             /\ stage[r] = "picked" => Tracked(r, load, ceiling[r][i], high) = ceiling[r][i]
    BY <2>2 DEF Tracked, InScan
  <2>5. QED
    BY <2>1, <2>3, <2>4 DEF load, low, high
<1>7. floor'[r] \in [Indices -> Nat] /\ ceiling'[r] \in [Indices -> Nat]
  BY <1>4, <1>6
<1>8. QED
  BY <1>1, <1>6, <1>7

-----------------------------------------------------------------------------
(* The invariant. *)

Told(s, r) == WindowIsOpen(s, r) /\ BestIsLeast(r) /\ BestIsReal(r)

(* A handler that does not move: its window only grows. *)
LEMMA RestingKeeps ==
  ASSUME NEW s, Undisturbed(s), IInv, IInv', HTypes, GivenCandidates(s), Watch,
         NEW q \in Slots, Told(s, q), Rests(q)
  PROVE  Told(s, q)'
<1>1. CASE ~InScan(q)
  BY <1>1 DEF Rests, InScan, Told, WindowIsOpen, BestIsLeast, BestIsReal
<1>2. CASE InScan(q)
  <2>1. InScan(q)' /\ stage[q] \in {"scan", "picked"} /\ stage'[q] = stage[q]
    BY <1>2 DEF Rests, InScan
  <2>2. ASSUME NEW i \in Indices
        PROVE  /\ floor'[q][i] <= floor[q][i] /\ ceiling[q][i] <= ceiling'[q][i]
               /\ floor[q][i] \in Nat /\ ceiling[q][i] \in Nat
               /\ floor'[q][i] \in Nat /\ ceiling'[q][i] \in Nat
               /\ stage[q] = "scan" =>
                    floor'[q][i] <= Load(s, i)' /\ Load(s, i)' <= ceiling'[q][i]
    <3>1. floor[q][i] \in Nat /\ ceiling[q][i] \in Nat
      BY DEF HTypes
    <3>2. QED
      BY <2>1, <3>1, WindowStep DEF Lesser, Greater
  <2>3. bestValue[q] \in Nat
    BY ScanAssumption DEF IInv, ScanIInv, ScanTypes, Word
  <2>4. WindowIsOpen(s, q)'
    BY <2>1, <2>2 DEF WindowIsOpen
  <2>5. BestIsLeast(q)'
    <3>1. \A k : TurnOf(q, k)' = TurnOf(q, k)
      BY DEF Rests, TurnOf
    <3>2. ASSUME NEW k \in 1 .. Len(candidates[q]), TurnOf(q, k) < step[q],
                 candidates[q][k] \in Indices
          PROVE  bestValue[q] <= ceiling'[q][candidates[q][k]]
      <4>1. bestValue[q] <= ceiling[q][candidates[q][k]]
        BY <1>2, <3>2 DEF Told, BestIsLeast
      <4>2. QED
        BY <2>2, <2>3, <3>2, <4>1
    <3>3. QED
      BY <1>2, <2>1, <3>1, <3>2 DEF Rests, Told, BestIsLeast
  <2>6. BestIsReal(q)'
    <3>1. ASSUME best[q] \in Indices
          PROVE  floor'[q][best[q]] <= bestValue[q]
      <4>1. floor[q][best[q]] <= bestValue[q]
        BY <1>2, <3>1 DEF Told, BestIsReal
      <4>2. QED
        BY <2>2, <2>3, <3>1, <4>1
    <3>2. QED
      BY <3>1 DEF Rests, BestIsReal
  <2>7. QED
    BY <2>4, <2>5, <2>6 DEF Told
<1>3. QED
  BY <1>1, <1>2

(* A scan that starts has looked at nothing, and its window is this moment. *)
LEMMA TakeOffsetKeeps ==
  ASSUME NEW s, Undisturbed(s), IInv, IInv', HTypes, GivenCandidates(s), GivenCandidates(s)',
         Watch, NEW r \in Slots, TakeOffset(r)
  PROVE  Told(s, r)'
<1>1. /\ stage[r] = "ready" /\ stage'[r] = "scan" /\ step'[r] = 0 /\ best'[r] = None
      /\ candidates' = candidates
  BY DEF TakeOffset, Goto, IInv, ScanIInv, ScanTypes
<1>2. candidates[r] # <<>>
  BY <1>1 DEF IInv, ScanIInv, ScanLocals
<1>3. InScan(r)'
  BY <1>1 DEF InScan
<1>4. WindowIsOpen(s, r)'
  BY <1>1, <1>3, WindowStep DEF WindowIsOpen
<1>5. BestIsLeast(r)'
  <2>1. \A k \in 1 .. Len(candidates'[r]) : TurnOf(r, k)' \in Nat
    <3>1. first'[r] \in Nat /\ candidates'[r] \in Seq(Nat)
      BY DEF IInv, ScanIInv, ScanTypes, Word
    <3>2. Len(candidates'[r]) \in Nat \ {0}
      BY <1>1, <1>2, <3>1
    <3>3. first'[r] % Len(candidates'[r]) \in 0 .. Len(candidates'[r]) - 1
      BY <3>1, <3>2, Divided
    <3>4. QED
      BY <3>2, <3>3 DEF TurnOf
  <2>2. QED
    BY <1>1, <1>2, <2>1 DEF BestIsLeast
<1>6. BestIsReal(r)'
  <2>1. None \notin Indices
    BY ScanAssumption DEF None, Indices
  <2>2. QED
    BY <1>1, <2>1 DEF BestIsReal
<1>7. QED
  BY <1>4, <1>5, <1>6 DEF Told

(* A turn of the scan: the count that was read was the load at that moment. *)
LEMMA LoadCellKeeps ==
  ASSUME NEW s, Undisturbed(s), IInv, IInv', HTypes, GivenCandidates(s), Watch,
         NEW r \in Slots, Told(s, r), LoadCell(r), \A q \in Slots \ {r} : Rests(q)
  PROVE  Told(s, r)'
<1> DEFINE c == Candidate(r)
           v == Value(c)
<1>1. stage[r] = "scan" /\ InScan(r) /\ candidates[r] # <<>>
  BY DEF LoadCell, Goto, InScan, Told, BestIsLeast
<1>2. /\ stage'[r] = (IF step[r] + 1 = Len(candidates[r]) THEN "picked" ELSE "scan")
      /\ step'[r] = step[r] + 1
      /\ best'[r] = (IF v < bestValue[r] THEN c ELSE best[r])
      /\ bestValue'[r] = (IF v < bestValue[r] THEN v ELSE bestValue[r])
      /\ candidates' = candidates /\ first' = first
  BY DEF LoadCell, Goto, IInv, ScanIInv, ScanTypes
<1>3. /\ v \in Nat /\ c \in Nat /\ bestValue[r] \in Nat /\ step[r] \in Nat
      /\ step[r] < Len(candidates[r])
  <2>1. c \in Nat
    BY <1>1, ScanInRange DEF IInv, ScanIInv
  <2>2. v \in Word
    BY <2>1, CountersBelowMax, ValueBelowMax DEF IInv, ScanIInv
  <2>3. QED
    BY <1>1, <2>1, <2>2, ScanAssumption DEF IInv, ScanIInv, ScanTypes, ScanLocals, Word
<1>4. ASSUME NEW i \in Indices
      PROVE  /\ Load(s, i)' = Load(s, i)
             /\ floor[r][i] \in Nat /\ ceiling[r][i] \in Nat /\ Load(s, i) \in Nat
             /\ floor[r][i] <= Load(s, i) /\ Load(s, i) <= ceiling[r][i]
             /\ floor'[r][i] = floor[r][i] /\ ceiling'[r][i] = ceiling[r][i]
  <2>1. {q \in Slots : stage[q] = "started" /\ service[q] = s /\ best[q] = i}'
          = {q \in Slots : stage[q] = "started" /\ service[q] = s /\ best[q] = i}
    BY <1>1, <1>2 DEF LoadCell, Rests
  <2>2. Load(s, i)' = Load(s, i)
    BY <2>1 DEF Load
  <2>3. floor[r][i] \in Nat /\ ceiling[r][i] \in Nat /\ Load(s, i) \in Nat
    BY ReadsTheLoad DEF HTypes
  <2>4. floor[r][i] <= Load(s, i) /\ Load(s, i) <= ceiling[r][i]
    BY <1>1 DEF Told, WindowIsOpen
  <2>5. InScan(r)'
    BY <1>2 DEF InScan
  <2>6. /\ floor'[r][i] = Lesser(floor[r][i], Load(s, i)')
        /\ ceiling'[r][i] = Greater(ceiling[r][i], Load(s, i)')
    BY <1>1, <2>5, WindowStep
  <2>7. QED
    BY <2>2, <2>3, <2>4, <2>6 DEF Lesser, Greater
<1>5. c \in Indices => v = Load(s, c)
  BY <1>1, ReadsTheLoad DEF IInv, ScanIInv, CellsExist
<1>6. PICK k \in 1 .. Len(candidates[r]) :
        /\ c = candidates[r][k]
        /\ \A l \in 1 .. Len(candidates[r]) : TurnOf(r, l) = step[r] <=> l = k
  BY <1>1, <1>3, TurnsCoverTheList
<1>7. \A l : TurnOf(r, l)' = TurnOf(r, l)
  BY <1>2 DEF TurnOf
<1> HIDE DEF c, v
<1>8. WindowIsOpen(s, r)'
  BY <1>4 DEF WindowIsOpen
<1>9. BestIsLeast(r)'
  <2>1. ASSUME NEW l \in 1 .. Len(candidates[r]), TurnOf(r, l) < step[r] + 1,
               candidates[r][l] \in Indices
        PROVE  bestValue'[r] <= ceiling'[r][candidates[r][l]]
    <3>1. TurnOf(r, l) \in Nat
      BY <1>1, TurnsCoverTheList
    <3>2. CASE TurnOf(r, l) = step[r]
      <4>1. c = candidates[r][l] /\ c \in Indices
        BY <1>6, <2>1, <3>2
      <4>2. v <= ceiling'[r][c]
        BY <1>4, <1>5, <4>1
      <4>3. ceiling'[r][c] \in Nat
        BY <1>4, <4>1
      <4>4. QED
        BY <1>2, <1>3, <4>1, <4>2, <4>3
    <3>3. CASE TurnOf(r, l) < step[r]
      <4>1. bestValue[r] <= ceiling[r][candidates[r][l]]
        BY <1>1, <2>1, <3>3 DEF Told, BestIsLeast
      <4>2. /\ ceiling'[r][candidates[r][l]] = ceiling[r][candidates[r][l]]
            /\ ceiling[r][candidates[r][l]] \in Nat
        BY <1>4, <2>1
      <4>3. QED
        BY <1>2, <1>3, <4>1, <4>2
    <3>4. QED
      BY <1>3, <2>1, <3>1, <3>2, <3>3
  <2>2. QED
    BY <1>1, <1>2, <1>7, <2>1 DEF BestIsLeast
<1>10. BestIsReal(r)'
  <2>1. CASE v < bestValue[r]
    BY <1>2, <1>4, <1>5, <2>1 DEF BestIsReal
  <2>2. CASE ~(v < bestValue[r])
    <3>1. best'[r] = best[r] /\ bestValue'[r] = bestValue[r]
      BY <1>2, <2>2
    <3>2. QED
      BY <1>1, <1>4, <3>1 DEF Told, BestIsReal
  <2>3. QED
    BY <2>1, <2>2
<1>11. QED
  BY <1>8, <1>9, <1>10 DEF Told

(* Nobody scans at the start. *)
LEMMA InitHInv ==
  ASSUME NEW s, Undisturbed(s), HInit
  PROVE  HInv(s)
BY DEF HInit, Init, ScanInit, HInv, HTypes, GivenCandidates, WindowIsOpen, BestIsLeast,
   BestIsReal, InScan

(* Every step keeps the invariant. *)
LEMMA NextHInv ==
  ASSUME NEW s, Undisturbed(s), IInv, IInv', HInv(s), [HNext]_hvars
  PROVE  HInv(s)'
<1>1. CASE UNCHANGED hvars
  BY <1>1 DEF hvars, vars, scanVars, shared, locals, losses, HInv, HTypes, GivenCandidates,
     WindowIsOpen, BestIsLeast, BestIsReal, InScan, TurnOf, Load
<1>2. ASSUME NEW r \in Slots, ActsOn(r), Watch
      PROVE  HInv(s)'
  <2>1. HTypes /\ GivenCandidates(s) /\ \A q \in Slots : Told(s, q)
    BY DEF HInv, Told
  <2>2. (\A q \in Slots \ {r} : Rests(q)) /\ (InScan(r)' => TakeOffset(r) \/ LoadCell(r))
    BY <1>2, OneHandlerMoves
  <2>3. GivenCandidates(s)'
    BY <1>2, <2>1, <2>2 DEF GivenCandidates, Rests, ActsOn, Select, Pick, Arrive, PickNone,
       GetOrInit, TakeOffset, LoadCell, Reject, OnStart, OnResult, Disconnect, Leave, Goto,
       locals, Undisturbed, IInv, ScanIInv, ScanTypes
  <2>4. \A q \in Slots : Told(s, q)'
    <3>1. \A q \in Slots \ {r} : Told(s, q)'
      BY <1>2, <2>1, <2>2, RestingKeeps
    <3>2. CASE ~InScan(r)'
      BY <3>1, <3>2 DEF InScan, Told, WindowIsOpen, BestIsLeast, BestIsReal
    <3>3. CASE TakeOffset(r)
      BY <1>2, <2>1, <2>3, <3>1, <3>3, TakeOffsetKeeps
    <3>4. CASE LoadCell(r)
      BY <1>2, <2>1, <2>2, <3>1, <3>4, LoadCellKeeps
    <3>5. QED
      BY <2>2, <3>2, <3>3, <3>4
  <2>5. HTypes'
    <3>1. ASSUME NEW q \in Slots
          PROVE  floor'[q] \in [Indices -> Nat] /\ ceiling'[q] \in [Indices -> Nat]
      <4>1. InScan(q)' => stage[q] \in {"ready", "scan", "picked"}
        BY <2>2 DEF TakeOffset, LoadCell, Goto, Rests, InScan
      <4>2. QED
        BY <1>2, <2>1, <4>1, WindowStep
    <3>2. /\ floor' = [q \in Slots |-> floor'[q]]
          /\ ceiling' = [q \in Slots |-> ceiling'[q]]
      BY <1>2 DEF Watch
    <3>3. QED
      BY <3>1, <3>2 DEF HTypes
  <2>6. QED
    BY <2>3, <2>4, <2>5 DEF HInv, Told
<1>3. QED
  BY <1>1, <1>2 DEF HNext, Next, ActsOn

(* A pick has looked at every candidate. *)
LEMMA PickedHasSeenAll ==
  ASSUME NEW s, Undisturbed(s), IInv, HInv(s)
  PROVE  NeverClearlyBusier
<1> SUFFICES ASSUME NEW r \in Slots, stage[r] = "picked", InPool(r),
                    NEW k \in 1 .. Len(candidates[r]),
                    candidates[r][k] \in 0 .. PoolLen[service[r]] - 1
             PROVE  floor[r][best[r]] <= ceiling[r][candidates[r][k]]
  BY DEF NeverClearlyBusier
<1>1. best[r] \in Indices /\ candidates[r][k] \in Indices
  BY DEF InPool, Indices, IInv, ScanIInv, ScanTypes
<1>2. InScan(r) /\ BestIsLeast(r) /\ BestIsReal(r)
  BY DEF InScan, HInv
<1>3. candidates[r] # <<>> /\ step[r] = Len(candidates[r])
  BY <1>2 DEF BestIsLeast
<1>4. TurnOf(r, k) < step[r]
  <2>1. TurnOf(r, k) \in 0 .. Len(candidates[r]) - 1 /\ Len(candidates[r]) \in Nat
    BY <1>2, <1>3, TurnsCoverTheList DEF HInv
  <2>2. QED
    BY <1>3, <2>1
<1>5. bestValue[r] <= ceiling[r][candidates[r][k]] /\ floor[r][best[r]] <= bestValue[r]
  BY <1>1, <1>2, <1>4 DEF BestIsLeast, BestIsReal
<1>6. /\ bestValue[r] \in Nat /\ floor[r][best[r]] \in Nat
      /\ ceiling[r][candidates[r][k]] \in Nat
  BY <1>1, ScanAssumption DEF HInv, HTypes, IInv, ScanIInv, ScanTypes, Word
<1>7. QED
  BY <1>5, <1>6

-----------------------------------------------------------------------------

(* However the calls of one service overlap: a pick never goes to a backend *)
(* that had, all through the scan, more requests in flight than another    *)
(* candidate had at any moment of it.                                      *)
THEOREM PicksTheFewestUpToRaces ==
  ASSUME NEW s, Undisturbed(s)
  PROVE  HSpec => []NeverClearlyBusier
<1>1. HInit => Init
  BY DEF HInit
<1>2. [HNext]_hvars => [Next]_vars
  BY DEF HNext, hvars
<1>3. HSpec => Spec
  BY <1>1, <1>2, PTL DEF HSpec, Spec
<1>4. HInit => HInv(s)
  BY InitHInv
<1>5. IInv /\ IInv' /\ HInv(s) /\ [HNext]_hvars => HInv(s)'
  BY NextHInv
<1>6. IInv /\ HInv(s) => NeverClearlyBusier
  BY PickedHasSeenAll
<1>7. QED
  BY <1>3, <1>4, <1>5, <1>6, Invariance, PTL DEF HSpec

=============================================================================
