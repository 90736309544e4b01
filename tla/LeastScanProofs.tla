--------------------------- MODULE LeastScanProofs ---------------------------
(***************************************************************************)
(* What the shared `pick` preserves, whatever the cells hold, as long as   *)
(* no cell reaches the greatest value of its type.  The proofs of the two  *)
(* balancers cite the three step lemmas at the end.                        *)
(*                                                                         *)
(* ScanIInv is inductive: it adds to the types and to PicksACandidate that *)
(* the cells exist once a handler scans (CellsExist), that a handler past  *)
(* select_backend holds an index of its pool (HoldsPoolIndex), and how far *)
(* a scan has come (ScanLocals).                                           *)
(***************************************************************************)
EXTENDS LeastScan, TLAPS

InSelect == {"idle", "arrived", "ready", "scan"}

CellsExist ==
  size = Unset => \A r \in Slots : stage[r] \in {"idle", "arrived"}

HoldsPoolIndex == \A r \in Slots : stage[r] \notin ScanStages => InPool(r)

ScanLocals ==
  \A r \in Slots :
    /\ stage[r] = "ready" => candidates[r] # <<>>
    /\ stage[r] = "scan" =>
         /\ step[r] < Len(candidates[r])
         /\ IF step[r] = 0 THEN bestValue[r] = W - 1 ELSE Chosen(r)

CellsBelowMax == \A i \in DOMAIN cells : cells[i] < W - 1

ScanIInv ==
  /\ ScanTypes
  /\ CellsExist
  /\ HoldsPoolIndex
  /\ ScanLocals
  /\ PicksACandidate

-----------------------------------------------------------------------------

(* The cells are indexed by indices some pool has. *)
LEMMA PoolIndices ==
  ASSUME NEW n \in {Unset} \union {PoolLen[s] : s \in Services}
  PROVE  0 .. n - 1 \subseteq Indices
<1>1. CASE n = Unset
  BY <1>1 DEF Unset
<1>2. CASE \E s \in Services : n = PoolLen[s]
  BY <1>2 DEF Indices
<1>3. QED
  BY <1>1, <1>2

(* So are the cells themselves. *)
LEMMA CellIndices ==
  ASSUME ScanTypes PROVE DOMAIN cells \subseteq Indices
BY PoolIndices DEF ScanTypes

(* The scan looks at candidates only, wherever it starts. *)
LEMMA ScanInRange ==
  ASSUME ScanTypes, ScanLocals, NEW r \in Slots, stage[r] = "scan"
  PROVE  /\ \E k \in 1 .. Len(candidates[r]) : Candidate(r) = candidates[r][k]
         /\ Candidate(r) \in Nat
<1> DEFINE n == Len(candidates[r])
           k == (((first[r] + step[r]) % W) % n) + 1
<1>1. /\ candidates[r] \in Seq(Nat)
      /\ n \in Nat /\ n > 0
      /\ first[r] \in Nat /\ step[r] \in Nat
  BY DEF ScanTypes, ScanLocals, Word
<1>2. (first[r] + step[r]) % W \in Nat
  BY <1>1, ScanAssumption
<1>3. ((first[r] + step[r]) % W) % n \in 0 .. n - 1
  BY <1>1, <1>2
<1>4. k \in 1 .. n
  BY <1>1, <1>3
<1>5. Candidate(r) = candidates[r][k]
  BY DEF Candidate
<1>6. candidates[r][k] \in Nat
  BY <1>1, <1>4
<1>7. QED
  BY <1>4, <1>5, <1>6

(* What a scan reads is a word below the greatest one. *)
LEMMA ValueBelowMax ==
  ASSUME ScanTypes, CellsBelowMax, NEW i \in Nat
  PROVE  Value(i) \in Word /\ Value(i) < W - 1
<1>1. CASE i \in 0 .. size - 1
  BY <1>1 DEF ScanTypes, CellsBelowMax, Value
<1>2. CASE i \notin 0 .. size - 1
  BY <1>2, ScanAssumption DEF Value, Word
<1>3. QED
  BY <1>1, <1>2

(* A fresh balancer satisfies the invariant. *)
LEMMA ScanInitIInv == ScanInit => ScanIInv
<1> SUFFICES ASSUME ScanInit PROVE ScanIInv
  OBVIOUS
<1>1. W - 1 \in Word /\ 0 \in Word
  BY ScanAssumption DEF Word
<1>2. ScanTypes
  <2>1. (CHOOSE s \in Services : TRUE) \in Services
    BY ScanAssumption
  <2>2. cells \in [0 .. size - 1 -> Word]
    BY DEF ScanInit, Unset
  <2>3. candidates \in [Slots -> Seq(Nat)]
    BY DEF ScanInit
  <2>4. QED
    BY <1>1, <2>1, <2>2, <2>3 DEF ScanInit, ScanTypes, Unset, None, Stages, ScanStages
<1>3. QED
  BY <1>2 DEF ScanInit, ScanIInv, CellsExist, HoldsPoolIndex, ScanLocals, PicksACandidate,
     ScanStages

-----------------------------------------------------------------------------

(* A handler that arrives has not looked at the cells yet. *)
LEMMA ArriveStep ==
  ASSUME ScanIInv, NEW r \in Slots, NEW s \in Services, NEW c \in CandidateSets[s],
         Arrive(r, s, c)
  PROVE  ScanIInv'
<1> USE DEF ScanIInv, Arrive, Goto, shared
<1>1. ScanTypes'
  BY ScanAssumption DEF ScanTypes, Stages, ScanStages
<1>2. CellsExist' /\ HoldsPoolIndex'
  BY DEF ScanTypes, CellsExist, HoldsPoolIndex, InPool, ScanStages
<1>3. ScanLocals' /\ PicksACandidate'
  BY DEF ScanTypes, ScanLocals, Chosen, PicksACandidate
<1>4. QED
  BY <1>1, <1>2, <1>3

(* The cells get the length of a pool, and are words. *)
LEMMA GetOrInitStep ==
  ASSUME ScanIInv, NEW r \in Slots, GetOrInit(r)
  PROVE  ScanIInv'
<1> USE DEF ScanIInv, GetOrInit, Goto, locals
<1>1. PoolLen[service[r]] \in Nat /\ 0 \in Word /\ service[r] \in Services
  BY ScanAssumption DEF ScanTypes, Word
<1>2. ScanTypes'
  <2>1. cells' \in [0 .. size' - 1 -> Word]
    BY <1>1 DEF ScanTypes
  <2>2. size' \in {Unset} \union {PoolLen[s] : s \in Services}
    BY <1>1 DEF ScanTypes
  <2>3. QED
    BY <2>1, <2>2 DEF ScanTypes, Stages, ScanStages
<1>3. CellsExist' /\ HoldsPoolIndex'
  BY <1>1 DEF ScanTypes, CellsExist, HoldsPoolIndex, InPool, Unset, ScanStages
<1>4. ScanLocals' /\ PicksACandidate'
  BY DEF ScanTypes, ScanLocals, Chosen, PicksACandidate
<1>5. QED
  BY <1>2, <1>3, <1>4

(* A scan starts only over a list that has a candidate. *)
LEMMA TakeOffsetStep ==
  ASSUME ScanIInv, NEW r \in Slots, TakeOffset(r)
  PROVE  ScanIInv'
<1> USE DEF ScanIInv, TakeOffset, Goto
<1>1. W - 1 \in Word /\ 0 \in Word /\ Plus1(offset) \in Word
  BY ScanAssumption DEF Word, Plus1, ScanTypes
<1>2. ScanTypes'
  BY <1>1 DEF ScanTypes, Stages, ScanStages, None
<1>3. CellsExist' /\ HoldsPoolIndex'
  BY DEF ScanTypes, CellsExist, HoldsPoolIndex, InPool, ScanStages
<1>4. ScanLocals'
  <2>1. candidates[r] # <<>> /\ candidates[r] \in Seq(Nat)
    BY DEF ScanTypes, ScanLocals
  <2>2. 0 < Len(candidates[r])
    BY <2>1
  <2>3. QED
    BY <2>2 DEF ScanTypes, ScanLocals, Chosen
<1>5. PicksACandidate'
  BY DEF ScanTypes, PicksACandidate, Chosen
<1>6. QED
  BY <1>2, <1>3, <1>4, <1>5

(* The first load is below the value the scan starts from, so a scan keeps *)
(* a candidate from its first turn on.                                     *)
LEMMA LoadCellStep ==
  ASSUME ScanIInv, CellsBelowMax, NEW r \in Slots, LoadCell(r)
  PROVE  ScanIInv'
<1>1. stage[r] = "scan"
  BY DEF LoadCell, Goto
<1>2. /\ Candidate(r) \in Nat
      /\ \E k \in 1 .. Len(candidates[r]) : Candidate(r) = candidates[r][k]
  BY <1>1, ScanInRange DEF ScanIInv
<1>3. Value(Candidate(r)) \in Word /\ Value(Candidate(r)) < W - 1
  BY <1>2, ValueBelowMax DEF ScanIInv
<1> USE DEF ScanIInv, LoadCell, Goto, shared
<1>4. ScanTypes'
  BY <1>2, <1>3 DEF ScanTypes, Stages, ScanStages
<1>5. CellsExist' /\ HoldsPoolIndex'
  BY DEF ScanTypes, CellsExist, HoldsPoolIndex, InPool, ScanStages
<1>6. Chosen(r)'
  BY <1>2, <1>3 DEF ScanTypes, ScanLocals, Chosen
<1>7. ScanLocals'
  <2> SUFFICES ASSUME NEW q \in Slots
               PROVE  /\ stage'[q] = "ready" => candidates'[q] # <<>>
                      /\ stage'[q] = "scan" =>
                           /\ step'[q] < Len(candidates'[q])
                           /\ IF step'[q] = 0 THEN bestValue'[q] = W - 1 ELSE Chosen(q)'
    BY DEF ScanLocals
  <2>1. CASE q = r
    <3>1. step'[r] = step[r] + 1 /\ step[r] \in Nat /\ candidates' = candidates
      BY DEF ScanTypes
    <3>2. step[r] < Len(candidates[r]) /\ Len(candidates[r]) \in Nat
      BY DEF ScanTypes, ScanLocals
    <3>3. stage'[r] = "scan" => step[r] + 1 # Len(candidates[r])
      BY DEF ScanTypes
    <3>4. stage'[r] # "ready"
      BY DEF ScanTypes
    <3>5. QED
      BY <1>6, <2>1, <3>1, <3>2, <3>3, <3>4
  <2>2. CASE q # r
    BY <2>2 DEF ScanTypes, ScanLocals, Chosen
  <2>3. QED
    BY <2>1, <2>2
<1>8. PicksACandidate'
  BY <1>6 DEF ScanTypes, PicksACandidate, Chosen
<1>9. QED
  BY <1>4, <1>5, <1>7, <1>8

(* A handler that returns, from wherever, leaves the rest as it was. *)
LEMMA LeaveStep ==
  ASSUME ScanIInv, NEW r \in Slots, NEW from, Leave(r, from), stage[r] # "idle",
         UNCHANGED <<size, offset>>, cells' \in [0 .. size - 1 -> Word]
  PROVE  ScanIInv'
<1> USE DEF ScanIInv, Leave, Goto
<1>1. W - 1 \in Word /\ 0 \in Word
  BY ScanAssumption DEF Word
<1>2. ScanTypes'
  BY <1>1 DEF ScanTypes, Stages, ScanStages, None
<1>3. CellsExist' /\ HoldsPoolIndex'
  BY DEF ScanTypes, CellsExist, HoldsPoolIndex, InPool, ScanStages
<1>4. ScanLocals' /\ PicksACandidate'
  BY DEF ScanTypes, ScanLocals, Chosen, PicksACandidate
<1>5. QED
  BY <1>2, <1>3, <1>4

(* A handler past pick that goes on with an index of its pool. *)
LEMMA AfterPickStep ==
  ASSUME ScanIInv, NEW r \in Slots, stage[r] \notin InSelect, InPool(r),
         NEW to \in Stages \ ScanStages, stage' = [stage EXCEPT ![r] = to],
         UNCHANGED <<size, offset, locals>>, cells' \in [0 .. size - 1 -> Word]
  PROVE  ScanIInv'
<1> USE DEF ScanIInv, locals, InSelect
<1>1. ScanTypes'
  BY DEF ScanTypes
<1>2. CellsExist' /\ HoldsPoolIndex'
  BY DEF ScanTypes, CellsExist, HoldsPoolIndex, InPool, ScanStages
<1>3. ScanLocals' /\ PicksACandidate'
  BY DEF ScanTypes, ScanLocals, Chosen, PicksACandidate, ScanStages
<1>4. QED
  BY <1>1, <1>2, <1>3

(* select_backend preserves the invariant. *)
LEMMA SelectStep ==
  ASSUME ScanIInv, CellsBelowMax, NEW r \in Slots, Select(r)
  PROVE  ScanIInv'
<1>1. ASSUME NEW s \in Services, NEW c \in CandidateSets[s], Arrive(r, s, c)
      PROVE  ScanIInv'
  BY <1>1, ArriveStep
<1>2. ASSUME NEW from, Leave(r, from), from # "idle", UNCHANGED shared
      PROVE  ScanIInv'
  BY <1>2, LeaveStep DEF shared, Leave, Goto, ScanIInv, ScanTypes
<1>3. CASE PickNone(r)
  BY <1>3, <1>2 DEF PickNone
<1>4. CASE Reject(r)
  BY <1>4, <1>2 DEF Reject
<1>5. QED
  BY <1>1, <1>3, <1>4, GetOrInitStep, TakeOffsetStep, LoadCellStep DEF Select, Pick

(* select_backend leaves the handlers past it alone, and the cells too     *)
(* unless it allocates them, as zeroes, when no handler is past it.        *)
LEMMA SelectFrame ==
  ASSUME ScanIInv, NEW r \in Slots, Select(r)
  PROVE  /\ \A q \in Slots : /\ stage'[q] \in ScanStages <=> stage[q] \in ScanStages
                             /\ stage[q] \notin ScanStages =>
                                  /\ stage'[q] = stage[q] /\ best'[q] = best[q]
                                  /\ service'[q] = service[q]
         /\ \/ UNCHANGED <<size, cells>>
            \/ /\ size = Unset
               /\ cells' = [i \in 0 .. size' - 1 |-> 0]
<1> USE DEF ScanIInv, ScanTypes, Goto, ScanStages
<1>1. ASSUME NEW s \in Services, NEW c \in CandidateSets[s], Arrive(r, s, c)
      PROVE  UNCHANGED <<size, cells>>
             /\ \A q \in Slots : /\ stage'[q] \in ScanStages <=> stage[q] \in ScanStages
                                 /\ stage[q] \notin ScanStages =>
                                      /\ stage'[q] = stage[q] /\ best'[q] = best[q]
                                      /\ service'[q] = service[q]
  BY <1>1 DEF Arrive, shared
<1>2. CASE PickNone(r) \/ Reject(r)
  BY <1>2 DEF PickNone, Reject, Leave, shared
<1>3. CASE GetOrInit(r)
  BY <1>3 DEF GetOrInit, locals
<1>4. CASE TakeOffset(r)
  BY <1>4 DEF TakeOffset
<1>5. CASE LoadCell(r)
  BY <1>5 DEF LoadCell, shared
<1>6. QED
  BY <1>1, <1>2, <1>3, <1>4, <1>5 DEF Select, Pick

=============================================================================
