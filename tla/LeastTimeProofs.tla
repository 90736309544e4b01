-------------------------- MODULE LeastTimeProofs --------------------------
(***************************************************************************)
(* The latency averages of the least-time balancer, for any number of      *)
(* handlers, services, backends, candidate lists and latencies, any weight *)
(* and any word size: its invariants, its two action properties, and that  *)
(* its steps are steps of Averages.                                        *)
(*                                                                         *)
(* The inductive invariant adds to the one of the scan that the averages   *)
(* and what handlers remember of them stay below u64::MAX, and that a      *)
(* handler in its compare-exchange loop has a cell to exchange.            *)
(***************************************************************************)
EXTENDS LeastTime, LeastScanProofs, NumbersAndLists

-----------------------------------------------------------------------------
(* Two facts about the average that do not depend on the weight (above 1)  *)
(* nor on the width of the word: it lies between the old average and the   *)
(* sample, and it is not 0 unless both are.  So the code's u64 arithmetic  *)
(* cannot overflow, and no sample makes an observed backend unobserved.    *)

(* d steps of Weight, less one step, are at least d. *)
LEMMA StepsGrow ==
  ASSUME NEW d \in Nat, d > 0
  PROVE  Weight * d - Weight + 1 >= d
<1>1. Weight * d - Weight + 1 = Weight * (d - 1) + 1
  BY WeightAssumption
<1>2. Weight * (d - 1) >= d - 1
  BY WeightAssumption
<1>3. QED
  BY <1>1, <1>2, WeightAssumption

(* Dividing brings two numbers no further apart, and keeps their order. *)
LEMMA DivisionContracts ==
  ASSUME NEW m \in Nat, NEW n \in Nat, m <= n
  PROVE  /\ m \div Weight <= n \div Weight
         /\ n \div Weight - m \div Weight <= n - m
<1> DEFINE p == m \div Weight
           q == n \div Weight
<1>1. /\ p \in Nat /\ Weight * p <= m /\ m < Weight * p + Weight
      /\ q \in Nat /\ Weight * q <= n /\ n < Weight * q + Weight
  BY Truncation, WeightAssumption
<1> HIDE DEF p, q
<1>2. p <= q
  <2>1. SUFFICES ASSUME p >= q + 1 PROVE FALSE
    BY <1>1
  <2>2. Weight * p >= Weight * (q + 1)
    BY <1>1, <2>1, WeightAssumption
  <2>3. Weight * (q + 1) = Weight * q + Weight
    BY <1>1, WeightAssumption
  <2>4. QED
    BY <1>1, <2>2, <2>3, WeightAssumption
<1>3. CASE p = q
  BY <1>1, <1>3 DEF p, q
<1>4. CASE p < q
  <2>1. Weight * (q - p) - Weight + 1 >= q - p
    BY <1>1, <1>4, StepsGrow
  <2>2. Weight * (q - p) = Weight * q - Weight * p
    BY <1>1, WeightAssumption
  <2>3. q - p <= n - m
    BY <1>1, <2>1, <2>2, WeightAssumption
  <2>4. QED
    BY <1>4, <2>3, <1>1 DEF p, q
<1>5. QED
  BY <1>1, <1>2, <1>3, <1>4

(* The new average lies between the old one and the sample. *)
THEOREM EwmaBetween ==
  ASSUME NEW o \in Nat \ {0}, NEW x \in Nat
  PROVE  Ewma(o, x) \in Nat /\ Between(o, Ewma(o, x), x)
<1>1. o \div Weight \in Nat /\ x \div Weight \in Nat
  BY Truncation, WeightAssumption
<1>2. CASE o <= x
  BY <1>1, <1>2, DivisionContracts DEF Ewma, Between
<1>3. CASE x <= o
  <2>1. /\ x \div Weight <= o \div Weight
        /\ o \div Weight - x \div Weight <= o - x
    BY <1>3, DivisionContracts
  <2>2. QED
    BY <1>1, <1>3, <2>1 DEF Ewma, Between
<1>4. QED
  BY <1>2, <1>3

(* It is not 0 again, whatever the sample. *)
THEOREM EwmaStaysPositive ==
  ASSUME NEW o \in Nat \ {0}, NEW x \in Nat
  PROVE  Ewma(o, x) # 0
<1> DEFINE q == o \div Weight
<1>1. q \in Nat /\ Weight * q <= o /\ x \div Weight \in Nat
  BY Truncation, WeightAssumption
<1> HIDE DEF q
<1>2. q < o
  <2>1. Weight * q >= 2 * q
    BY <1>1, WeightAssumption
  <2>2. QED
    BY <1>1, <2>1, WeightAssumption
<1>3. QED
  BY <1>1, <1>2 DEF Ewma, q

-----------------------------------------------------------------------------
(* The invariant. *)

SwapsACell == \A r \in Slots : stage[r] = "swapping" => best[r] \in DOMAIN cells

IInv ==
  /\ ScanIInv
  /\ TypeOK
  /\ CellsBelowMax
  /\ SwapsACell

(* A new average fits where the old one and the sample fit. *)
LEMMA AverageFits ==
  ASSUME NEW o \in Word, o < W - 1, NEW x \in Samples \union {0}
  PROVE  Ewma(o, x) \in Word /\ Ewma(o, x) < W - 1
<1>1. o \in Nat /\ x \in Nat /\ x < W - 1
  BY SamplesAssumption, ScanAssumption DEF Word
<1>2. CASE o = 0
  BY <1>1, <1>2, ScanAssumption DEF Ewma, Word
<1>3. CASE o # 0
  <2>1. Ewma(o, x) \in Nat /\ Between(o, Ewma(o, x), x)
    BY <1>1, <1>3, EwmaBetween
  <2>2. QED
    BY <1>1, <2>1, ScanAssumption DEF Between, Word
<1>4. QED
  BY <1>2, <1>3

(* A handler in its loop remembers a value of a cell; cells have values. *)
LEMMA CellHasValue ==
  ASSUME IInv, NEW r \in Slots, stage[r] = "swapping"
  PROVE  /\ best[r] \in DOMAIN cells
         /\ cells[best[r]] \in Word /\ cells[best[r]] < W - 1
         /\ sample[r] \in Samples \union {0}
         /\ cells[best[r]] \in Nat /\ sample[r] \in Nat
<1>1. /\ best[r] \in DOMAIN cells
      /\ cells[best[r]] \in Word /\ cells[best[r]] < W - 1
      /\ sample[r] \in Samples \union {0}
  BY DEF IInv, SwapsACell, CellsBelowMax, TypeOK, ScanTypes
<1>2. Samples \union {0} \subseteq Nat /\ Word \subseteq Nat
  BY SamplesAssumption, ScanAssumption DEF Word
<1>3. QED
  BY <1>1, <1>2

-----------------------------------------------------------------------------

(* Before the first request there are no averages. *)
LEMMA InitIInv == Init => IInv
<1> SUFFICES ASSUME Init PROVE IInv
  OBVIOUS
<1>1. ScanIInv
  BY ScanInitIInv DEF Init
<1>2. DOMAIN cells = {} /\ 0 \in Word
  BY ScanAssumption DEF Init, ScanInit, Word
<1>3. QED
  BY <1>1, <1>2, SamplesAssumption
     DEF Init, ScanInit, IInv, ScanIInv, TypeOK, CellsBelowMax, SwapsACell

(* select_backend does not touch the averages, or allocates them as zeroes. *)
LEMMA SelectKeepsIInv ==
  ASSUME IInv, NEW r \in Slots, Select(r), UNCHANGED results
  PROVE  IInv'
<1>1. ScanIInv'
  BY SelectStep DEF IInv
<1>2. TypeOK'
  BY <1>1 DEF IInv, TypeOK, results, ScanIInv
<1>3. /\ \A q \in Slots : stage[q] \notin ScanStages =>
                            stage'[q] = stage[q] /\ best'[q] = best[q]
      /\ \A q \in Slots : stage'[q] \in ScanStages <=> stage[q] \in ScanStages
      /\ \/ UNCHANGED <<size, cells>>
         \/ size = Unset /\ cells' = [i \in 0 .. size' - 1 |-> 0]
  BY SelectFrame DEF IInv
<1>4. CellsBelowMax'
  <2>1. CASE UNCHANGED <<size, cells>>
    BY <2>1 DEF IInv, CellsBelowMax
  <2>2. CASE size = Unset /\ cells' = [i \in 0 .. size' - 1 |-> 0]
    BY <2>2, ScanAssumption DEF CellsBelowMax
  <2>3. QED
    BY <1>3, <2>1, <2>2
<1>5. SwapsACell'
  BY <1>3 DEF IInv, ScanIInv, CellsExist, SwapsACell, ScanStages
<1>6. QED
  BY <1>1, <1>2, <1>4, <1>5 DEF IInv

(* The default on_start changes nothing. *)
LEMMA OnStartKeepsIInv ==
  ASSUME IInv, NEW r \in Slots, OnStart(r)
  PROVE  IInv'
<1>1. ScanIInv'
  BY AfterPickStep DEF OnStart, Goto, IInv, InSelect, Stages, ScanStages, shared, TypeOK, ScanTypes
<1>2. QED
  BY <1>1 DEF OnStart, Goto, IInv, ScanIInv, TypeOK, ScanTypes, CellsBelowMax, SwapsACell,
     shared, locals, results

(* Nor does a call that ends without a sample. *)
LEMMA NoSampleKeepsIInv ==
  ASSUME IInv, NEW r \in Slots, NoSample(r)
  PROVE  IInv'
<1>1. ScanIInv'
  BY LeaveStep DEF NoSample, Leave, Goto, IInv, shared, TypeOK, ScanTypes
<1>2. TypeOK' /\ CellsBelowMax'
  BY <1>1 DEF NoSample, IInv, ScanIInv, TypeOK, CellsBelowMax, shared, results
<1>3. SwapsACell'
  BY DEF NoSample, Leave, Goto, IInv, TypeOK, ScanTypes, SwapsACell, shared
<1>4. QED
  BY <1>1, <1>2, <1>3 DEF IInv

(* A handler enters the loop only with a cell to swap. *)
LEMMA LoadAverageKeepsIInv ==
  ASSUME IInv, NEW r \in Slots, NEW x \in Samples, LoadAverage(r, x)
  PROVE  IInv'
<1>1. best[r] \in DOMAIN cells
  BY DEF LoadAverage, IInv, TypeOK, ScanTypes
<1>2. ScanIInv'
  <2>1. stage[r] = "started"
    BY DEF LoadAverage, Goto
  <2>2. InPool(r)
    BY <2>1 DEF IInv, ScanIInv, HoldsPoolIndex, ScanStages
  <2>3. QED
    BY <2>1, <2>2, AfterPickStep
       DEF LoadAverage, Goto, IInv, InSelect, Stages, ScanStages, shared, TypeOK, ScanTypes
<1>3. TypeOK'
  BY <1>1, <1>2 DEF LoadAverage, IInv, ScanIInv, TypeOK, ScanTypes
<1>4. CellsBelowMax' /\ SwapsACell'
  BY <1>1 DEF LoadAverage, Goto, IInv, TypeOK, ScanTypes, CellsBelowMax, SwapsACell, shared,
     locals
<1>5. QED
  BY <1>2, <1>3, <1>4 DEF IInv

(* The average that a swap stores fits. *)
LEMMA SwapKeepsIInv ==
  ASSUME IInv, NEW r \in Slots, Swap(r)
  PROVE  IInv'
<1>1. /\ best[r] \in DOMAIN cells
      /\ Ewma(old[r], sample[r]) \in Word
      /\ Ewma(old[r], sample[r]) < W - 1
  BY CellHasValue, AverageFits DEF Swap, Return, Leave, Goto
<1>2. cells' \in [0 .. size - 1 -> Word]
  BY <1>1 DEF Swap, IInv, TypeOK, ScanTypes
<1>3. ScanIInv'
  BY <1>2, LeaveStep DEF Swap, Return, Leave, Goto, IInv
<1>4. TypeOK'
  BY <1>3, ScanAssumption DEF Swap, Return, IInv, ScanIInv, TypeOK, Word
<1>5. CellsBelowMax'
  BY <1>1 DEF Swap, IInv, TypeOK, ScanTypes, CellsBelowMax
<1>6. SwapsACell'
  BY <1>1 DEF Swap, Return, Leave, Goto, IInv, TypeOK, ScanTypes, SwapsACell
<1>7. QED
  BY <1>3, <1>4, <1>5, <1>6 DEF IInv

(* A failed swap remembers a value of the cell. *)
LEMMA SwapFailsKeepsIInv ==
  ASSUME IInv, NEW r \in Slots, SwapFails(r)
  PROVE  IInv'
<1> USE DEF SwapFails, scanVars, shared, locals
<1>1. cells[best[r]] \in Word
  BY CellHasValue
<1>2. ScanIInv'
  BY DEF IInv, ScanIInv, ScanTypes, CellsExist, HoldsPoolIndex, InPool, ScanLocals, Chosen,
     PicksACandidate
<1>3. TypeOK'
  BY <1>1, <1>2, SamplesAssumption DEF IInv, ScanIInv, TypeOK
<1>4. QED
  BY <1>2, <1>3 DEF IInv, CellsBelowMax, SwapsACell

(* A step of something else leaves all of it alone. *)
LEMMA StutterKeepsIInv ==
  ASSUME IInv, UNCHANGED vars PROVE IInv'
<1> USE DEF vars, scanVars, shared, locals, results
<1>1. ScanIInv'
  BY DEF IInv, ScanIInv, ScanTypes, CellsExist, HoldsPoolIndex, InPool, ScanLocals, Chosen,
     PicksACandidate
<1>2. QED
  BY <1>1 DEF IInv, ScanIInv, TypeOK, CellsBelowMax, SwapsACell

(* Every step preserves the invariant. *)
LEMMA NextKeepsIInv == IInv /\ [Next]_vars => IInv'
BY SelectKeepsIInv, OnStartKeepsIInv, NoSampleKeepsIInv, LoadAverageKeepsIInv, SwapKeepsIInv,
   SwapFailsKeepsIInv, StutterKeepsIInv DEF Next, TrySwap

(* IInv is inductive, so it holds in every reachable state. *)
LEMMA Invariance == Spec => []IInv
BY InitIInv, NextKeepsIInv, PTL DEF Spec

(* Every reachable state is well typed. *)
THEOREM TypeCorrect == Spec => []TypeOK
<1>1. IInv => TypeOK
  BY DEF IInv
<1>2. QED
  BY <1>1, Invariance, PTL

(* pick never answers None when the strategy returned candidates, and what *)
(* it answers is one of them.                                              *)
THEOREM PickIsACandidate == Spec => []PicksACandidate
<1>1. IInv => PicksACandidate
  BY DEF IInv, ScanIInv
<1>2. QED
  BY <1>1, Invariance, PTL

-----------------------------------------------------------------------------

(* Only two steps touch the averages: the allocation and a swap. *)
LEMMA CellChanges ==
  ASSUME IInv, Next
  PROVE  \/ UNCHANGED cells
         \/ DOMAIN cells = {}
         \/ \E r \in Slots :
              /\ stage[r] = "swapping" /\ cells[best[r]] = old[r]
              /\ cells' = [cells EXCEPT ![best[r]] = Ewma(old[r], sample[r])]
<1>1. ASSUME NEW r \in Slots, Select(r)
      PROVE  UNCHANGED cells \/ DOMAIN cells = {}
  BY <1>1, SelectFrame DEF IInv, ScanIInv, ScanTypes, Unset
<1>2. ASSUME NEW r \in Slots, OnStart(r) \/ NoSample(r) \/ SwapFails(r)
      PROVE  UNCHANGED cells
  BY <1>2 DEF OnStart, NoSample, SwapFails, scanVars, shared
<1>3. ASSUME NEW r \in Slots, NEW x \in Samples, LoadAverage(r, x)
      PROVE  UNCHANGED cells
  BY <1>3 DEF LoadAverage, shared
<1>4. ASSUME NEW r \in Slots, Swap(r)
      PROVE  /\ stage[r] = "swapping" /\ cells[best[r]] = old[r]
             /\ cells' = [cells EXCEPT ![best[r]] = Ewma(old[r], sample[r])]
  BY <1>4 DEF Swap, Return, Leave, Goto
<1>5. QED
  BY <1>1, <1>2, <1>3, <1>4 DEF Next, TrySwap

(* An average moves towards the sample being recorded and does not pass it. *)
THEOREM AveragesStayAmongSamples == Spec => TowardsASample
<1> DEFINE Moves(i) ==
      \E r \in Slots :
        /\ stage[r] = "swapping" /\ best[r] = i
        /\ IF cells[i] = 0 THEN cells'[i] = sample[r]
                           ELSE Between(cells[i], cells'[i], sample[r])
           Towards == \A i \in DOMAIN cells : cells'[i] # cells[i] => Moves(i)
<1>1. ASSUME IInv, Next PROVE Towards
  <2> SUFFICES ASSUME NEW i \in DOMAIN cells, cells'[i] # cells[i] PROVE Moves(i)
    OBVIOUS
  <2>1. PICK r \in Slots :
          /\ stage[r] = "swapping" /\ cells[best[r]] = old[r]
          /\ cells' = [cells EXCEPT ![best[r]] = Ewma(old[r], sample[r])]
    BY <1>1, CellChanges
  <2>2. best[r] = i /\ cells'[i] = Ewma(cells[i], sample[r])
    BY <2>1
  <2>3. cells[i] \in Nat /\ sample[r] \in Nat
    BY <1>1, <2>1, <2>2, CellHasValue
  <2>4. CASE cells[i] = 0
    BY <2>1, <2>2, <2>4 DEF Ewma
  <2>5. CASE cells[i] # 0
    BY <2>1, <2>2, <2>3, <2>5, EwmaBetween
  <2>6. QED
    BY <2>4, <2>5
<1>2. IInv /\ [Next]_vars => [Towards]_vars
  BY <1>1
<1>3. QED
  BY <1>2, Invariance, PTL DEF Spec, TowardsASample

(* A backend with an average does not become unobserved again. *)
THEOREM ObservedForGood == Spec => StaysObserved
<1> DEFINE Stays == \A i \in DOMAIN cells : cells[i] # 0 => cells'[i] # 0
<1>1. ASSUME IInv, Next PROVE Stays
  <2> SUFFICES ASSUME NEW i \in DOMAIN cells, cells[i] # 0, cells'[i] # cells[i]
               PROVE  cells'[i] # 0
    OBVIOUS
  <2>1. PICK r \in Slots :
          /\ stage[r] = "swapping" /\ cells[best[r]] = old[r]
          /\ cells' = [cells EXCEPT ![best[r]] = Ewma(old[r], sample[r])]
    BY <1>1, CellChanges
  <2>2. best[r] = i /\ cells'[i] = Ewma(cells[i], sample[r])
    BY <2>1
  <2>3. cells[i] \in Nat /\ sample[r] \in Nat
    BY <1>1, <2>1, <2>2, CellHasValue
  <2>4. QED
    BY <2>2, <2>3, EwmaStaysPositive
<1>2. IInv /\ [Next]_vars => [Stays]_vars
  BY <1>1
<1>3. QED
  BY <1>2, Invariance, PTL DEF Spec, StaysObserved

-----------------------------------------------------------------------------
(* The board implements Averages. *)

boardPending == [r \in Slots |-> Waiting(r)]

(* A handler waits with its sample exactly while it tries to swap. *)
LEMMA WaitingIsSwapping ==
  ASSUME IInv, NEW r \in Slots
  PROVE  boardPending[r] # Board!Nothing <=> stage[r] = "swapping"
<1>1. stage[r] = "swapping" => best[r] # -1
  BY DEF IInv, SwapsACell, TypeOK, ScanTypes
<1>2. QED
  BY <1>1 DEF boardPending, Waiting, Board!Nothing, None

(* Only handlers that enter or leave the loop change what is waiting. *)
LEMMA SameWaiting ==
  ASSUME NEW r \in Slots,
         stage'[r] = "swapping" <=> stage[r] = "swapping",
         stage[r] = "swapping" => best'[r] = best[r] /\ sample'[r] = sample[r]
  PROVE  Waiting(r)' = Waiting(r)
BY DEF Waiting

(* select_backend allocates the board or does not show on it. *)
LEMMA SelectOnBoard ==
  ASSUME IInv, NEW r \in Slots, Select(r), UNCHANGED results
  PROVE  [Board!Next]_(Board!avars)
<1>1. /\ \A q \in Slots : /\ stage'[q] \in ScanStages <=> stage[q] \in ScanStages
                          /\ stage[q] \notin ScanStages =>
                               stage'[q] = stage[q] /\ best'[q] = best[q]
      /\ \/ UNCHANGED <<size, cells>>
         \/ size = Unset /\ cells' = [i \in 0 .. size' - 1 |-> 0]
  BY SelectFrame DEF IInv
<1>2. boardPending' = boardPending
  BY <1>1, SameWaiting DEF boardPending, results, ScanStages
<1>3. CASE UNCHANGED cells
  BY <1>2, <1>3 DEF Board!avars, boardPending
<1>4. CASE size = Unset /\ cells' = [i \in 0 .. size' - 1 |-> 0]
  <2>1. cells = [i \in {} |-> 0]
    BY <1>4 DEF IInv, TypeOK, ScanTypes, Unset
  <2>2. size' \in {PoolLen[s] : s \in Services} \/ size' = Unset
    BY SelectStep DEF IInv, ScanIInv, ScanTypes
  <2>3. CASE size' = Unset
    BY <1>2, <1>4, <2>1, <2>3 DEF Board!avars, boardPending, Unset
  <2>4. CASE size' \in {PoolLen[s] : s \in Services}
    BY <1>2, <1>4, <2>1, <2>4 DEF Board!Next, Board!Allocate, boardPending
  <2>5. QED
    BY <2>2, <2>3, <2>4
<1>5. QED
  BY <1>1, <1>3, <1>4

(* The load is where a sample starts to wait. *)
LEMMA LoadAverageOnBoard ==
  ASSUME IInv, NEW r \in Slots, NEW x \in Samples, LoadAverage(r, x)
  PROVE  Board!Measure(r, best[r], x) /\ best[r] \in DOMAIN cells
<1>1. /\ stage[r] = "started" /\ stage'[r] = "swapping"
      /\ best' = best /\ sample'[r] = x /\ cells' = cells
      /\ best[r] \in DOMAIN cells
  BY DEF LoadAverage, Goto, IInv, TypeOK, ScanTypes, shared, locals
<1>2. boardPending[r] = Board!Nothing
  BY <1>1, WaitingIsSwapping
<1>3. \A q \in Slots : q # r => Waiting(q)' = Waiting(q)
  BY SameWaiting DEF LoadAverage, Goto, IInv, TypeOK, ScanTypes, locals
<1>4. Waiting(r)' = [index |-> best[r], sample |-> x]
  BY <1>1 DEF Waiting
<1>5. boardPending' = [boardPending EXCEPT ![r] = [index |-> best[r], sample |-> x]]
  BY <1>3, <1>4 DEF boardPending
<1>6. QED
  BY <1>1, <1>2, <1>5 DEF Board!Measure, boardPending

(* The successful compare-exchange is where it is recorded. *)
LEMMA SwapOnBoard ==
  ASSUME IInv, NEW r \in Slots, Swap(r)
  PROVE  Board!Record(r)
<1>1. /\ stage[r] = "swapping" /\ stage'[r] # "swapping"
      /\ cells[best[r]] = old[r] /\ best[r] \in DOMAIN cells
      /\ cells' = [cells EXCEPT ![best[r]] = Ewma(old[r], sample[r])]
  BY CellHasValue DEF Swap, Return, Leave, Goto, IInv, TypeOK, ScanTypes
<1>2. boardPending[r] # Board!Nothing
  BY <1>1, WaitingIsSwapping
<1>3. boardPending[r].index = best[r] /\ boardPending[r].sample = sample[r]
  BY <1>1 DEF boardPending, Waiting
<1>4. \A q \in Slots : q # r => Waiting(q)' = Waiting(q)
  BY SameWaiting DEF Swap, Return, Leave, Goto, IInv, TypeOK, ScanTypes
<1>5. Waiting(r)' = Board!Nothing
  BY <1>1 DEF Waiting, Board!Nothing, None
<1>6. boardPending' = [boardPending EXCEPT ![r] = Board!Nothing]
  BY <1>4, <1>5 DEF boardPending
<1>7. cells' = [cells EXCEPT ![boardPending[r].index] =
                  Board!Ewma(cells[boardPending[r].index], boardPending[r].sample)]
  BY <1>1, <1>3 DEF Board!Ewma, Ewma
<1>8. QED
  BY <1>2, <1>6, <1>7 DEF Board!Record, boardPending

(* The other steps do not show on the board. *)
LEMMA HiddenOnBoard ==
  ASSUME IInv, NEW r \in Slots, OnStart(r) \/ NoSample(r) \/ SwapFails(r)
  PROVE  UNCHANGED (Board!avars)
<1>1. UNCHANGED cells
  BY DEF OnStart, NoSample, SwapFails, scanVars, shared
<1>2. \A q \in Slots : Waiting(q)' = Waiting(q)
  <2>1. CASE OnStart(r)
    BY <2>1, SameWaiting DEF OnStart, Goto, IInv, TypeOK, ScanTypes, locals, results
  <2>2. CASE NoSample(r)
    BY <2>2, SameWaiting DEF NoSample, Leave, Goto, IInv, TypeOK, ScanTypes, results
  <2>3. CASE SwapFails(r)
    BY <2>3, SameWaiting DEF SwapFails, scanVars, locals
  <2>4. QED
    BY <2>1, <2>2, <2>3
<1>3. QED
  BY <1>1, <1>2 DEF Board!avars

(* Whatever handlers race on an average, each sample measured is folded in *)
(* once, and from the average as it then is: no update is lost.            *)
THEOREM BoardIsAverages == Spec => Board!SafeSpec
<1>1. Init => Board!Init
  <2>1. Init => \A r \in Slots : Waiting(r) = Board!Nothing
    BY DEF Init, ScanInit, Waiting, Board!Nothing, None
  <2>2. QED
    BY <2>1 DEF Init, ScanInit, Board!Init
<1>2. IInv /\ [Next]_vars => [Board!Next]_(Board!avars)
  <2>1. ASSUME IInv, UNCHANGED vars PROVE UNCHANGED (Board!avars)
    BY <2>1 DEF vars, scanVars, shared, locals, results, Board!avars, Waiting
  <2>2. ASSUME IInv, NEW r \in Slots, NEW x \in Samples, LoadAverage(r, x)
        PROVE  Board!Next
    BY <2>2, LoadAverageOnBoard DEF Board!Next
  <2>3. ASSUME IInv, NEW r \in Slots, Swap(r)
        PROVE  Board!Next
    BY <2>3, SwapOnBoard DEF Board!Next
  <2>4. QED
    BY <2>1, <2>2, <2>3, SelectOnBoard, HiddenOnBoard DEF Next, TrySwap
<1>3. QED
  BY <1>1, <1>2, Invariance, PTL DEF Spec, Board!SafeSpec

=============================================================================
