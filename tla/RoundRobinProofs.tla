-------------------------- MODULE RoundRobinProofs --------------------------
(***************************************************************************)
(* TurnsAreEven of RoundRobin for a policy object that one service uses:   *)
(* for any number of overlapping calls, any candidate list whose length    *)
(* divides the counter's range (as a power of two does) and that names no  *)
(* index twice.                                                            *)
(*                                                                         *)
(* The invariant ties the turns to the counter: the candidates before the  *)
(* one that is due have had one turn more than the rest, counting the      *)
(* turns that a call has taken and not returned yet.                       *)
(***************************************************************************)
EXTENDS RoundRobin, NumbersAndLists, FiniteSetTheorems, WellFoundedInduction

(* One service's policy, with a list whose rotation the wrap does not break. *)
Rotation(s) ==
  /\ Services = {s}
  /\ Candidates[s] # <<>>
  /\ W % Len(Candidates[s]) = 0
  /\ \A k, l \in DOMAIN Candidates[s] : Candidates[s][k] = Candidates[s][l] => k = l

Types(s) ==
  /\ next \in 0 .. W - 1
  /\ stage \in [Slots -> {"idle", "taken"}]
  /\ service = [r \in Slots |-> s]
  /\ taken \in [Slots -> 0 .. W - 1]
  /\ served = [t \in Services |-> served[s]]
  /\ served[s] \in [Indices(s) -> Nat]

(* Turns of the k-th candidate, and its part of an unfinished round. *)
Total(s, i) == served[s][i] + InHand(s, i)
Extra(s, k) == IF k <= next % Len(Candidates[s]) THEN 1 ELSE 0

IInv(s) ==
  /\ Types(s)
  /\ \A k, l \in DOMAIN Candidates[s] :
       Total(s, Candidates[s][k]) - Total(s, Candidates[s][l]) = Extra(s, k) - Extra(s, l)

-----------------------------------------------------------------------------

(* The counter's wrap keeps step with the list. *)
LEMMA CounterStep ==
  ASSUME NEW n \in 0 .. W - 1, NEW d \in Nat \ {0}, W % d = 0
  PROVE  ((n + 1) % W) % d = IF n % d = d - 1 THEN 0 ELSE (n % d) + 1
<1>1. W \in Nat /\ W > 1
  BY RotationAssumption
<1>2. CASE n + 1 < W
  <2>1. (n + 1) % W = n + 1
    BY <1>1, <1>2
  <2> QED
    BY <2>1, NextRemainder
<1>3. CASE n + 1 = W
  <2>1. (n + 1) % W = 0 /\ (n + 1) % d = 0
    BY <1>1, <1>3
  <2>2. 0 % d = 0
    OBVIOUS
  <2> QED
    BY <2>1, <2>2, NextRemainder
<1> QED
  BY <1>1, <1>2, <1>3

(* Taking the least count off all of them changes no difference. *)
LEMMA LevelKeepsDifferences ==
  ASSUME NEW D, D # {}, NEW count \in [D -> Nat]
  PROVE  /\ Level(count) \in [D -> Nat]
         /\ \A i, j \in D : Level(count)[i] - Level(count)[j] = count[i] - count[j]
<1> DEFINE S == {count[i] : i \in D}
<1>1. S \subseteq Nat /\ S # {}
  OBVIOUS
<1>2. PICK least \in S : \A y \in S : least <= y
  <2> DEFINE R == OpToRel(<, Nat)
  <2>1. IsWellFoundedOn(R, Nat)
    BY NatLessThanWellFounded
  <2>2. \A y, x \in Nat : y < x => <<y, x>> \in R
    BY DEF OpToRel
  <2> HIDE DEF R, S
  <2>3. PICK x \in S : \A y \in S : ~(<<y, x>> \in R)
    BY <1>1, <2>1, WFMin
  <2>4. ASSUME NEW y \in S PROVE x <= y
    <3>1. x \in Nat /\ y \in Nat /\ ~(<<y, x>> \in R)
      BY <1>1, <2>3
    <3> QED
      BY <2>2, <3>1
  <2> QED
    BY <2>4
<1>3. Min(S) \in S /\ \A y \in S : Min(S) <= y
  BY <1>2 DEF Min
<1>4. Level(count) = [i \in D |-> count[i] - Min(S)]
  BY DEF Level
<1>5. ASSUME NEW i \in D
      PROVE  count[i] \in S /\ count[i] \in Nat /\ Min(S) \in Nat /\ Min(S) <= count[i]
  BY <1>1, <1>3
<1>6. \A i \in D : Level(count)[i] = count[i] - Min(S)
  BY <1>4
<1> HIDE DEF S
<1>7. \A i \in D : count[i] - Min(S) \in Nat
  BY <1>5
<1>8. Level(count) \in [D -> Nat]
  BY <1>4, <1>7
<1> QED
  BY <1>5, <1>6, <1>8

-----------------------------------------------------------------------------
(* Turns in hand. *)

Held(s, i) == {r \in Slots : stage[r] = "taken" /\ service[r] = s /\ Turn(s, taken[r]) = i}

(* They are finitely many. *)
LEMMA HeldIsFinite ==
  ASSUME NEW s, NEW i
  PROVE  /\ InHand(s, i) = Cardinality(Held(s, i)) /\ InHand(s, i) \in Nat
         /\ IsFiniteSet(Held(s, i))
<1>1. InHand(s, i) = Cardinality(Held(s, i))
  BY DEF InHand, Held
<1>2. Held(s, i) \in SUBSET Slots
  BY DEF Held
<1>3. IsFiniteSet(Held(s, i))
  BY <1>2, FS_Subset, RotationAssumption
<1> QED
  BY <1>1, <1>3, FS_CardinalityType

(* A list's candidates are its indices, and a turn is one of them. *)
LEMMA TurnIsACandidate ==
  ASSUME NEW s, Rotation(s), NEW n \in Nat
  PROVE  /\ (n % Len(Candidates[s])) + 1 \in DOMAIN Candidates[s]
         /\ Turn(s, n) = Candidates[s][(n % Len(Candidates[s])) + 1]
         /\ Turn(s, n) \in Indices(s)
<1> DEFINE C == Candidates[s]
<1> DEFINE d == Len(C)
<1>1. C \in Seq(Nat) /\ d \in Nat \ {0} /\ DOMAIN C = 1 .. d
  BY RotationAssumption DEF Rotation
<1>2. Turn(s, n) = C[(n % d) + 1] /\ Indices(s) = {C[k] : k \in DOMAIN C}
  BY DEF Turn, Indices
<1> HIDE DEF C, d
<1>3. n % d \in 0 .. d - 1
  BY <1>1
<1>4. (n % d) + 1 \in DOMAIN C
  BY <1>1, <1>3
<1> QED
  BY <1>2, <1>4 DEF C, d

(* fetch_add puts one turn in hand: the one that is due. *)
LEMMA FetchAddTakes ==
  ASSUME NEW s, Types(s), NEW r \in Slots, FetchAdd(r, s), NEW i
  PROVE  InHand(s, i)' = InHand(s, i) + (IF i = Turn(s, next) THEN 1 ELSE 0)
<1>1. r \notin Held(s, i)
  BY DEF FetchAdd, Held
<1>2. /\ stage'[r] = "taken" /\ service'[r] = s /\ taken'[r] = next
      /\ \A q \in Slots \ {r} : /\ stage'[q] = stage[q] /\ service'[q] = service[q]
                                /\ taken'[q] = taken[q]
  BY DEF FetchAdd, Types
<1>3. Turn(s, taken[r])' = Turn(s, next)
      /\ \A q \in Slots \ {r} : Turn(s, taken[q])' = Turn(s, taken[q])
  BY <1>2 DEF Turn
<1> DEFINE m == InHand(s, i)
<1> DEFINE mp == InHand(s, i)'
<1>4. m = Cardinality(Held(s, i)) /\ m \in Nat /\ IsFiniteSet(Held(s, i))
  BY HeldIsFinite
<1>5. mp = Cardinality(Held(s, i)')
  BY DEF InHand, Held
<1> HIDE DEF m, mp
<1>6. CASE i = Turn(s, next)
  <2>1. Held(s, i)' = Held(s, i) \union {r}
    BY <1>2, <1>3, <1>6 DEF Held
  <2> QED
    BY <1>1, <1>6, <1>4, <1>5, <2>1, FS_AddElement DEF m, mp
<1>7. CASE i # Turn(s, next)
  <2>1. Held(s, i)' = Held(s, i)
    BY <1>1, <1>2, <1>3, <1>7 DEF Held
  <2> QED
    BY <1>7, <1>4, <1>5, <2>1 DEF m, mp
<1> QED
  BY <1>6, <1>7

(* Returning a pick takes its turn out of hand. *)
LEMMA ReturnPickGives ==
  ASSUME NEW s, Types(s), NEW r \in Slots, ReturnPick(r), NEW i
  PROVE  InHand(s, i)' = InHand(s, i) - (IF i = Turn(s, taken[r]) THEN 1 ELSE 0)
<1>1. stage[r] = "taken" /\ service[r] = s
  BY DEF ReturnPick, Types
<1>2. /\ stage'[r] = "idle"
      /\ \A q \in Slots \ {r} : /\ stage'[q] = stage[q] /\ service'[q] = service[q]
                                /\ taken'[q] = taken[q]
  BY DEF ReturnPick, Types
<1>3. \A q \in Slots \ {r} : Turn(s, taken[q])' = Turn(s, taken[q])
  BY <1>2 DEF Turn
<1> DEFINE m == InHand(s, i)
<1> DEFINE mp == InHand(s, i)'
<1>4. m = Cardinality(Held(s, i)) /\ m \in Nat /\ IsFiniteSet(Held(s, i))
  BY HeldIsFinite
<1>5. mp = Cardinality(Held(s, i)')
  BY DEF InHand, Held
<1> HIDE DEF m, mp
<1>6. CASE i = Turn(s, taken[r])
  <2>1. r \in Held(s, i)
    BY <1>1, <1>6 DEF Held
  <2>2. Held(s, i)' = Held(s, i) \ {r}
    BY <1>2, <1>3 DEF Held
  <2> QED
    BY <1>6, <1>4, <1>5, <2>1, <2>2, FS_RemoveElement, FS_CardinalityType DEF m, mp
<1>7. CASE i # Turn(s, taken[r])
  <2>1. Held(s, i)' = Held(s, i)
    BY <1>1, <1>2, <1>3, <1>7 DEF Held
  <2> QED
    BY <1>7, <1>4, <1>5, <2>1 DEF m, mp
<1> QED
  BY <1>6, <1>7

-----------------------------------------------------------------------------
(* The invariant. *)

(* Nothing is taken at the start. *)
LEMMA InitIInv ==
  ASSUME NEW s, Rotation(s), Init
  PROVE  IInv(s)
<1>1. s \in Services /\ (CHOOSE t \in Services : TRUE) = s
  BY DEF Rotation
<1>2. Types(s)
  <2>1. 0 \in 0 .. W - 1
    BY RotationAssumption
  <2>2. Services = {s}
    BY DEF Rotation
  <2>3. served = [t \in Services |-> served[s]] /\ served[s] \in [Indices(s) -> Nat]
    BY <2>2 DEF Init
  <2>4. service = [r \in Slots |-> s]
    BY <1>1 DEF Init
  <2> QED
    BY <2>1, <2>3, <2>4 DEF Init, Types
<1>3. ASSUME NEW k \in DOMAIN Candidates[s]
      PROVE  Total(s, Candidates[s][k]) = 0 /\ Extra(s, k) = 0
  <2>1. Held(s, Candidates[s][k]) = {}
    BY DEF Init, Held
  <2>2. InHand(s, Candidates[s][k]) = 0
    BY <2>1, HeldIsFinite, FS_EmptySet
  <2>3. served[s][Candidates[s][k]] = 0
    BY <1>1 DEF Init, Indices
  <2>4. Candidates[s] \in Seq(Nat) /\ Len(Candidates[s]) \in Nat \ {0}
    BY <1>1, RotationAssumption DEF Rotation
  <2>5. \A d \in Nat \ {0} : 0 % d = 0
    OBVIOUS
  <2>6. next % Len(Candidates[s]) = 0 /\ k \in 1 .. Len(Candidates[s])
    <3>1. next = 0
      BY DEF Init
    <3>2. k \in 1 .. Len(Candidates[s])
      BY <2>4
    <3> QED
      BY <2>4, <2>5, <3>1, <3>2
  <2> QED
    BY <2>2, <2>3, <2>6 DEF Total, Extra
<1> QED
  BY <1>2, <1>3 DEF IInv

(* The turn that is due goes to the candidate whose turn it is. *)
LEMMA FetchAddKeeps ==
  ASSUME NEW s, Rotation(s), IInv(s), NEW r \in Slots, FetchAdd(r, s)
  PROVE  IInv(s)'
<1> DEFINE C == Candidates[s]
<1> DEFINE d == Len(Candidates[s])
<1>1. Types(s) /\ s \in Services
  BY DEF IInv, Rotation
<1>2. C \in Seq(Nat) /\ d \in Nat \ {0} /\ W % d = 0 /\ DOMAIN C = 1 .. d
  BY <1>1, RotationAssumption DEF Rotation
<1>3. Types(s)'
  <2>1. next' \in 0 .. W - 1
    BY <1>1, RotationAssumption DEF FetchAdd, Types
  <2> QED
    BY <1>1, <2>1 DEF FetchAdd, Types
<1>4. next' % d = IF next % d = d - 1 THEN 0 ELSE (next % d) + 1
  BY <1>1, <1>2, CounterStep DEF FetchAdd, Types
<1>5. next % d \in 0 .. d - 1
  BY <1>1, <1>2, RotationAssumption DEF Types
<1>6. ASSUME NEW k \in DOMAIN C
      PROVE  /\ Total(s, C[k]) \in Nat
             /\ Total(s, C[k])' = Total(s, C[k]) + (IF k = (next % d) + 1 THEN 1 ELSE 0)
  <2>1. C[k] \in Indices(s)
    BY DEF Indices
  <2>2. InHand(s, C[k]) \in Nat /\ served[s][C[k]] \in Nat
    BY <1>1, <2>1, HeldIsFinite DEF Types
  <2>3. next \in Nat
    BY <1>1, RotationAssumption DEF Types
  <2>4. (C[k] = Turn(s, next)) <=> (k = (next % d) + 1)
    BY <2>3, TurnIsACandidate DEF Rotation
  <2>5. InHand(s, C[k])' = InHand(s, C[k]) + (IF k = (next % d) + 1 THEN 1 ELSE 0)
    BY <1>1, <2>4, FetchAddTakes
  <2>6. served'[s][C[k]] = served[s][C[k]]
    BY DEF FetchAdd
  <2> QED
    BY <2>2, <2>5, <2>6 DEF Total
<1>7. ASSUME NEW k \in DOMAIN C, NEW l \in DOMAIN C
      PROVE  Total(s, C[k])' - Total(s, C[l])' = Extra(s, k)' - Extra(s, l)'
  <2>1. Total(s, C[k]) - Total(s, C[l]) = Extra(s, k) - Extra(s, l)
    BY DEF IInv
  <2>2. /\ Extra(s, k) = (IF k <= next % d THEN 1 ELSE 0)
        /\ Extra(s, l) = (IF l <= next % d THEN 1 ELSE 0)
        /\ Extra(s, k)' = (IF k <= next' % d THEN 1 ELSE 0)
        /\ Extra(s, l)' = (IF l <= next' % d THEN 1 ELSE 0)
    BY DEF Extra
  <2>3. k \in 1 .. d /\ l \in 1 .. d
    BY <1>2
  <2>4. /\ Total(s, C[k])' = Total(s, C[k]) + (IF k = (next % d) + 1 THEN 1 ELSE 0)
        /\ Total(s, C[l])' = Total(s, C[l]) + (IF l = (next % d) + 1 THEN 1 ELSE 0)
        /\ Total(s, C[k]) \in Nat /\ Total(s, C[l]) \in Nat
    BY <1>6
  <2> DEFINE tk == Total(s, C[k])
  <2> DEFINE tl == Total(s, C[l])
  <2> DEFINE m == next % d
  <2> DEFINE mp == next' % d
  <2>5. /\ Total(s, C[k])' - Total(s, C[l])'
             = (tk + (IF k = m + 1 THEN 1 ELSE 0)) - (tl + (IF l = m + 1 THEN 1 ELSE 0))
        /\ Extra(s, k)' - Extra(s, l)'
             = (IF k <= mp THEN 1 ELSE 0) - (IF l <= mp THEN 1 ELSE 0)
        /\ tk - tl = (IF k <= m THEN 1 ELSE 0) - (IF l <= m THEN 1 ELSE 0)
    BY <2>1, <2>2, <2>4
  <2>6. tk \in Nat /\ tl \in Nat /\ m \in 0 .. d - 1
        /\ mp = IF m = d - 1 THEN 0 ELSE m + 1
    BY <1>4, <1>5, <2>4
  <2> HIDE DEF C, d, tk, tl, m, mp
  <2>7. CASE m = d - 1
    BY <1>2, <2>3, <2>5, <2>6, <2>7
  <2>8. CASE m # d - 1
    BY <1>2, <2>3, <2>5, <2>6, <2>8
  <2> QED
    BY <2>7, <2>8
<1> QED
  BY <1>3, <1>7 DEF IInv

(* A turn that is returned was counted when it was taken. *)
LEMMA ReturnPickKeeps ==
  ASSUME NEW s, Rotation(s), IInv(s), NEW r \in Slots, ReturnPick(r)
  PROVE  IInv(s)'
<1> DEFINE i == Turn(s, taken[r])
<1> DEFINE count == [served[s] EXCEPT ![i] = served[s][i] + 1]
<1>1. Types(s) /\ s \in Services /\ service[r] = s
  BY DEF IInv, Rotation, Types
<1>2. i \in Indices(s) /\ served[s] \in [Indices(s) -> Nat]
  BY <1>1, TurnIsACandidate, RotationAssumption DEF Types
<1>3. count \in [Indices(s) -> Nat]
  BY <1>2
<1>4. served' = [served EXCEPT ![s] = Level(count)]
  <2>1. service[r] = s
    BY <1>1
  <2> QED
    BY <2>1 DEF ReturnPick
<1>5. served'[s] = Level(count)
  <2>1. s \in DOMAIN served
    BY <1>1 DEF Types
  <2>2. \A f : [served EXCEPT ![s] = f][s] = f
    BY <2>1
  <2> HIDE DEF count
  <2> QED
    BY <1>4, <2>2
<1>6. /\ Level(count) \in [Indices(s) -> Nat]
      /\ \A a, b \in Indices(s) : Level(count)[a] - Level(count)[b] = count[a] - count[b]
  <2>1. Indices(s) # {}
    BY <1>2
  <2> HIDE DEF count
  <2> QED
    BY <1>3, <2>1, LevelKeepsDifferences
<1>7. Types(s)'
  <2>1. served' = [t \in Services |-> served'[s]]
    BY <1>1, <1>4 DEF Types, Rotation
  <2>2. served'[s] \in [Indices(s) -> Nat]
    BY <1>5, <1>6
  <2>3. 0 \in 0 .. W - 1
    BY RotationAssumption
  <2> QED
    BY <1>1, <2>1, <2>2, <2>3 DEF Types, ReturnPick, Indices
<1>8. ASSUME NEW k \in DOMAIN Candidates[s], NEW l \in DOMAIN Candidates[s]
      PROVE  Total(s, Candidates[s][k])' - Total(s, Candidates[s][l])'
               = Extra(s, k)' - Extra(s, l)'
  <2> DEFINE a == Candidates[s][k]
  <2> DEFINE b == Candidates[s][l]
  <2>1. a \in Indices(s) /\ b \in Indices(s)
    BY DEF Indices
  <2>2. /\ count[a] = served[s][a] + (IF a = i THEN 1 ELSE 0)
        /\ count[b] = served[s][b] + (IF b = i THEN 1 ELSE 0)
    BY <1>2, <2>1
  <2>3. /\ InHand(s, a)' = InHand(s, a) - (IF a = i THEN 1 ELSE 0)
        /\ InHand(s, b)' = InHand(s, b) - (IF b = i THEN 1 ELSE 0)
    BY <1>1, ReturnPickGives
  <2>4. /\ InHand(s, a) \in Nat /\ InHand(s, b) \in Nat
        /\ served[s][a] \in Nat /\ served[s][b] \in Nat
        /\ Level(count)[a] \in Nat /\ Level(count)[b] \in Nat
    BY <1>2, <1>6, <2>1, HeldIsFinite
  <2>5. Total(s, a) - Total(s, b) = Extra(s, k) - Extra(s, l)
    BY DEF IInv
  <2>6. Extra(s, k)' = Extra(s, k) /\ Extra(s, l)' = Extra(s, l)
    BY DEF ReturnPick, Extra
  <2>7. /\ Total(s, a)' = Level(count)[a] + InHand(s, a)'
        /\ Total(s, b)' = Level(count)[b] + InHand(s, b)'
        /\ Total(s, a) = served[s][a] + InHand(s, a)
        /\ Total(s, b) = served[s][b] + InHand(s, b)
    BY <1>5 DEF Total
  <2>8. Level(count)[a] - Level(count)[b] = count[a] - count[b]
    BY <1>6, <2>1
  <2> DEFINE ha == InHand(s, a)
  <2> DEFINE hb == InHand(s, b)
  <2> DEFINE ea == IF a = i THEN 1 ELSE 0
  <2> DEFINE eb == IF b = i THEN 1 ELSE 0
  <2>9. /\ Total(s, a)' = Level(count)[a] + (ha - ea)
         /\ Total(s, b)' = Level(count)[b] + (hb - eb)
         /\ Total(s, a) = served[s][a] + ha
         /\ Total(s, b) = served[s][b] + hb
         /\ Level(count)[a] - Level(count)[b] = (served[s][a] + ea) - (served[s][b] + eb)
    BY <2>2, <2>3, <2>7, <2>8
  <2>10. ea \in 0 .. 1 /\ eb \in 0 .. 1 /\ ha \in Nat /\ hb \in Nat
    BY <2>4
  <2> HIDE DEF a, b, i, count, ha, hb, ea, eb
  <2>11. Total(s, a)' - Total(s, b)' = Total(s, a) - Total(s, b)
    BY <2>4, <2>9, <2>10
  <2> QED
    BY <2>5, <2>6, <2>11 DEF a, b
<1> QED
  BY <1>7, <1>8 DEF IInv

(* Every step keeps the invariant. *)
LEMMA NextIInv ==
  ASSUME NEW s, Rotation(s), IInv(s), [Next]_vars
  PROVE  IInv(s)'
<1>1. CASE UNCHANGED vars
  BY <1>1 DEF IInv, Types, Total, Extra, InHand, vars
<1>2. ASSUME NEW r \in Slots, NEW t \in Services, FetchAdd(r, t)
      PROVE  IInv(s)'
  <2>1. t = s
    BY DEF Rotation
  <2> QED
    BY <1>2, <2>1, FetchAddKeeps
<1>3. ASSUME NEW r \in Slots, ReturnPick(r)
      PROVE  IInv(s)'
  BY <1>3, ReturnPickKeeps
<1> QED
  BY <1>1, <1>2, <1>3 DEF Next

(* The turns differ by a part of one round at most. *)
LEMMA InvariantImpliesEven ==
  ASSUME NEW s, Rotation(s), IInv(s)
  PROVE  TurnsAreEven
<1> SUFFICES ASSUME NEW i \in Indices(s), NEW j \in Indices(s)
             PROVE  served[s][i] + InHand(s, i) <= served[s][j] + InHand(s, j) + 1
  BY DEF TurnsAreEven, Rotation
<1>1. PICK k \in DOMAIN Candidates[s] : i = Candidates[s][k]
  BY DEF Indices
<1>2. PICK l \in DOMAIN Candidates[s] : j = Candidates[s][l]
  BY DEF Indices
<1>3. Total(s, i) - Total(s, j) = Extra(s, k) - Extra(s, l)
  BY <1>1, <1>2 DEF IInv
<1>4. Extra(s, k) \in {0, 1} /\ Extra(s, l) \in {0, 1}
  BY DEF Extra
<1>5. /\ served[s][i] \in Nat /\ served[s][j] \in Nat
      /\ InHand(s, i) \in Nat /\ InHand(s, j) \in Nat
  BY HeldIsFinite DEF IInv, Types
<1> QED
  BY <1>3, <1>4, <1>5 DEF Total

-----------------------------------------------------------------------------

(* The candidates of a service that has its policy object to itself get    *)
(* the same number of turns, give or take one.                             *)
THEOREM TurnsStayEven ==
  ASSUME NEW s, Rotation(s)
  PROVE  Spec => []TurnsAreEven
<1>1. Init => IInv(s)
  BY InitIInv
<1>2. IInv(s) /\ [Next]_vars => IInv(s)'
  BY NextIInv
<1>3. IInv(s) => TurnsAreEven
  BY InvariantImpliesEven
<1> QED
  BY <1>1, <1>2, <1>3, PTL DEF Spec
=============================================================================
