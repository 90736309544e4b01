-------------------------- MODULE NumbersAndLists --------------------------
(***************************************************************************)
(* What the proofs need of numbers and lists: truncating division, as the  *)
(* code's unsigned integers divide, least and greatest members, and lists  *)
(* of members of any kind, as the operators on sequences make them.        *)
(***************************************************************************)
EXTENDS Integers, Sequences, FiniteSetsExt, TLAPS, SequenceTheorems, WellFoundedInduction

(* Truncating division by d, as the linear facts it stands for. *)
LEMMA Truncation ==
  ASSUME NEW n \in Nat, NEW d \in Nat \ {0}
  PROVE  n \div d \in Nat /\ d * (n \div d) <= n /\ n < d * (n \div d) + d
OBVIOUS

(* A quotient is at least q when q times the divisor fits. *)
LEMMA QuotientAtLeast ==
  ASSUME NEW n \in Nat, NEW d \in Nat \ {0}, NEW q \in Nat, d * q <= n
  PROVE  n \div d >= q
<1> DEFINE r == n \div d
<1>1. r \in Nat /\ n < d * r + d
  BY Truncation
<1> HIDE DEF r
<1>2. SUFFICES ASSUME r + 1 <= q PROVE FALSE
  BY <1>1 DEF r
<1>3. d * (r + 1) <= d * q
  BY <1>1, <1>2
<1>4. d * (r + 1) = d * r + d
  BY <1>1
<1>5. QED
  BY <1>1, <1>3, <1>4

(* A quotient is below q when q times the divisor does not fit. *)
LEMMA QuotientBelow ==
  ASSUME NEW n \in Nat, NEW d \in Nat \ {0}, NEW q \in Nat, n < d * q
  PROVE  n \div d < q
<1> DEFINE r == n \div d
<1>1. r \in Nat /\ d * r <= n
  BY Truncation
<1> HIDE DEF r
<1>2. SUFFICES ASSUME q <= r PROVE FALSE
  BY <1>1 DEF r
<1>3. d * q <= d * r
  BY <1>1, <1>2
<1>4. QED
  BY <1>1, <1>3

(* A number is a multiple of d and a remainder. *)
LEMMA Divided ==
  ASSUME NEW n \in Nat, NEW d \in Nat \ {0}
  PROVE  n \div d \in Nat /\ n % d \in 0 .. d - 1 /\ n = d * (n \div d) + (n % d)
OBVIOUS

(* In one way only. *)
LEMMA RemainderIs ==
  ASSUME NEW n \in Nat, NEW d \in Nat \ {0}, NEW q \in Nat, NEW m \in 0 .. d - 1,
         n = d * q + m
  PROVE  n % d = m
<1> DEFINE p == n \div d
           o == n % d
<1>1. p \in Nat /\ o \in 0 .. d - 1 /\ n = d * p + o
  BY Divided
<1> HIDE DEF o
<1>2. d * (q + 1) = d * q + d
  OBVIOUS
<1>3. p >= q
  BY QuotientAtLeast
<1>4. p < q + 1
  BY <1>2, QuotientBelow
<1>5. p = q
  BY <1>1, <1>3, <1>4
<1>6. QED
  BY <1>1, <1>5 DEF o

(* The remainder of a successor. *)
LEMMA NextRemainder ==
  ASSUME NEW n \in Nat, NEW d \in Nat \ {0}
  PROVE  (n + 1) % d = IF n % d = d - 1 THEN 0 ELSE (n % d) + 1
<1> DEFINE q == n \div d
           m == n % d
<1>1. q \in Nat /\ m \in 0 .. d - 1 /\ n = d * q + m
  BY Divided
<1> HIDE DEF q
<1> HIDE DEF m
<1>2. CASE m = d - 1
  <2>1. d * (q + 1) = d * q + d
    BY <1>1
  <2>2. n + 1 = d * (q + 1) + 0 /\ q + 1 \in Nat /\ 0 \in 0 .. d - 1
    BY <1>1, <1>2, <2>1
  <2>3. (n + 1) % d = 0
    BY <2>2, RemainderIs
  <2>4. QED
    BY <1>2, <2>3 DEF m
<1>3. CASE m # d - 1
  <2>1. n + 1 = d * q + (m + 1) /\ m + 1 \in 0 .. d - 1
    BY <1>1, <1>3
  <2>2. (n + 1) % d = m + 1
    BY <1>1, <2>1, RemainderIs
  <2>3. QED
    BY <1>3, <2>2 DEF m
<1>4. QED
  BY <1>2, <1>3

(* Wrapping at a multiple of d changes no remainder by d. *)
LEMMA RemainderOfWrapped ==
  ASSUME NEW n \in Nat, NEW w \in Nat \ {0}, NEW d \in Nat \ {0}, w % d = 0
  PROVE  (n % w) % d = n % d
<1> DEFINE m == n % w
           c == n \div w
           g == w \div d
           e == m \div d
           f == m % d
<1>1. c \in Nat /\ m \in Nat /\ n = w * c + m
  BY Divided
<1>2. g \in Nat /\ w = d * g
  BY Divided
<1>3. e \in Nat /\ f \in 0 .. d - 1 /\ m = d * e + f
  BY <1>1, Divided
<1>4. f = m % d /\ m = n % w
  OBVIOUS
<1> HIDE DEF m, c, g, e, f
<1>5. w * c = d * (g * c)
  BY <1>1, <1>2
<1>6. d * (g * c) + d * e = d * (g * c + e) /\ g * c + e \in Nat
  BY <1>1, <1>2, <1>3
<1>7. n = d * (g * c + e) + f
  BY <1>1, <1>3, <1>5, <1>6
<1>8. n % d = f
  BY <1>3, <1>6, <1>7, RemainderIs
<1>9. QED
  BY <1>4, <1>8

(* The remainder of a sum, when the second part is below d. *)
LEMMA RemainderOfSum ==
  ASSUME NEW n \in Nat, NEW d \in Nat \ {0}, NEW x \in Nat, x - n \in 0 .. d - 1
  PROVE  x % d = IF (n % d) + (x - n) < d THEN (n % d) + (x - n) ELSE (n % d) + (x - n) - d
<1> DEFINE q == n \div d
           m == n % d
           t == x - n
<1>1. q \in Nat /\ m \in 0 .. d - 1 /\ n = d * q + m
  BY Divided
<1>2. t \in 0 .. d - 1 /\ x = n + t
  OBVIOUS
<1> HIDE DEF q, m, t
<1>3. CASE m + t < d
  <2>1. x = d * q + (m + t) /\ m + t \in 0 .. d - 1
    BY <1>1, <1>2, <1>3
  <2>2. x % d = m + t
    BY <1>1, <2>1, RemainderIs
  <2>3. QED
    BY <1>3, <2>2 DEF m, t
<1>4. CASE ~(m + t < d)
  <2>1. d * (q + 1) = d * q + d /\ q + 1 \in Nat
    BY <1>1
  <2>2. x = d * (q + 1) + (m + t - d) /\ m + t - d \in 0 .. d - 1
    BY <1>1, <1>2, <1>4, <2>1
  <2>3. x % d = m + t - d
    BY <2>1, <2>2, RemainderIs
  <2>4. QED
    BY <1>4, <2>3 DEF m, t
<1>5. QED
  BY <1>3, <1>4

-----------------------------------------------------------------------------
(* A list, of whatever kind of members. *)
IsList(s) == \E S : s \in Seq(S)

(* The length and the domain of a list, and when it is empty. *)
LEMMA SeqFacts ==
  ASSUME NEW s, IsList(s)
  PROVE  Len(s) \in Nat /\ DOMAIN s = 1 .. Len(s) /\ (s = <<>>) = (Len(s) = 0)
BY EmptySeq, LenProperties DEF IsList

(* What appending does to a list. *)
LEMMA AppendSeq ==
  ASSUME NEW s, IsList(s), NEW e
  PROVE  /\ IsList(Append(s, e)) /\ Len(Append(s, e)) = Len(s) + 1
         /\ DOMAIN Append(s, e) = 1 .. Len(s) + 1
         /\ \A k \in 1 .. Len(s) : Append(s, e)[k] = s[k]
         /\ Append(s, e)[Len(s) + 1] = e
<1>1. PICK S : s \in Seq(S)
  BY DEF IsList
<1>2. s \in Seq(S \union {e}) /\ e \in S \union {e}
  <2>1. s \in [1 .. Len(s) -> S] /\ Len(s) \in Nat
    BY <1>1, LenProperties
  <2>2. s \in [1 .. Len(s) -> S \union {e}]
    BY <2>1
  <2> QED
    BY <2>1, <2>2, SeqDef
<1> QED
  BY <1>2, AppendProperties DEF IsList

(* What the concatenation of two lists is. *)
LEMMA ConcatSeq ==
  ASSUME NEW s, IsList(s), NEW t, IsList(t)
  PROVE  /\ IsList(s \o t) /\ Len(s \o t) = Len(s) + Len(t)
         /\ DOMAIN (s \o t) = 1 .. Len(s) + Len(t)
         /\ \A k \in 1 .. Len(s) : (s \o t)[k] = s[k]
         /\ \A k \in 1 .. Len(t) : (s \o t)[Len(s) + k] = t[k]
<1>1. PICK S : s \in Seq(S)
  BY DEF IsList
<1>2. PICK T : t \in Seq(T)
  BY DEF IsList
<1>3. s \in Seq(S \union T) /\ t \in Seq(S \union T)
  <2>1. s \in [1 .. Len(s) -> S] /\ Len(s) \in Nat /\ t \in [1 .. Len(t) -> T] /\ Len(t) \in Nat
    BY <1>1, <1>2, LenProperties
  <2>2. s \in [1 .. Len(s) -> S \union T] /\ t \in [1 .. Len(t) -> S \union T]
    BY <2>1
  <2> QED
    BY <2>1, <2>2, SeqDef
<1> QED
  BY <1>3, ConcatProperties DEF IsList

(* One list is the concatenation of two others. *)
Joins(s, a, b) ==
  /\ IsList(s) /\ Len(s) = Len(a) + Len(b)
  /\ \A k \in 1 .. Len(a) : s[k] = a[k]
  /\ \A k \in 1 .. Len(b) : s[Len(a) + k] = b[k]

(* Concatenation joins. *)
LEMMA ConcatJoins ==
  ASSUME NEW a, NEW b, IsList(a), IsList(b)
  PROVE  IsList(a \o b) /\ Joins(a \o b, a, b)
BY ConcatSeq DEF Joins

(* What the tail of a list is. *)
LEMMA TailSeq ==
  ASSUME NEW s, IsList(s), s # <<>>
  PROVE  /\ IsList(Tail(s)) /\ Len(Tail(s)) = Len(s) - 1
         /\ DOMAIN Tail(s) = 1 .. Len(s) - 1
         /\ \A k \in 1 .. Len(s) - 1 : Tail(s)[k] = s[k + 1]
BY HeadTailProperties DEF IsList

(* Two lists of one length with the same members are one list. *)
LEMMA SameList ==
  ASSUME NEW s, IsList(s), NEW t, IsList(t), Len(s) = Len(t),
         \A i \in 1 .. Len(s) : s[i] = t[i]
  PROVE  s = t
<1>1. PICK S : s \in Seq(S)
  BY DEF IsList
<1>2. PICK T : t \in Seq(T)
  BY DEF IsList
<1>3. s \in [1 .. Len(s) -> S] /\ t \in [1 .. Len(t) -> T]
  BY <1>1, <1>2, LenProperties
<1>4. s = [i \in 1 .. Len(s) |-> s[i]] /\ t = [i \in 1 .. Len(s) |-> t[i]]
  BY <1>3
<1> QED
  BY <1>4

(* A set of numbers that is not empty has a least member. *)
LEMMA LeastMember ==
  ASSUME NEW S, S \subseteq Nat, S # {}
  PROVE  \E n \in S : \A m \in S : n <= m
<1> DEFINE R == OpToRel(<, Nat)
<1>1. IsWellFoundedOn(R, Nat)
  BY NatLessThanWellFounded
<1>2. \A m, n \in Nat : m < n => <<m, n>> \in R
  BY DEF OpToRel
<1> HIDE DEF R
<1>3. PICK n \in S : \A m \in S : ~(<<m, n>> \in R)
  BY <1>1, WFMin
<1>4. ASSUME NEW m \in S PROVE n <= m
  <2>1. n \in Nat /\ m \in Nat /\ ~(<<m, n>> \in R)
    BY <1>3
  <2> QED
    BY <1>2, <2>1
<1> QED
  BY <1>4

(* The induction that the recursive functions of the model need. *)
LEMMA NoLeastBad ==
  ASSUME NEW Good, 0 \in Good, \A n \in Nat : n \in Good => n + 1 \in Good
  PROVE  Nat \subseteq Good
<1> SUFFICES ASSUME Nat \ Good # {} PROVE FALSE
  OBVIOUS
<1>1. PICK n \in Nat \ Good : \A m \in Nat \ Good : n <= m
  BY LeastMember
<1>2. n # 0 /\ n - 1 \in Nat /\ n - 1 \in Good
  BY <1>1
<1> QED
  BY <1>1, <1>2

(* So does a set of numbers with a bound have a greatest one. *)
LEMMA GreatestMember ==
  ASSUME NEW S, NEW b \in Nat, S \subseteq 0 .. b, S # {}
  PROVE  Max(S) \in S /\ \A m \in S : m <= Max(S)
<1> DEFINE T == {b - m : m \in S}
<1>1. T \subseteq Nat /\ T # {}
  <2>1. \A m \in S : b - m \in Nat
    OBVIOUS
  <2> QED
    BY <2>1
<1>2. PICK n \in T : \A m \in T : n <= m
  BY <1>1, LeastMember
<1>3. PICK x \in S : n = b - x
  BY <1>2
<1>4. \A m \in S : x >= m
  <2>1. SUFFICES ASSUME NEW m \in S PROVE x >= m
    OBVIOUS
  <2>2. n <= b - m /\ x \in 0 .. b /\ m \in 0 .. b
    BY <1>2, <2>1
  <2> QED
    BY <1>3, <2>2
<1>5. Max(S) \in S /\ \A m \in S : Max(S) >= m
  BY <1>4 DEF Max
<1> QED
  BY <1>5
=============================================================================
