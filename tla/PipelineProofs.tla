----------------------------- MODULE PipelineProofs --------------------------
(***************************************************************************)
(* Proofs about Pipeline, for every case of the constant Cases that its    *)
(* assumption allows. The invariant has four parts: LifeOK relates the     *)
(* stage of a request to its events, its error and its log; TodoOK says    *)
(* that what is left to do is the end of the program generated for the     *)
(* route; DataOK relates the trail to the scope, the head and the bytes,   *)
(* and the steps that are left to what they have still to check; and       *)
(* OutcomeOK says what a request that is over has come to. The first two   *)
(* are inductive by themselves, the others need them.                      *)
(***************************************************************************)
EXTENDS Pipeline, NumbersAndLists, FiniteSetTheorems

-----------------------------------------------------------------------------
(***************************************************************************)
(* The recursive functions of the model of the macros.                     *)
(***************************************************************************)

(* What the recursive function inside PlansOf is. *)
ListsPlans(f, plans, c, n) ==
  f = [k \in 0 .. n |->
         IF k = 0 THEN <<>>
         ELSE IF Source(plans[k]) = c THEN Append(f[k - 1], plans[k]) ELSE f[k - 1]]

(* The recursion of PlansOf defines a function. *)
LEMMA PlansOfIsDefined ==
  ASSUME NEW plans, NEW c, NEW n \in Nat
  PROVE  \E f : ListsPlans(f, plans, c, n)
<1> DEFINE Then(v, k) == IF Source(plans[k]) = c THEN Append(v, plans[k]) ELSE v
           Good == {m \in Nat : \E f : ListsPlans(f, plans, c, m)}
<1>1. 0 \in Good
  <2>1. ListsPlans([k \in 0 .. 0 |-> <<>>], plans, c, 0)
    BY DEF ListsPlans
  <2> QED
    BY <2>1
<1>2. ASSUME NEW m \in Nat, m \in Good PROVE m + 1 \in Good
  <2>1. PICK f : ListsPlans(f, plans, c, m)
    BY <1>2
  <2>2. f = [k \in 0 .. m |-> IF k = 0 THEN <<>> ELSE Then(f[k - 1], k)]
    BY <2>1 DEF ListsPlans
  <2> DEFINE h == [k \in 0 .. m + 1 |-> IF k = m + 1 THEN Then(f[m], m + 1) ELSE f[k]]
  <2>3. \A k \in 0 .. m + 1 : h[k] = IF k = 0 THEN <<>> ELSE Then(h[k - 1], k)
    <3> HIDE DEF Then
    <3>1. SUFFICES ASSUME NEW k \in 0 .. m + 1
                   PROVE  h[k] = IF k = 0 THEN <<>> ELSE Then(h[k - 1], k)
      OBVIOUS
    <3>2. CASE k = m + 1
      BY <3>2
    <3>3. CASE k # m + 1
      <4>1. k \in 0 .. m /\ h[k] = f[k] /\ (k # 0 => h[k - 1] = f[k - 1])
        BY <3>3
      <4>2. f[k] = IF k = 0 THEN <<>> ELSE Then(f[k - 1], k)
        BY <2>2, <4>1
      <4> QED
        BY <4>1, <4>2
    <3> QED
      BY <3>2, <3>3
  <2>4. ListsPlans(h, plans, c, m + 1)
    BY <2>3 DEF ListsPlans
  <2> HIDE DEF h
  <2> QED
    BY <2>4
<1>3. \A m \in Nat : m \in Good => m + 1 \in Good
  BY <1>2
<1> HIDE DEF Good
<1>4. Nat \subseteq Good
  BY <1>1, <1>3, NoLeastBad
<1> QED
  BY <1>4 DEF Good

(* PlansOf lists plans of the source it is asked for. *)
LEMMA PlansOfSource ==
  ASSUME NEW sig, IsList(Plans(sig)), NEW c
  PROVE  /\ IsList(PlansOf(sig, c))
         /\ \A i \in DOMAIN PlansOf(sig, c) : Source(PlansOf(sig, c)[i]) = c
<1> DEFINE plans == Plans(sig)
           n == Len(plans)
           f == CHOOSE g : ListsPlans(g, plans, c, n)
<1>1. n \in Nat
  BY SeqFacts
<1>2. PlansOf(sig, c) = f[n]
  BY DEF PlansOf, ListsPlans
<1> HIDE DEF plans, n
<1>3. /\ f[0] = <<>>
      /\ \A m \in Nat : m + 1 <= n =>
           f[m + 1] = IF Source(plans[m + 1]) = c THEN Append(f[m], plans[m + 1]) ELSE f[m]
  <2>1. ListsPlans(f, plans, c, n)
    BY <1>1, PlansOfIsDefined
  <2> HIDE DEF f
  <2>3. \A k \in 0 .. n : f[k] = IF k = 0 THEN <<>>
                               ELSE IF Source(plans[k]) = c THEN Append(f[k - 1], plans[k])
                                                            ELSE f[k - 1]
    BY <2>1 DEF ListsPlans
  <2>4. ASSUME NEW m \in Nat, m + 1 <= n
        PROVE  f[m + 1] = IF Source(plans[m + 1]) = c THEN Append(f[m], plans[m + 1]) ELSE f[m]
    <3>1. m + 1 \in 0 .. n /\ m + 1 # 0 /\ (m + 1) - 1 = m
      BY <1>1, <2>4
    <3> QED
      BY <2>3, <3>1
  <2> QED
    BY <1>1, <2>3, <2>4
<1> HIDE DEF f
<1> DEFINE Fine(s) == IsList(s) /\ \A i \in DOMAIN s : Source(s[i]) = c
           Good == {m \in Nat : m <= n => Fine(f[m])}
<1>4. 0 \in Good
  <2>1. f[0] = <<>>
    BY <1>3
  <2>2. IsList(<<>>) /\ DOMAIN <<>> = {}
    BY EmptySeq DEF IsList
  <2> QED
    BY <2>1, <2>2
<1>5. ASSUME NEW m \in Nat, m \in Good PROVE m + 1 \in Good
  <2>1. SUFFICES ASSUME m + 1 <= n PROVE Fine(f[m + 1])
    OBVIOUS
  <2>2. Fine(f[m])
    BY <1>5, <2>1, <1>1
  <2>3. f[m + 1] = IF Source(plans[m + 1]) = c THEN Append(f[m], plans[m + 1]) ELSE f[m]
    BY <1>1, <1>3, <2>1
  <2>4. CASE Source(plans[m + 1]) = c
    <3> DEFINE s == f[m]
               e == plans[m + 1]
    <3>1. f[m + 1] = Append(s, e)
      BY <2>3, <2>4
    <3>2. Fine(s) /\ Len(s) \in Nat /\ DOMAIN s = 1 .. Len(s) /\ Source(e) = c
      BY <2>2, <2>4, SeqFacts
    <3> HIDE DEF s, e
    <3>3. Fine(Append(s, e))
      BY <3>2, AppendSeq
    <3> QED
      BY <3>1, <3>3
  <2>5. CASE Source(plans[m + 1]) # c
    BY <2>2, <2>3, <2>5
  <2> QED
    BY <2>4, <2>5
<1>6. n \in Good
  <2>1. \A m \in Nat : m \in Good => m + 1 \in Good
    BY <1>5
  <2> HIDE DEF Good
  <2>2. Nat \subseteq Good
    BY <1>4, <2>1, NoLeastBad
  <2> QED
    BY <1>1, <2>2
<1> QED
  BY <1>1, <1>2, <1>6

(* The plans of a handler are the list of its parameters, without the input. *)
LEMMA PlansAreAList ==
  ASSUME NEW sig, sig \in Signatures
  PROVE  IsList(Plans(sig))
<1> DEFINE p == sig.params
           i == InputIndex(sig)
<1>1. p \in Seq(Params)
  BY DEF Signatures
<1>2. Len(p) \in Nat /\ DOMAIN p = 1 .. Len(p) /\ p \in [1 .. Len(p) -> Params]
  BY <1>1, LenProperties
<1>3. CASE i = 0
  BY <1>1, <1>3 DEF Plans, IsList
<1>4. CASE i # 0
  <2>1. i \in 1 .. Len(p)
    <3> DEFINE owned == {k \in DOMAIN p : Owned(p[k])}
    <3>1. owned # {} /\ i = Min(owned) /\ owned \subseteq Nat
      BY <1>2, <1>4 DEF InputIndex
    <3> HIDE DEF owned
    <3>2. PICK n \in owned : \A m \in owned : n <= m
      BY <3>1, LeastMember
    <3>3. i \in owned
      BY <3>1, <3>2 DEF Min
    <3> QED
      BY <1>2, <3>3 DEF owned
  <2> DEFINE before == SubSeq(p, 1, i - 1)
             after  == SubSeq(p, i + 1, Len(p))
  <2>2. Plans(sig) = before \o after
    BY <1>4 DEF Plans, RemoveAt
  <2> HIDE DEF p, i
  <2>3. before \in Seq(Params)
    <3>1. i - 1 \in Int /\ \A k \in 1 .. i - 1 : p[k] \in Params
      BY <1>2, <2>1
    <3> QED
      BY <3>1, SubSeqProperties
  <2>4. after \in Seq(Params)
    <3>1. i + 1 \in Int /\ Len(p) \in Int /\ \A k \in i + 1 .. Len(p) : p[k] \in Params
      BY <1>2, <2>1
    <3> QED
      BY <3>1, SubSeqProperties
  <2> HIDE DEF before, after
  <2>5. before \o after \in Seq(Params)
    BY <2>3, <2>4, ConcatProperties
  <2> QED
    BY <2>2, <2>5 DEF IsList
<1> QED
  BY <1>3, <1>4

(* Where the block of each source ends among the lets of a handler. *)
RawEnd(sig)   == CountOf(sig, "RawBody")
CtxEnd(sig)   == RawEnd(sig) + CountOf(sig, "PartsCtx")
TakeEnd(sig)  == CtxEnd(sig) + CountOf(sig, "Take")
RefEnd(sig)   == TakeEnd(sig) + CountOf(sig, "Ref")
MutEnd(sig)   == RefEnd(sig) + CountOf(sig, "Mut")
ScopeEnd(sig) == MutEnd(sig) + CountOf(sig, "RequestScope")

(* The lets of a handler are one block per source, in this order. *)
LEMMA BindingsInBlocks ==
  ASSUME NEW sig, sig \in Signatures
  PROVE  LET s == Bindings(sig)
         IN  /\ IsList(s) /\ Len(s) = ScopeEnd(sig)
             /\ \A c : CountOf(sig, c) \in Nat
             /\ \A i \in 1 .. RawEnd(sig) : Source(s[i]) = "RawBody"
             /\ \A i \in RawEnd(sig) + 1 .. CtxEnd(sig) : Source(s[i]) = "PartsCtx"
             /\ \A i \in CtxEnd(sig) + 1 .. TakeEnd(sig) : Source(s[i]) = "Take"
             /\ \A i \in TakeEnd(sig) + 1 .. RefEnd(sig) : Source(s[i]) = "Ref"
             /\ \A i \in RefEnd(sig) + 1 .. MutEnd(sig) : Source(s[i]) = "Mut"
             /\ \A i \in MutEnd(sig) + 1 .. ScopeEnd(sig) : Source(s[i]) = "RequestScope"
<1> DEFINE P(c) == PlansOf(sig, c)
           s  == Bindings(sig)
           a  == P("RawBody")
           b  == P("PartsCtx")
           c  == P("Take")
           d  == P("Ref")
           e  == P("Mut")
           f  == P("RequestScope")
           nb == RawEnd(sig)
           nc == CtxEnd(sig)
           nd == TakeEnd(sig)
           ne == RefEnd(sig)
           nf == MutEnd(sig)
<1>1. \A x : IsList(P(x)) /\ \A i \in DOMAIN P(x) : Source(P(x)[i]) = x
  BY PlansAreAList, PlansOfSource
<1>2. \A x : IsList(P(x)) /\ Len(P(x)) \in Nat /\ \A i \in 1 .. Len(P(x)) : Source(P(x)[i]) = x
  <2> HIDE DEF P
  <2> QED
    BY <1>1, SeqFacts
<1>3. s = a \o b \o c \o d \o e \o f
  BY DEF Bindings
<1>4. \A x : CountOf(sig, x) \in Nat
  BY <1>2 DEF CountOf
<1>5. /\ nb = Len(a) /\ nc = nb + Len(b) /\ nd = nc + Len(c)
      /\ ne = nd + Len(d) /\ nf = ne + Len(e) /\ ScopeEnd(sig) = nf + Len(f)
  BY DEF CountOf, RawEnd, CtxEnd, TakeEnd, RefEnd, MutEnd, ScopeEnd
<1> HIDE DEF s, nb, nc, nd, ne, nf
<1>6. IsList(a) /\ IsList(b) /\ IsList(c) /\ IsList(d) /\ IsList(e) /\ IsList(f)
  BY <1>2
<1>7. /\ Len(a) \in Nat /\ \A i \in 1 .. Len(a) : Source(a[i]) = "RawBody"
      /\ Len(b) \in Nat /\ \A i \in 1 .. Len(b) : Source(b[i]) = "PartsCtx"
      /\ Len(c) \in Nat /\ \A i \in 1 .. Len(c) : Source(c[i]) = "Take"
      /\ Len(d) \in Nat /\ \A i \in 1 .. Len(d) : Source(d[i]) = "Ref"
      /\ Len(e) \in Nat /\ \A i \in 1 .. Len(e) : Source(e[i]) = "Mut"
      /\ Len(f) \in Nat /\ \A i \in 1 .. Len(f) : Source(f[i]) = "RequestScope"
  BY <1>2
<1> HIDE DEF a, b, c, d, e, f
<1>9. nb \in Nat /\ nc \in Nat /\ nd \in Nat /\ ne \in Nat /\ nf \in Nat
  BY <1>5, <1>7
<1>c. nb <= nc /\ nc <= nd /\ nd <= ne /\ ne <= nf
  BY <1>5, <1>7, <1>9
<1>8. /\ IsList(s) /\ Len(s) = nf + Len(f)
      /\ \A k \in 1 .. Len(a) : s[k] = a[k]
      /\ \A k \in 1 .. Len(b) : s[nb + k] = b[k]
      /\ \A k \in 1 .. Len(c) : s[nc + k] = c[k]
      /\ \A k \in 1 .. Len(d) : s[nd + k] = d[k]
      /\ \A k \in 1 .. Len(e) : s[ne + k] = e[k]
      /\ \A k \in 1 .. Len(f) : s[nf + k] = f[k]
  <2> DEFINE t2 == a \o b
             t3 == t2 \o c
             t4 == t3 \o d
             t5 == t4 \o e
  <2>1. s = t5 \o f
    BY <1>3
  <2>2. Joins(t2, a, b) /\ IsList(t2)
    BY <1>6, ConcatJoins, Zenon
  <2> HIDE DEF t2
  <2>3. Joins(t3, t2, c) /\ IsList(t3)
    BY <1>6, <2>2, ConcatJoins, Zenon
  <2> HIDE DEF t3
  <2>4. Joins(t4, t3, d) /\ IsList(t4)
    BY <1>6, <2>3, ConcatJoins, Zenon
  <2> HIDE DEF t4
  <2>5. Joins(t5, t4, e) /\ IsList(t5)
    BY <1>6, <2>4, ConcatJoins, Zenon
  <2> HIDE DEF t5
  <2>6. Joins(s, t5, f)
    BY <1>6, <2>1, <2>5, ConcatJoins, Zenon
  <2>7. Len(t2) = nc /\ Len(t3) = nd /\ Len(t4) = ne /\ Len(t5) = nf
    BY <1>5, <2>2, <2>3, <2>4, <2>5 DEF Joins
  <2>8. /\ \A k \in 1 .. nb : t2[k] = a[k]
        /\ \A k \in 1 .. Len(b) : t2[nb + k] = b[k]
    BY <1>5, <2>2 DEF Joins
  <2>9. /\ \A k \in 1 .. nc : t3[k] = t2[k]
        /\ \A k \in 1 .. Len(c) : t3[nc + k] = c[k]
    BY <2>3, <2>7 DEF Joins
  <2>10. /\ \A k \in 1 .. nd : t4[k] = t3[k]
        /\ \A k \in 1 .. Len(d) : t4[nd + k] = d[k]
    BY <2>4, <2>7 DEF Joins
  <2>11. /\ \A k \in 1 .. ne : t5[k] = t4[k]
        /\ \A k \in 1 .. Len(e) : t5[ne + k] = e[k]
    BY <2>5, <2>7 DEF Joins
  <2>12. /\ IsList(s) /\ Len(s) = nf + Len(f) /\ \A k \in 1 .. nf : s[k] = t5[k]
        /\ \A k \in 1 .. Len(f) : s[nf + k] = f[k]
    BY <2>6, <2>7 DEF Joins
  <2>13. \A k \in 1 .. ne : s[k] = t4[k]
    BY <1>c, <1>9, <2>11, <2>12
  <2>14. \A k \in 1 .. Len(e) : s[ne + k] = e[k]
    <3>1. \A k \in 1 .. Len(e) : ne + k \in 1 .. nf
      BY <1>7, <1>9, <1>5
    <3> QED
      BY <3>1, <2>11, <2>12
  <2>15. \A k \in 1 .. nd : s[k] = t3[k]
    BY <1>c, <1>9, <2>10, <2>13
  <2>16. \A k \in 1 .. Len(d) : s[nd + k] = d[k]
    <3>1. \A k \in 1 .. Len(d) : nd + k \in 1 .. ne
      BY <1>7, <1>9, <1>5
    <3> QED
      BY <3>1, <2>10, <2>13
  <2>17. \A k \in 1 .. nc : s[k] = t2[k]
    BY <1>c, <1>9, <2>9, <2>15
  <2>18. \A k \in 1 .. Len(c) : s[nc + k] = c[k]
    <3>1. \A k \in 1 .. Len(c) : nc + k \in 1 .. nd
      BY <1>7, <1>9, <1>5
    <3> QED
      BY <3>1, <2>9, <2>15
  <2>19. \A k \in 1 .. Len(b) : s[nb + k] = b[k]
    <3>1. \A k \in 1 .. Len(b) : nb + k \in 1 .. nc
      BY <1>7, <1>9, <1>5
    <3> QED
      BY <3>1, <2>8, <2>17
  <2>20. \A k \in 1 .. Len(a) : s[k] = a[k]
    <3>1. nb = Len(a) /\ nb <= nc
      BY <1>5, <1>c
    <3> QED
      BY <3>1, <1>9, <2>8, <2>17
  <2> QED
    BY <2>12, <2>14, <2>16, <2>18, <2>19, <2>20
<1> DEFINE Within(n, m, x) == \A i \in n + 1 .. m : Source(s[i]) = x
           From(t, x) == \A i \in 1 .. Len(t) : Source(t[i]) = x
           At(n, t) == \A k \in 1 .. Len(t) : s[n + k] = t[k]
<1>10. ASSUME NEW x, NEW t, NEW n \in Nat, NEW m, m = n + Len(t),
              Len(t) \in Nat, From(t, x), At(n, t)
       PROVE  Within(n, m, x)
  <2>1. SUFFICES ASSUME NEW i \in n + 1 .. m PROVE Source(s[i]) = x
    OBVIOUS
  <2>2. i - n \in 1 .. Len(t) /\ n + (i - n) = i
    BY <1>10
  <2>3. s[i] = t[i - n]
    BY <1>10, <2>2
  <2> QED
    BY <1>10, <2>2, <2>3
<1>11. \A i \in 1 .. nb : Source(s[i]) = "RawBody"
  <2>1. \A i \in 1 .. nb : s[i] = a[i] /\ Source(a[i]) = "RawBody"
    BY <1>5, <1>7, <1>8
  <2> QED
    BY <2>1
<1>a. /\ From(b, "PartsCtx") /\ From(c, "Take") /\ From(d, "Ref") /\ From(e, "Mut")
      /\ From(f, "RequestScope")
  BY <1>7
<1>b. At(nb, b) /\ At(nc, c) /\ At(nd, d) /\ At(ne, e) /\ At(nf, f)
  BY <1>8
<1> HIDE DEF Within, From, At
<1>12. Within(nb, nc, "PartsCtx")
  BY <1>5, <1>7, <1>9, <1>10, <1>a, <1>b, Zenon
<1>13. Within(nc, nd, "Take")
  BY <1>5, <1>7, <1>9, <1>10, <1>a, <1>b, Zenon
<1>14. Within(nd, ne, "Ref")
  BY <1>5, <1>7, <1>9, <1>10, <1>a, <1>b, Zenon
<1>15. Within(ne, nf, "Mut")
  BY <1>5, <1>7, <1>9, <1>10, <1>a, <1>b, Zenon
<1>16. Within(nf, ScopeEnd(sig), "RequestScope")
  BY <1>5, <1>7, <1>9, <1>10, <1>a, <1>b, Zenon
<1> QED
  BY <1>4, <1>5, <1>8, <1>11, <1>12, <1>13, <1>14, <1>15, <1>16
     DEF Within, s, nb, nc, nd, ne, nf

(* The macros' own test is the compiler's. *)
LEMMA ValidWhenNothingClashes ==
  ASSUME NEW sig, sig \in Signatures
  PROVE  ValidatePlans(sig) <=> ~BorrowsClash(Bindings(sig))
<1> DEFINE s == Bindings(sig)
           Use(i) == Uses(Source(s[i]))
           Clash(i, j) == /\ i < j /\ Use(i).kept /\ Use(i).of = Use(j).of
                          /\ "exclusive" \in {Use(i).loan, Use(j).loan}
           nc == RawEnd(sig)
           nd == CtxEnd(sig)
           ne == TakeEnd(sig)
           nf == RefEnd(sig)
           ng == MutEnd(sig)
           nh == ScopeEnd(sig)
<1>a. /\ nc = CountOf(sig, "RawBody")
      /\ nd = nc + CountOf(sig, "PartsCtx") /\ ne = nd + CountOf(sig, "Take")
      /\ nf = ne + CountOf(sig, "Ref") /\ ng = nf + CountOf(sig, "Mut")
      /\ nh = ng + CountOf(sig, "RequestScope")
  BY DEF RawEnd, CtxEnd, TakeEnd, RefEnd, MutEnd, ScopeEnd
<1> HIDE DEF nc, nd, ne, nf, ng, nh
<1>1. IsList(s) /\ Len(s) = nh
  BY BindingsInBlocks DEF nh
<1>2. /\ \A i \in 1 .. nc : Source(s[i]) = "RawBody"
      /\ \A i \in nc + 1 .. nd : Source(s[i]) = "PartsCtx"
      /\ \A i \in nd + 1 .. ne : Source(s[i]) = "Take"
      /\ \A i \in ne + 1 .. nf : Source(s[i]) = "Ref"
      /\ \A i \in nf + 1 .. ng : Source(s[i]) = "Mut"
      /\ \A i \in ng + 1 .. nh : Source(s[i]) = "RequestScope"
  BY BindingsInBlocks DEF nc, nd, ne, nf, ng, nh
<1>b. /\ CountOf(sig, "RawBody") \in Nat /\ CountOf(sig, "PartsCtx") \in Nat
      /\ CountOf(sig, "Take") \in Nat /\ CountOf(sig, "Ref") \in Nat
      /\ CountOf(sig, "Mut") \in Nat /\ CountOf(sig, "RequestScope") \in Nat
  BY BindingsInBlocks
<1>n. nc \in Nat /\ nd \in Nat /\ ne \in Nat /\ nf \in Nat /\ ng \in Nat /\ nh \in Nat
  BY <1>a, <1>b
<1>3. DOMAIN s = 1 .. nh
  BY <1>1, SeqFacts
<1>4. BorrowsClash(s) <=> \E i, j \in 1 .. nh : Clash(i, j)
  BY <1>3 DEF BorrowsClash
<1> HIDE DEF s
<1>5. nc <= nd /\ nd <= ne /\ ne <= nf /\ nf <= ng /\ ng <= nh
  BY <1>a, <1>b
<1>6. \A i \in 1 .. nc : Use(i) = [of |-> "scope", loan |-> "shared", kept |-> FALSE]
  BY <1>2 DEF Uses
<1>7. \A i \in nc + 1 .. nd : Use(i) = [of |-> "ctx", loan |-> "exclusive", kept |-> TRUE]
  BY <1>2 DEF Uses
<1>8. \A i \in nd + 1 .. ne : Use(i) = [of |-> "scope", loan |-> "exclusive", kept |-> FALSE]
  BY <1>2 DEF Uses
<1>9. \A i \in ne + 1 .. nf : Use(i) = [of |-> "scope", loan |-> "shared", kept |-> TRUE]
  BY <1>2 DEF Uses
<1>10. \A i \in nf + 1 .. nh : Use(i) = [of |-> "scope", loan |-> "exclusive", kept |-> TRUE]
  <2>1. \A i \in nf + 1 .. ng : Use(i) = [of |-> "scope", loan |-> "exclusive", kept |-> TRUE]
    BY <1>2 DEF Uses
  <2>2. \A i \in ng + 1 .. nh : Use(i) = [of |-> "scope", loan |-> "exclusive", kept |-> TRUE]
    BY <1>2 DEF Uses
  <2> QED
    BY <1>n, <1>5, <2>1, <2>2
<1>11. ValidatePlans(sig) <=> nd <= nc + 1 /\ (nh <= nf \/ nh <= ne + 1)
  <2>1. ValidatePlans(sig) <=>
          /\ nd - nc <= 1 /\ nh - ng <= 1 /\ ng - nf <= 1
          /\ ~(nh - ng > 0 /\ (nf - ne > 0 \/ ng - nf > 0))
          /\ ~(ng - nf > 0 /\ nf - ne > 0)
    <3>1. /\ nd - nc = CountOf(sig, "PartsCtx") /\ nh - ng = CountOf(sig, "RequestScope")
          /\ ng - nf = CountOf(sig, "Mut") /\ nf - ne = CountOf(sig, "Ref")
      <4>1. nd - nc = CountOf(sig, "PartsCtx")
        BY <1>a, <1>b, <1>n
      <4>2. nh - ng = CountOf(sig, "RequestScope")
        BY <1>a, <1>b, <1>n
      <4>3. ng - nf = CountOf(sig, "Mut")
        BY <1>a, <1>b, <1>n
      <4>4. nf - ne = CountOf(sig, "Ref")
        BY <1>a, <1>b, <1>n
      <4> QED
        BY <4>1, <4>2, <4>3, <4>4
    <3> QED
      BY <3>1 DEF ValidatePlans
  <2> QED
    BY <1>n, <1>5, <2>1
<1> HIDE DEF Use
<1>12. ASSUME ~(nd <= nc + 1 /\ (nh <= nf \/ nh <= ne + 1))
       PROVE  \E i, j \in 1 .. nh : Clash(i, j)
  <2>1. CASE nd > nc + 1
    <3>1. nc + 1 \in nc + 1 .. nd /\ nc + 2 \in nc + 1 .. nd
      BY <1>n, <2>1
    <3>2. Clash(nc + 1, nc + 2)
      BY <1>n, <1>7, <3>1
    <3>3. nc + 1 \in 1 .. nh /\ nc + 2 \in 1 .. nh
      BY <1>n, <1>5, <3>1
    <3> HIDE DEF Clash
    <3> QED
      BY <3>2, <3>3
  <2>2. CASE nh > nf /\ nh > ne + 1
    <3>1. nh - 1 \in ne + 1 .. nh /\ nh \in nf + 1 .. nh /\ nh - 1 < nh
      BY <1>n, <1>5, <2>2
    <3>2. Use(nh) = [of |-> "scope", loan |-> "exclusive", kept |-> TRUE]
      BY <1>10, <3>1
    <3>3. Use(nh - 1).of = "scope" /\ Use(nh - 1).kept
      <4>1. CASE nh - 1 \in ne + 1 .. nf
        BY <1>9, <4>1
      <4>2. CASE nh - 1 \in nf + 1 .. nh
        BY <1>10, <4>2
      <4> QED
        BY <1>n, <3>1, <1>5, <4>1, <4>2
    <3>4. Clash(nh - 1, nh)
      BY <3>1, <3>2, <3>3
    <3>5. nh - 1 \in 1 .. nh /\ nh \in 1 .. nh
      BY <1>n, <1>5, <3>1
    <3> HIDE DEF Clash
    <3> QED
      BY <3>4, <3>5
  <2> QED
    BY <1>n, <1>5, <1>12, <2>1, <2>2
<1>13. ASSUME NEW i \in 1 .. nh, NEW j \in 1 .. nh, Clash(i, j)
       PROVE  ~(nd <= nc + 1 /\ (nh <= nf \/ nh <= ne + 1))
  <2>1. i < j /\ Use(i).kept /\ Use(i).of = Use(j).of
        /\ (Use(i).loan = "exclusive" \/ Use(j).loan = "exclusive")
    BY <1>13
  <2>2. CASE i \in 1 .. nc
    BY <1>6, <2>1, <2>2
  <2>3. CASE i \in nc + 1 .. nd
    <3>1. Use(j).of = "ctx"
      BY <1>7, <2>1, <2>3
    <3>2. ~(j \in nd + 1 .. ne) /\ ~(j \in ne + 1 .. nf) /\ ~(j \in nf + 1 .. nh)
      BY <1>8, <1>9, <1>10, <3>1
    <3> QED
      BY <1>n, <1>5, <2>1, <2>3, <3>2
  <2>4. CASE i \in nd + 1 .. ne
    BY <1>8, <2>1, <2>4
  <2>5. CASE i \in ne + 1 .. nf
    <3>1. Use(j).loan = "exclusive"
      BY <1>9, <2>1, <2>5
    <3>2. ~(j \in ne + 1 .. nf)
      BY <1>9, <3>1
    <3> QED
      BY <1>n, <1>5, <2>1, <2>5, <3>2
  <2>6. CASE i \in nf + 1 .. nh
    BY <1>n, <1>5, <2>1, <2>6
  <2> QED
    BY <1>n, <1>5, <2>2, <2>3, <2>4, <2>5, <2>6
<1> QED
  BY <1>4, <1>11, <1>12, <1>13 DEF s

-----------------------------------------------------------------------------
(***************************************************************************)
(* The arguments of a route may be given in any order.                     *)
(***************************************************************************)

(* What the recursive function inside RouteArgs is. *)
ReadsArgs(f, args, n) ==
  f = [k \in 0 .. n |-> IF k = 0 THEN EmptyArgs ELSE Apply(f[k - 1], args[k])]

(* The recursion of RouteArgs defines a function. *)
LEMMA RouteArgsIsDefined ==
  ASSUME NEW args, NEW n \in Nat
  PROVE  \E f : ReadsArgs(f, args, n)
<1> DEFINE Good == {m \in Nat : \E f : ReadsArgs(f, args, m)}
<1>1. 0 \in Good
  <2>1. ReadsArgs([k \in 0 .. 0 |-> EmptyArgs], args, 0)
    BY DEF ReadsArgs
  <2> QED
    BY <2>1
<1>2. ASSUME NEW m \in Nat, m \in Good PROVE m + 1 \in Good
  <2>1. PICK f : ReadsArgs(f, args, m)
    BY <1>2
  <2>2. f = [k \in 0 .. m |-> IF k = 0 THEN EmptyArgs ELSE Apply(f[k - 1], args[k])]
    BY <2>1 DEF ReadsArgs
  <2> DEFINE h == [k \in 0 .. m + 1 |-> IF k = m + 1 THEN Apply(f[m], args[m + 1]) ELSE f[k]]
  <2>3. \A k \in 0 .. m + 1 : h[k] = IF k = 0 THEN EmptyArgs ELSE Apply(h[k - 1], args[k])
    <3>1. SUFFICES ASSUME NEW k \in 0 .. m + 1
                   PROVE  h[k] = IF k = 0 THEN EmptyArgs ELSE Apply(h[k - 1], args[k])
      OBVIOUS
    <3>2. CASE k = m + 1
      BY <3>2
    <3>3. CASE k # m + 1
      <4>1. k \in 0 .. m /\ h[k] = f[k] /\ (k # 0 => h[k - 1] = f[k - 1])
        BY <3>3
      <4>2. f[k] = IF k = 0 THEN EmptyArgs ELSE Apply(f[k - 1], args[k])
        BY <2>2, <4>1
      <4> QED
        BY <4>1, <4>2
    <3> QED
      BY <3>2, <3>3
  <2>4. ReadsArgs(h, args, m + 1)
    BY <2>3 DEF ReadsArgs
  <2> HIDE DEF h
  <2> QED
    BY <2>4
<1>3. \A m \in Nat : m \in Good => m + 1 \in Good
  BY <1>2
<1> HIDE DEF Good
<1>4. Nat \subseteq Good
  BY <1>1, <1>3, NoLeastBad
<1> QED
  BY <1>4 DEF Good

Slots     == {"to", "policy", "before", "map", "query", "data", "path"}
ArgFields == Slots \union {"valid"}

(* What the first m arguments come to, in terms of each of them. *)
AllParse(args, m)  == \A i \in 1 .. m : Parses(args[i])
NoSlotTwice(args, m) ==
  \A i, j \in 1 .. m : Slot(args[i]) = Slot(args[j]) => i = j

SumsUp(b, args, m) ==
  /\ b = [x \in ArgFields |-> b[x]]
  /\ b["valid"] \in BOOLEAN
  /\ b["valid"] <=> AllParse(args, m) /\ NoSlotTwice(args, m)
  /\ b["valid"] =>
       /\ \A x \in Slots : (\A i \in 1 .. m : Slot(args[i]) # x) => b[x] = <<>>
       /\ \A i \in 1 .. m : b[Slot(args[i])] = <<SlotValue(args[i])>>

(* An argument that parses and can be assigned names a slot of a route. *)
LEMMA ParsedArgsHaveSlots ==
  ASSUME NEW arg, Parses(arg)
  PROVE  Slot(arg) \in Slots /\ Slot(arg) # "valid"
BY DEF Parses, Assignable, Slot, Slots

(* Applying one more argument sums up one more (route.rs, RouteArgsBuilder::apply). *)
LEMMA ApplySumsUp ==
  ASSUME NEW args, NEW m \in Nat, NEW b, SumsUp(b, args, m)
  PROVE  SumsUp(Apply(b, args[m + 1]), args, m + 1)
<1> DEFINE arg == args[m + 1]
           c == Apply(b, arg)
<1>0. /\ b = [x \in ArgFields |-> b[x]] /\ b["valid"] \in BOOLEAN
      /\ b["valid"] <=> AllParse(args, m) /\ NoSlotTwice(args, m)
      /\ b["valid"] =>
           /\ \A x \in Slots : (\A i \in 1 .. m : Slot(args[i]) # x) => b[x] = <<>>
           /\ \A i \in 1 .. m : b[Slot(args[i])] = <<SlotValue(args[i])>>
  BY DEF SumsUp
<1>m. 1 .. m + 1 = 1 .. m \union {m + 1} /\ ~(m + 1 \in 1 .. m)
  OBVIOUS
<1>1. AllParse(args, m + 1) <=> AllParse(args, m) /\ Parses(arg)
  BY <1>m DEF AllParse
<1>2. NoSlotTwice(args, m + 1) <=>
        NoSlotTwice(args, m) /\ \A i \in 1 .. m : Slot(args[i]) # Slot(arg)
  <2>1. ASSUME NoSlotTwice(args, m + 1)
        PROVE  NoSlotTwice(args, m) /\ \A i \in 1 .. m : Slot(args[i]) # Slot(arg)
    BY <1>m, <2>1 DEF NoSlotTwice
  <2>2. ASSUME NoSlotTwice(args, m), \A i \in 1 .. m : Slot(args[i]) # Slot(arg)
        PROVE  NoSlotTwice(args, m + 1)
    <3>1. SUFFICES ASSUME NEW i \in 1 .. m + 1, NEW j \in 1 .. m + 1,
                          Slot(args[i]) = Slot(args[j])
                   PROVE  i = j
      BY DEF NoSlotTwice
    <3>2. CASE i \in 1 .. m /\ j \in 1 .. m
      BY <2>2, <3>1, <3>2 DEF NoSlotTwice
    <3>3. CASE i = m + 1 \/ j = m + 1
      BY <1>m, <2>2, <3>1, <3>3
    <3> QED
      BY <1>m, <3>2, <3>3
  <2> QED
    BY <2>1, <2>2
<1>3. CASE b["valid"] /\ Parses(arg) /\ b[Slot(arg)] = <<>>
  <2> DEFINE x == Slot(arg)
  <2>1. c = [b EXCEPT ![x] = <<SlotValue(arg)>>]
    BY <1>3 DEF Apply, SetOnce
  <2>2. x \in Slots /\ x \in ArgFields /\ x # "valid" /\ Slots \subseteq ArgFields
    BY <1>3, ParsedArgsHaveSlots DEF ArgFields
  <2>3. \A i \in 1 .. m : Slot(args[i]) # x
    <3>1. SUFFICES ASSUME NEW i \in 1 .. m, Slot(args[i]) = x PROVE FALSE
      OBVIOUS
    <3>2. b[x] = <<SlotValue(args[i])>>
      BY <1>0, <1>3, <3>1
    <3>3. b[x] = <<>>
      BY <1>3
    <3> HIDE DEF x
    <3> QED
      BY <3>2, <3>3
  <2> HIDE DEF x, c
  <2>4. /\ c = [y \in ArgFields |-> c[y]] /\ c[x] = <<SlotValue(arg)>>
        /\ \A y \in ArgFields : y # x => c[y] = b[y]
    BY <1>0, <2>1, <2>2
  <2>5. c["valid"]
    <3>1. "valid" \in ArgFields
      BY DEF ArgFields
    <3> QED
      BY <1>3, <2>2, <2>4, <3>1
  <2>6. AllParse(args, m + 1) /\ NoSlotTwice(args, m + 1)
    BY <1>0, <1>1, <1>2, <1>3, <2>3 DEF x
  <2>7. \A y \in Slots : (\A i \in 1 .. m + 1 : Slot(args[i]) # y) => c[y] = <<>>
    <3>1. SUFFICES ASSUME NEW y \in Slots, \A i \in 1 .. m + 1 : Slot(args[i]) # y
                   PROVE  c[y] = <<>>
      OBVIOUS
    <3>2. y # x /\ \A i \in 1 .. m : Slot(args[i]) # y
      BY <1>m, <3>1 DEF x
    <3> QED
      BY <1>0, <1>3, <2>2, <2>4, <3>2
  <2>8. \A i \in 1 .. m + 1 : c[Slot(args[i])] = <<SlotValue(args[i])>>
    <3>1. c[Slot(args[m + 1])] = <<SlotValue(args[m + 1])>>
      BY <2>4 DEF x
    <3>2. ASSUME NEW i \in 1 .. m PROVE c[Slot(args[i])] = <<SlotValue(args[i])>>
      <4>1. Slot(args[i]) # x /\ Slot(args[i]) \in Slots
        <5>1. Parses(args[i])
          BY <1>0, <1>3 DEF AllParse
        <5> QED
          BY <2>3, <5>1, ParsedArgsHaveSlots
      <4> QED
        BY <1>0, <1>3, <2>2, <2>4, <4>1
    <3> QED
      BY <1>m, <3>1, <3>2
  <2>9. SumsUp(c, args, m + 1)
    BY <2>4, <2>5, <2>6, <2>7, <2>8 DEF SumsUp
  <2> QED
    BY <2>9 DEF c
<1>4. CASE ~(b["valid"] /\ Parses(arg) /\ b[Slot(arg)] = <<>>)
  <2>1. c = [b EXCEPT !.valid = FALSE]
    BY <1>4 DEF Apply, SetOnce
  <2> HIDE DEF c
  <2>2. c = [y \in ArgFields |-> c[y]] /\ c["valid"] = FALSE
    BY <1>0, <2>1 DEF ArgFields
  <2>3. ~(AllParse(args, m + 1) /\ NoSlotTwice(args, m + 1))
    <3>1. SUFFICES ASSUME AllParse(args, m + 1), NoSlotTwice(args, m + 1) PROVE FALSE
      OBVIOUS
    <3>2. Parses(arg) /\ b["valid"] /\ \A i \in 1 .. m : Slot(args[i]) # Slot(arg)
      BY <1>0, <1>1, <1>2, <3>1
    <3>3. b[Slot(arg)] = <<>>
      BY <1>0, <3>2, ParsedArgsHaveSlots
    <3> QED
      BY <1>4, <3>2, <3>3
  <2>4. SumsUp(c, args, m + 1)
    BY <2>2, <2>3 DEF SumsUp
  <2> QED
    BY <2>4 DEF c
<1> QED
  BY <1>3, <1>4

(* What the arguments of a route come to. *)
LEMMA RouteArgsSumUp ==
  ASSUME NEW args, Len(args) \in Nat
  PROVE  SumsUp(RouteArgs(args), args, Len(args))
<1> DEFINE n == Len(args)
           f == CHOOSE g : ReadsArgs(g, args, n)
<1>1. RouteArgs(args) = f[n]
  BY DEF RouteArgs, ReadsArgs
<1> HIDE DEF n
<1>2. n \in Nat
  BY DEF n
<1>3. ReadsArgs(f, args, n)
  BY <1>2, RouteArgsIsDefined
<1> HIDE DEF f
<1>4. \A k \in 0 .. n : f[k] = IF k = 0 THEN EmptyArgs ELSE Apply(f[k - 1], args[k])
  BY <1>3 DEF ReadsArgs
<1> DEFINE Good == {m \in Nat : m <= n => SumsUp(f[m], args, m)}
<1>5. 0 \in Good
  <2>1. f[0] = EmptyArgs
    BY <1>2, <1>4
  <2>2. SumsUp(EmptyArgs, args, 0)
    BY DEF SumsUp, EmptyArgs, AllParse, NoSlotTwice, ArgFields, Slots
  <2> QED
    BY <2>1, <2>2
<1>6. \A m \in Nat : m \in Good => m + 1 \in Good
  <2>1. SUFFICES ASSUME NEW m \in Nat, m \in Good, m + 1 <= n
                 PROVE  SumsUp(f[m + 1], args, m + 1)
    OBVIOUS
  <2>2. SumsUp(f[m], args, m)
    BY <1>2, <2>1
  <2>3. f[m + 1] = Apply(f[m], args[m + 1])
    <3>1. m + 1 \in 0 .. n /\ m + 1 # 0 /\ (m + 1) - 1 = m
      BY <1>2, <2>1
    <3> QED
      BY <1>4, <3>1
  <2> QED
    BY <2>2, <2>3, ApplySumsUp
<1> HIDE DEF Good
<1>7. Nat \subseteq Good
  BY <1>5, <1>6, NoLeastBad
<1>8. SumsUp(f[n], args, n)
  BY <1>2, <1>7 DEF Good
<1> QED
  BY <1>1, <1>8 DEF n

(* The order in which a route is given its arguments does not matter. *)
LEMMA OrderOfArgumentsIsIrrelevant ==
  ASSUME NEW args, Len(args) \in Nat, DOMAIN args = 1 .. Len(args),
         NEW p \in Bijection(DOMAIN args, DOMAIN args),
         NEW other, other = RouteArgs([k \in DOMAIN args |-> args[p[k]]])
  PROVE  IF RouteArgs(args).valid THEN other = RouteArgs(args) ELSE ~other.valid
<1> DEFINE n == Len(args)
           new == [k \in 1 .. n |-> args[p[k]]]
           b == RouteArgs(args)
<1>1. /\ \A i \in 1 .. n : p[i] \in 1 .. n
      /\ \A i, j \in 1 .. n : p[i] = p[j] => i = j
      /\ \A i \in 1 .. n : \E j \in 1 .. n : p[j] = i
  BY DEF Bijection, Injection, Surjection, IsInjective
<1>2. Len(new) = n
  <2>1. new \in Seq({args[i] : i \in 1 .. n})
    <3>1. new \in [1 .. n -> {args[i] : i \in 1 .. n}]
      BY <1>1
    <3> QED
      BY <3>1, SeqDef
  <2>2. DOMAIN new = 1 .. n
    OBVIOUS
  <2> HIDE DEF new
  <2>3. Len(new) \in Nat /\ DOMAIN new = 1 .. Len(new)
    BY <2>1, LenProperties
  <2> QED
    BY <2>2, <2>3
<1>3. SumsUp(b, args, n)
  BY RouteArgsSumUp
<1>4. SumsUp(other, new, n)
  <2>1. other = RouteArgs(new)
    OBVIOUS
  <2> HIDE DEF new
  <2> QED
    BY <1>2, <2>1, RouteArgsSumUp
<1>n. n \in Nat /\ \A k \in 1 .. n : new[k] = args[p[k]]
  OBVIOUS
<1> HIDE DEF n, new, b
<1>5. AllParse(new, n) <=> AllParse(args, n)
  <2>1. ASSUME AllParse(args, n) PROVE AllParse(new, n)
    BY <1>1, <1>n, <2>1 DEF AllParse
  <2>2. ASSUME AllParse(new, n), NEW i \in 1 .. n PROVE Parses(args[i])
    <3>1. PICK j \in 1 .. n : p[j] = i
      BY <1>1
    <3>2. Parses(new[j]) /\ new[j] = args[i]
      BY <1>n, <2>2, <3>1 DEF AllParse
    <3> QED
      BY <3>2
  <2> QED
    BY <2>1, <2>2 DEF AllParse
<1>6. NoSlotTwice(new, n) <=> NoSlotTwice(args, n)
  <2>1. ASSUME NoSlotTwice(args, n) PROVE NoSlotTwice(new, n)
    <3>1. SUFFICES ASSUME NEW i \in 1 .. n, NEW j \in 1 .. n, Slot(new[i]) = Slot(new[j])
                   PROVE  i = j
      BY DEF NoSlotTwice
    <3>2. p[i] \in 1 .. n /\ p[j] \in 1 .. n /\ Slot(args[p[i]]) = Slot(args[p[j]])
      BY <1>1, <1>n, <3>1
    <3>3. p[i] = p[j]
      BY <2>1, <3>2 DEF NoSlotTwice
    <3> QED
      BY <1>1, <3>3
  <2>2. ASSUME NoSlotTwice(new, n) PROVE NoSlotTwice(args, n)
    <3>1. SUFFICES ASSUME NEW i \in 1 .. n, NEW j \in 1 .. n, Slot(args[i]) = Slot(args[j])
                   PROVE  i = j
      BY DEF NoSlotTwice
    <3>2. PICK x \in 1 .. n, y \in 1 .. n : p[x] = i /\ p[y] = j
      BY <1>1
    <3>3. Slot(new[x]) = Slot(new[y])
      BY <1>n, <3>1, <3>2
    <3> QED
      BY <2>2, <3>2, <3>3 DEF NoSlotTwice
  <2> QED
    BY <2>1, <2>2
<1>7. other["valid"] = b["valid"]
  BY <1>3, <1>4, <1>5, <1>6 DEF SumsUp
<1>8. ASSUME b["valid"] PROVE other = b
  <2>1. ASSUME NEW x \in Slots PROVE other[x] = b[x]
    <3>1. CASE \E i \in 1 .. n : Slot(new[i]) = x
      <4>1. PICK i \in 1 .. n : Slot(new[i]) = x
        BY <3>1
      <4>2. other[x] = <<SlotValue(new[i])>>
        BY <1>4, <1>7, <1>8, <4>1 DEF SumsUp
      <4>3. b[x] = <<SlotValue(args[p[i]])>>
        <5>1. p[i] \in 1 .. n /\ Slot(args[p[i]]) = x
          BY <1>1, <1>n, <4>1
        <5> QED
          BY <1>3, <1>8, <5>1 DEF SumsUp
      <4> QED
        BY <1>n, <4>2, <4>3
    <3>2. CASE \A i \in 1 .. n : Slot(new[i]) # x
      <4>1. ASSUME NEW i \in 1 .. n PROVE Slot(args[i]) # x
        <5>1. PICK j \in 1 .. n : p[j] = i
          BY <1>1
        <5>2. new[j] = args[i]
          BY <1>n, <5>1
        <5> QED
          BY <3>2, <5>2
      <4> QED
        BY <1>3, <1>4, <1>7, <1>8, <3>2, <4>1 DEF SumsUp
    <3> QED
      BY <3>1, <3>2
  <2>2. \A x \in ArgFields : other[x] = b[x]
    BY <1>7, <2>1 DEF ArgFields
  <2> QED
    BY <1>3, <1>4, <2>2 DEF SumsUp
<1> QED
  BY <1>7, <1>8 DEF b

-----------------------------------------------------------------------------
(***************************************************************************)
(* What the macros expand a route to is typed.                             *)
(***************************************************************************)

(* What the expansion of well-typed attributes is. *)
RouteTyped(r) ==
  /\ r.before \in Seq(Signatures)
  /\ r.map = <<>> \/ \E m \in Signatures : r.map = <<m>>
  /\ r.pathType = <<>> \/ \E t \in DataTypes : r.pathType = <<t>>
  /\ r.queryType = <<>> \/ \E t \in DataTypes : r.queryType = <<t>>
  /\ r.data.kind \in {"none", "json", "form", "multipart"}

AttrsTyped(attrs) ==
  /\ RouteAttrs(attrs) # {}
  /\ \A i \in DOMAIN attrs :
       /\ Len(attrs[i].args) \in Nat
       /\ DOMAIN attrs[i].args = 1 .. Len(attrs[i].args)
       /\ \A k \in DOMAIN attrs[i].args : WellTyped(attrs[i].args[k])

(* A default replaces an option only if there is none. *)
LEMMA OrElseOfSome ==
  ASSUME NEW v, NEW d
  PROVE  OrElse(<<v>>, d) = v
<1>1. <<v>> # <<>> /\ <<v>>[1] = v
  OBVIOUS
<1> QED
  BY <1>1 DEF OrElse

(* A route that the macros accept is typed. *)
LEMMA ExpandedRouteIsTyped ==
  ASSUME NEW attrs, AttrsTyped(attrs), Expands(attrs)
  PROVE  RouteTyped(ExpandRoute(attrs))
<1> DEFINE x == CHOOSE i \in RouteAttrs(attrs) : TRUE
           args == attrs[x].args
           n == Len(args)
           b == RouteArgs(args)
           r == ExpandRoute(attrs)
<1>1. x \in RouteAttrs(attrs) /\ x \in DOMAIN attrs
  BY DEF AttrsTyped, RouteAttrs
<1>2. b.valid
  BY <1>1 DEF Expands
<1>3. n \in Nat /\ DOMAIN args = 1 .. n /\ \A k \in 1 .. n : WellTyped(args[k])
  BY <1>1 DEF AttrsTyped
<1>4. /\ r.before = OrElse(b.before, <<>>) /\ r.map = b.map
      /\ r.data = OrElse(b.data, [kind |-> "none", type |-> "none"])
      /\ r.pathType = b.path /\ r.queryType = b.query
  BY DEF ExpandRoute
<1>5. SumsUp(b, args, n)
  BY <1>3, RouteArgsSumUp
<1> HIDE DEF x, args, n, b, r
<1>6. ASSUME NEW slot \in Slots
      PROVE  \/ b[slot] = <<>>
             \/ \E i \in 1 .. n : /\ Slot(args[i]) = slot /\ Parses(args[i])
                                  /\ b[slot] = <<SlotValue(args[i])>>
  <2>1. CASE \A i \in 1 .. n : Slot(args[i]) # slot
    BY <1>2, <1>5, <2>1 DEF SumsUp
  <2>2. CASE \E i \in 1 .. n : Slot(args[i]) = slot
    BY <1>2, <1>5, <2>2 DEF SumsUp, AllParse
  <2> QED
    BY <2>1, <2>2
<1>7. r.before \in Seq(Signatures)
  <2>0. <<>> \in Seq(Signatures)
    BY EmptySeq
  <2>1. CASE b["before"] = <<>>
    BY <1>4, <2>0, <2>1 DEF OrElse
  <2>2. ASSUME NEW i \in 1 .. n, Slot(args[i]) = "before", b["before"] = <<SlotValue(args[i])>>
        PROVE  r.before \in Seq(Signatures)
    <3>1. args[i].key = "before" /\ SlotValue(args[i]) = args[i].value
      BY <2>2 DEF Slot, SlotValue
    <3>2. args[i].value \in Seq(Signatures)
      BY <1>3, <3>1 DEF WellTyped
    <3>3. r.before = SlotValue(args[i])
      BY <1>4, <2>2, OrElseOfSome
    <3> QED
      BY <3>1, <3>2, <3>3
  <2> QED
    BY <1>6, <2>1, <2>2 DEF Slots
<1>8. r.map = <<>> \/ \E m \in Signatures : r.map = <<m>>
  <2>1. ASSUME NEW i \in 1 .. n, Slot(args[i]) = "map", b["map"] = <<SlotValue(args[i])>>
        PROVE  \E m \in Signatures : r.map = <<m>>
    <3>1. args[i].key = "map" /\ SlotValue(args[i]) = args[i].value
      BY <2>1 DEF Slot, SlotValue
    <3>2. args[i].value \in Signatures
      BY <1>3, <3>1 DEF WellTyped
    <3> QED
      BY <1>4, <2>1, <3>1, <3>2
  <2> QED
    BY <1>4, <1>6, <2>1 DEF Slots
<1>9. r.pathType = <<>> \/ \E t \in DataTypes : r.pathType = <<t>>
  <2>1. ASSUME NEW i \in 1 .. n, Slot(args[i]) = "path", b["path"] = <<SlotValue(args[i])>>
        PROVE  \E t \in DataTypes : r.pathType = <<t>>
    <3>1. args[i].key = "path" /\ SlotValue(args[i]) = args[i].value
      BY <2>1 DEF Slot, SlotValue
    <3>2. args[i].value \in DataTypes
      BY <1>3, <3>1 DEF WellTyped
    <3> QED
      BY <1>4, <2>1, <3>1, <3>2
  <2> QED
    BY <1>4, <1>6, <2>1 DEF Slots
<1>10. r.queryType = <<>> \/ \E t \in DataTypes : r.queryType = <<t>>
  <2>1. ASSUME NEW i \in 1 .. n, Slot(args[i]) = "query", b["query"] = <<SlotValue(args[i])>>
        PROVE  \E t \in DataTypes : r.queryType = <<t>>
    <3>1. args[i].key = "query" /\ SlotValue(args[i]) = args[i].value
      BY <2>1 DEF Slot, SlotValue
    <3>2. args[i].value \in DataTypes
      BY <1>3, <3>1 DEF WellTyped
    <3> QED
      BY <1>4, <2>1, <3>1, <3>2
  <2> QED
    BY <1>4, <1>6, <2>1 DEF Slots
<1>11. r.data.kind \in {"none", "json", "form", "multipart"}
  <2>1. CASE b["data"] = <<>>
    BY <1>4, <2>1 DEF OrElse
  <2>2. ASSUME NEW i \in 1 .. n, Slot(args[i]) = "data", b["data"] = <<SlotValue(args[i])>>,
               Parses(args[i])
        PROVE  r.data.kind \in {"none", "json", "form", "multipart"}
    <3>1. args[i].key \in {"json", "form", "multipart"}
      BY <2>2 DEF Slot, Parses, Assignable
    <3>2. r.data = SlotValue(args[i])
      BY <1>4, <2>2, OrElseOfSome
    <3>3. SlotValue(args[i]).kind = args[i].key
      BY <2>2 DEF SlotValue
    <3> QED
      BY <3>1, <3>2, <3>3
  <2> QED
    BY <1>6, <2>1, <2>2 DEF Slots
<1> QED
  BY <1>7, <1>8, <1>9, <1>10, <1>11 DEF RouteTyped, r

-----------------------------------------------------------------------------
(***************************************************************************)
(* The life of a request: its errors, its events and its log.              *)
(***************************************************************************)

(* An error has a status and is of one of four families. *)
IsAnError(e) ==
  /\ e.status \in 100 .. 599
  /\ e.family \in {"core", "pipeline", "http", "custom"}
  /\ e.details => e.family = "pipeline"

(* Every error of the two enums, or of a handler, is one. *)
LEMMA FailuresAreErrors ==
  ASSUME NEW e \in AnyError
  PROVE  IsAnError(e) /\ e # NoError /\ IsFramework(e) = (e.family # "custom")
<1>1. CASE \E c \in CoreCodes : e = Core(c)
  <2>1. \A c \in CoreCodes : CoreStatus(c) \in {400, 404, 405, 502, 504}
    BY DEF CoreCodes, CoreStatus
  <2> QED
    BY <1>1, <2>1 DEF Core, ErrorOf, IsAnError, NoError, IsFramework
<1>2. CASE \E c \in PipelineCodes : e = Pipe(c)
  <2>1. \A c \in PipelineCodes : PipelineStatus(c) \in {400, 413, 415, 500}
    BY DEF PipelineCodes, PipelineStatus
  <2> QED
    BY <1>2, <2>1 DEF Pipe, ErrorOf, IsAnError, NoError, IsFramework
<1>3. CASE \E n \in 100 .. 599 : e = Http(n) \/ e = Custom(n)
  BY <1>3 DEF Http, Custom, ErrorOf, IsAnError, NoError, IsFramework
<1> QED
  BY <1>1, <1>2, <1>3 DEF AnyError

(* The life of a request in the pipeline. *)

Begun(e) == [kind |-> "RequestStart", error |-> e]
Ended(e) == [kind |-> IF IsFramework(e) THEN "PipelineFailedFramework"
                                        ELSE "PipelineFailedCustom", error |-> e]

Before == {"declared", "rejected", "ready"}
Live   == {"ready", "running", "forwarded", "failed", "gone"}

(* What never changes is a case of the constant. *)
GivenOK ==
  /\ AttrsTyped(given.attrs)
  /\ given.request \in ClientRequests
  /\ given.verbosity \in DOMAIN Severity
  /\ given.shared \in [DataTypes -> Origins \union {Absent}]
  /\ given.calls \in Nat

RouteOK ==
  /\ stage # "declared" /\ Expands(given.attrs) => route = ExpandRoute(given.attrs)
  /\ stage \in Live => Expands(given.attrs) /\ Compiles(route)

(* The account of a request: its error, its events and its log lines. *)
AccountOK ==
  /\ stage \in Stages
  /\ stage # "failed" => error = NoError
  /\ stage = "failed" => error \in AnyError
  /\ stage \in Before => emitted = <<>> /\ logs = <<>>
  /\ stage \in {"running", "forwarded", "gone"} =>
       /\ emitted = <<Begun(NoError)>>
       /\ logs = Observe("RequestStart", NoError, given.verbosity)
  /\ stage = "failed" =>
       /\ emitted = <<Begun(NoError), Ended(error)>>
       /\ logs = Observe("RequestStart", NoError, given.verbosity)
                 \o Observe(Ended(error).kind, error, given.verbosity)

LifeOK == GivenOK /\ RouteOK /\ AccountOK

(* What the recursive function inside UserCode is. *)
CallsFrom(f, sig, h, s, t, n) ==
  f = [k \in 0 .. n |->
         IF k = 0 THEN {Outcome(h, s, t, NoError)}
         ELSE UNION {{o} \union Effects(sig, o.head, o.scope, o.trail) : o \in f[k - 1]}]

(* The recursion of UserCode defines a function. *)
LEMMA CallsAreDefined ==
  ASSUME NEW sig, NEW h, NEW s, NEW t, NEW n \in Nat
  PROVE  \E f : CallsFrom(f, sig, h, s, t, n)
<1> DEFINE first == {Outcome(h, s, t, NoError)}
           More(set) == UNION {{o} \union Effects(sig, o.head, o.scope, o.trail) : o \in set}
           Good == {m \in Nat : \E f : CallsFrom(f, sig, h, s, t, m)}
<1>1. 0 \in Good
  <2>1. CallsFrom([k \in 0 .. 0 |-> first], sig, h, s, t, 0)
    BY DEF CallsFrom
  <2> QED
    BY <2>1
<1>2. ASSUME NEW m \in Nat, m \in Good PROVE m + 1 \in Good
  <2>1. PICK f : CallsFrom(f, sig, h, s, t, m)
    BY <1>2
  <2>2. f = [k \in 0 .. m |-> IF k = 0 THEN first ELSE More(f[k - 1])]
    BY <2>1 DEF CallsFrom
  <2> HIDE DEF first, More
  <2> DEFINE g == [k \in 0 .. m + 1 |-> IF k = m + 1 THEN More(f[m]) ELSE f[k]]
  <2>3. \A k \in 0 .. m + 1 : g[k] = IF k = 0 THEN first ELSE More(g[k - 1])
    <3>1. SUFFICES ASSUME NEW k \in 0 .. m + 1
                   PROVE  g[k] = IF k = 0 THEN first ELSE More(g[k - 1])
      OBVIOUS
    <3>2. CASE k = m + 1
      BY <3>2
    <3>3. CASE k # m + 1
      <4>1. k \in 0 .. m /\ g[k] = f[k] /\ (k # 0 => g[k - 1] = f[k - 1])
        BY <3>3
      <4>2. f[k] = IF k = 0 THEN first ELSE More(f[k - 1])
        BY <2>2, <4>1
      <4> QED
        BY <4>1, <4>2
    <3> QED
      BY <3>2, <3>3
  <2>4. g = [k \in 0 .. m + 1 |-> IF k = 0 THEN first ELSE More(g[k - 1])]
    BY <2>3
  <2> HIDE DEF g
  <2>5. CallsFrom(g, sig, h, s, t, m + 1)
    BY <2>4 DEF CallsFrom, first, More
  <2> QED
    BY <2>5
<1>3. \A m \in Nat : m \in Good => m + 1 \in Good
  BY <1>2
<1> HIDE DEF Good
<1>4. Nat \subseteq Good
  BY <1>1, <1>3, NoLeastBad
<1> QED
  BY <1>4 DEF Good

(* The calls of a handler come one by one: what holds before the first and *)
(* outlives each of them holds when the handler returns.                   *)
LEMMA CallsOneByOne ==
  ASSUME GivenOK, NEW sig, NEW h, NEW s, NEW t
  PROVE  \E All :
           /\ Outcome(h, s, t, NoError) \in All
           /\ \A o \in UserCode(sig, h, s, t) : \E p \in All : o \in Returns(p)
           /\ \A Good :
                /\ Outcome(h, s, t, NoError) \in Good
                /\ \A p \in Good \intersect All :
                     Effects(sig, p.head, p.scope, p.trail) \intersect All \subseteq Good
                => All \subseteq Good
<1> DEFINE n == given.calls
           f == CHOOSE g : CallsFrom(g, sig, h, s, t, n)
           first == Outcome(h, s, t, NoError)
           More(o) == Effects(sig, o.head, o.scope, o.trail)
           OneMore(set) == UNION {{o} \union More(o) : o \in set}
           All == UNION {f[k] : k \in 0 .. n}
<1>1. n \in Nat
  BY DEF GivenOK
<1>2. UserCode(sig, h, s, t) = UNION {Returns(o) : o \in f[n]}
  BY DEF UserCode, CallsFrom
<1>3. CallsFrom(f, sig, h, s, t, n)
  <2> HIDE DEF n
  <2> QED
    BY <1>1, CallsAreDefined
<1> HIDE DEF n, f, first
<1>4. \A k \in 0 .. n : f[k] = IF k = 0 THEN {first} ELSE OneMore(f[k - 1])
  BY <1>3 DEF CallsFrom, first
<1> HIDE DEF More, OneMore
<1>5. first \in All
  <2>1. 0 \in 0 .. n /\ f[0] = {first}
    BY <1>1, <1>4
  <2> QED
    BY <2>1
<1>6. \A o \in UserCode(sig, h, s, t) : \E p \in All : o \in Returns(p)
  BY <1>1, <1>2
<1>7. ASSUME NEW Good, first \in Good,
             \A p \in Good \intersect All : More(p) \intersect All \subseteq Good
      PROVE  All \subseteq Good
  <2> DEFINE Ks == {k \in Nat : k <= n => f[k] \subseteq Good}
  <2>1. 0 \in Ks
    <3>1. f[0] = {first}
      BY <1>1, <1>4
    <3> QED
      BY <1>7, <3>1
  <2>2. \A k \in Nat : k \in Ks => k + 1 \in Ks
    <3>1. SUFFICES ASSUME NEW k \in Nat, k \in Ks, k + 1 <= n, NEW q \in f[k + 1]
                   PROVE  q \in Good
      OBVIOUS
    <3>2. k \in 0 .. n /\ k + 1 \in 0 .. n /\ k + 1 # 0 /\ (k + 1) - 1 = k
      BY <1>1, <3>1
    <3>3. f[k] \subseteq Good /\ f[k] \subseteq All /\ q \in All
      BY <3>1, <3>2
    <3>4. f[k + 1] = OneMore(f[k])
      BY <1>4, <3>2
    <3>5. PICK o \in f[k] : q \in {o} \union More(o)
      BY <3>1, <3>4 DEF OneMore
    <3> QED
      BY <1>7, <3>3, <3>5
  <2> HIDE DEF Ks
  <2>3. Nat \subseteq Ks
    BY <2>1, <2>2, NoLeastBad
  <2> QED
    BY <1>1, <2>3 DEF Ks
<1> QED
  BY <1>5, <1>6, <1>7 DEF first, More

(* An error that a handler returns is one of them. *)
LEMMA HandlersFailWithErrors ==
  ASSUME GivenOK, NEW sig, NEW o \in Call(sig), o.error # NoError
  PROVE  o.error \in AnyError
<1>1. Pipe("missing_from_scope") \in AnyError /\ \A s : Pipe(ReadFailure(s)) \in AnyError
  BY DEF AnyError, PipelineCodes, ReadFailure
<1>2. ASSUME NEW h, NEW s, NEW t, NEW q \in Effects(sig, h, s, t)
      PROVE  q.error \in AnyError \union {NoError}
  <2>1. CASE \E types : q \in MutEffects(h, s, t, types)
    BY <2>1 DEF MutEffects, Outcome
  <2>2. CASE q \in CtxEffects(h, s, t)
    <3>1. PICK a, b, c : q = Outcome(a, b, c, NoError)
      BY <2>2 DEF CtxEffects
    <3> QED
      BY <3>1 DEF Outcome
  <2>3. CASE q \in ScopeEffects(h, s, t)
    BY <1>1, <2>1, <2>3 DEF ScopeEffects, Outcome
  <2> QED
    BY <1>2, <2>1, <2>2, <2>3 DEF Effects
<1>3. ASSUME NEW h, NEW s, NEW t, o \in UserCode(sig, h, s, t)
      PROVE  o.error \in AnyError
  <2> DEFINE first == Outcome(h, s, t, NoError)
             More(p) == Effects(sig, p.head, p.scope, p.trail)
  <2>1. PICK All :
          /\ first \in All
          /\ \A p \in UserCode(sig, h, s, t) : \E q \in All : p \in Returns(q)
          /\ \A Good : first \in Good
                       /\ (\A p \in Good \intersect All : More(p) \intersect All \subseteq Good)
                       => All \subseteq Good
    BY CallsOneByOne
  <2> DEFINE Good == {p \in All : p.error \in AnyError \union {NoError}}
  <2>2. first \in Good
    BY <2>1 DEF Outcome
  <2>3. \A p \in Good \intersect All : More(p) \intersect All \subseteq Good
    BY <1>2
  <2> HIDE DEF Good, More, first
  <2>4. All \subseteq Good
    BY <2>1, <2>2, <2>3
  <2>5. PICK q \in Good : o \in Returns(q)
    BY <1>3, <2>1, <2>4
  <2>6. q.error \in AnyError \union {NoError}
    BY DEF Good
  <2> HIDE DEF Good
  <2>7. \/ o = q
        \/ o.error = NoError
        \/ \E e \in HandlerErrors : o.error = e
    BY <2>5 DEF Returns, Outcome
  <2>8. \A e \in HandlerErrors : e \in AnyError
    BY HandlerErrorsAssumption
  <2> QED
    BY <2>6, <2>7, <2>8
<1> QED
  BY <1>1, <1>3 DEF Call, Outcome

(* Every step inside a pipeline goes on, fails or ends it. *)
Fails == \E e \in AnyError : Fail(e)
Ends  == \E body : Forward(body)

(* Every action of a running pipeline goes on, fails or ends it. *)
LEMMA StepsOfAPipeline ==
  ASSUME GivenOK, Next
  PROVE  \/ Expand \/ Start \/ Disconnect
         \/ stage = "running" /\ (Advance \/ Fails \/ Ends)
<1>1. \A c \in PipelineCodes : Pipe(c) \in AnyError
  BY DEF AnyError
<1>2. \A c \in CoreCodes : Core(c) \in AnyError
  BY DEF AnyError
<1> USE DEF Reaches
<1>3. CASE ExtractPath
  <2>1. Core("invalid_path_parameters") \in AnyError
    BY <1>2 DEF CoreCodes
  <2> QED
    BY <1>3, <2>1 DEF ExtractPath, Extract, Fails
<1>4. CASE ExtractQuery
  <2>1. Pipe("invalid_query") \in AnyError
    BY <1>1 DEF PipelineCodes
  <2> QED
    BY <1>4, <2>1 DEF ExtractQuery, Extract, Fails
<1>5. CASE RunHook
  BY <1>5, HandlersFailWithErrors DEF RunHook, Fails
<1>6. CASE RunMapOnBody
  <2>1. Pipe("serialize_mapped_json_failed") \in AnyError
        /\ Pipe("serialize_mapped_form_failed") \in AnyError
    BY <1>1 DEF PipelineCodes
  <2> QED
    BY <1>6, <2>1, HandlersFailWithErrors DEF RunMapOnBody, Fails, Ends
<1>7. CASE RunMapOnQuery
  <2>1. Pipe("serialize_mapped_form_failed") \in AnyError
        /\ Pipe("rebuild_uri_failed") \in AnyError
    BY <1>1 DEF PipelineCodes
  <2> QED
    BY <1>7, <2>1, HandlersFailWithErrors DEF RunMapOnQuery, Fails
<1>8. CASE CheckContentType
  <2>1. Pipe("expected_form_urlencoded") \in AnyError
        /\ Pipe("expected_multipart_form_data") \in AnyError
    BY <1>1 DEF PipelineCodes
  <2> QED
    BY <1>8, <2>1 DEF CheckContentType, Check, Fails
<1>9. CASE ParseQueryData
  <2>1. Pipe("invalid_form_query") \in AnyError
    BY <1>1 DEF PipelineCodes
  <2> QED
    BY <1>9, <2>1 DEF ParseQueryData, Check, Fails
<1>10. CASE ParseBody
  <2>1. Pipe("invalid_json_body") \in AnyError /\ Pipe("invalid_form_body") \in AnyError
    BY <1>1 DEF PipelineCodes
  <2> QED
    BY <1>10, <2>1 DEF ParseBody, Check, Fails
<1>11. CASE CloneRaw
  <2>1. Pipe("missing_from_scope") \in AnyError
    BY <1>1 DEF PipelineCodes
  <2> QED
    BY <1>11, <2>1 DEF CloneRaw, Check, Fails
<1>12. CASE ReadBody
  <2>1. Pipe(ReadFailure(scope)) \in AnyError
    BY <1>1 DEF PipelineCodes, ReadFailure
  <2> QED
    BY <1>12, <2>1 DEF ReadBody, Fails
<1>13. CASE TakeBody
  <2>1. Pipe("request_body_already_consumed") \in AnyError
    BY <1>1 DEF PipelineCodes
  <2> QED
    BY <1>13, <2>1 DEF TakeBody, Fails, Ends
<1>14. CASE KeepBytes
  BY <1>14 DEF KeepBytes, Ends
<1> QED
  BY <1>3, <1>4, <1>5, <1>6, <1>7, <1>8, <1>9, <1>10, <1>11, <1>12, <1>13, <1>14 DEF Next

(* A list of one member that grows. *)
LEMMA AppendToOne ==
  ASSUME NEW x, NEW y
  PROVE  Append(<<x>>, y) = <<x, y>>
<1> DEFINE s == <<x>>
           t == Append(s, y)
           u == <<x, y>>
<1>1. IsList(s) /\ Len(s) = 1 /\ s[1] = x
  <2>1. s \in Seq({x})
    OBVIOUS
  <2> QED
    BY <2>1 DEF IsList
<1> HIDE DEF s
<1>2. IsList(t) /\ Len(t) = 2 /\ t[1] = x /\ t[2] = y
  <2>1. /\ IsList(Append(s, y)) /\ Len(Append(s, y)) = Len(s) + 1
        /\ DOMAIN Append(s, y) = 1 .. Len(s) + 1
        /\ \A k \in 1 .. Len(s) : Append(s, y)[k] = s[k]
        /\ Append(s, y)[Len(s) + 1] = y
    BY <1>1, AppendSeq, Zenon
  <2>2. IsList(t) /\ Len(t) = Len(s) + 1 /\ t[Len(s) + 1] = y
    BY <2>1, Zenon
  <2>3. \A k \in 1 .. Len(s) : t[k] = s[k]
    BY <2>1, Zenon
  <2> HIDE DEF t
  <2> QED
    BY <1>1, <2>2, <2>3
<1>3. IsList(u) /\ Len(u) = 2 /\ u[1] = x /\ u[2] = y
  <2>1. u \in Seq({x, y})
    OBVIOUS
  <2>2. Len(u) = 2 /\ u[1] = x /\ u[2] = y
    OBVIOUS
  <2> HIDE DEF u
  <2> QED
    BY <2>1, <2>2 DEF IsList
<1> HIDE DEF t, u
<1>4. t = u
  BY <1>2, <1>3, SameList
<1> QED
  BY <1>4 DEF s, t, u

(* A request is born with no events and no log lines. *)
LEMMA InitLife ==
  ASSUME Init
  PROVE  LifeOK
<1>1. PICK c \in Cases :
        \E attrs \in c.routes, request \in c.requests, verbosity \in c.levels :
          given = [attrs |-> attrs, request |-> request, shared |-> c.state,
                   verbosity |-> verbosity, calls |-> c.calls]
  BY DEF Init
<1>2. GivenOK
  BY <1>1, CasesAssumption DEF GivenOK, AttrsTyped
<1>3. RouteOK /\ AccountOK
  BY DEF Init, RouteOK, AccountOK, Live, Before, Stages
<1> QED
  BY <1>2, <1>3 DEF LifeOK

(* Every step keeps the account of a request. *)
LEMMA NextLife ==
  ASSUME LifeOK, [Next]_vars
  PROVE  LifeOK'
<1> USE DEF LifeOK
<1>1. CASE UNCHANGED vars
  BY <1>1 DEF vars, work, told, GivenOK, RouteOK, AccountOK, Compiles, Begun, Ended
<1>2. CASE Expand
  <2>1. given' = given /\ stage = "declared" /\ stage' \in {"ready", "rejected"}
        /\ error' = error /\ emitted' = emitted /\ logs' = logs
    BY <1>2 DEF Expand, told
  <2>2. RouteOK'
    BY <1>2 DEF Expand, RouteOK, Live, Compiles
  <2>3. AccountOK'
    BY <2>1 DEF AccountOK, Before, Stages
  <2> QED
    BY <2>1, <2>2, <2>3 DEF GivenOK
<1>3. CASE Start
  <2>1. /\ given' = given /\ route' = route /\ stage = "ready"
        /\ stage' \in {"running", "forwarded"} /\ error' = error
        /\ Emit("RequestStart", NoError)
    BY <1>3 DEF Start
  <2>2. emitted = <<>> /\ logs = <<>> /\ error = NoError
    BY <2>1 DEF AccountOK, Before
  <2>3. emitted' = <<Begun(NoError)>>
    BY <2>1, <2>2 DEF Emit, Begun
  <2>4. logs' = Observe("RequestStart", NoError, given.verbosity)
    <3>1. Observe("RequestStart", NoError, given.verbosity) \in Seq({Line("request", "debug", FALSE)})
      <4> DEFINE l == Line("request", "debug", FALSE)
      <4>1. Observe("RequestStart", NoError, given.verbosity) \in {<<>>, <<l>>}
        BY DEF Observe, Write
      <4>2. <<>> \in Seq({l}) /\ <<l>> \in Seq({l})
        BY EmptySeq
      <4> QED
        BY <4>1, <4>2
    <3> QED
      BY <2>1, <2>2, <3>1, ConcatEmptySeq DEF Emit
  <2>5. AccountOK'
    BY <2>1, <2>2, <2>3, <2>4 DEF AccountOK, Before, Stages, Begun
  <2>6. RouteOK'
    BY <2>1 DEF RouteOK, Live, Compiles
  <2> QED
    BY <2>1, <2>5, <2>6 DEF GivenOK
<1>4. CASE Disconnect
  <2>1. given' = given /\ route' = route /\ stage = "running" /\ stage' = "gone"
        /\ error' = error /\ emitted' = emitted /\ logs' = logs
    BY <1>4 DEF Disconnect, told
  <2> QED
    BY <2>1 DEF GivenOK, RouteOK, AccountOK, Live, Before, Stages, Compiles, Begun
<1>5. CASE stage = "running" /\ Advance
  <2>1. given' = given /\ route' = route /\ stage = "running" /\ stage' = stage
        /\ error' = error /\ emitted' = emitted /\ logs' = logs
    BY <1>5 DEF Advance, told
  <2> QED
    BY <2>1 DEF GivenOK, RouteOK, AccountOK, Live, Before, Stages, Compiles, Begun
<1>6. CASE stage = "running" /\ Ends
  <2>1. given' = given /\ route' = route /\ stage = "running" /\ stage' = "forwarded"
        /\ error' = error /\ emitted' = emitted /\ logs' = logs
    BY <1>6 DEF Ends, Forward, told
  <2> QED
    BY <2>1 DEF GivenOK, RouteOK, AccountOK, Live, Before, Stages, Compiles, Begun
<1>7. CASE stage = "running" /\ Fails
  <2>1. PICK e \in AnyError : Fail(e)
    BY <1>7 DEF Fails
  <2>2. /\ given' = given /\ route' = route /\ stage' = "failed" /\ error' = e
        /\ Emit(Ended(e).kind, e)
    BY <2>1 DEF Fail, Ended
  <2>3. emitted = <<Begun(NoError)>>
        /\ logs = Observe("RequestStart", NoError, given.verbosity)
    BY <1>7 DEF AccountOK
  <2>4. emitted' = <<Begun(NoError), Ended(e)>>
    <3> DEFINE x == Begun(NoError)
               y == Ended(e)
    <3>1. emitted' = Append(<<x>>, y)
      BY <2>2, <2>3 DEF Emit, Ended
    <3> HIDE DEF x, y
    <3>2. Append(<<x>>, y) = <<x, y>>
      BY AppendToOne
    <3> QED
      BY <3>1, <3>2 DEF x, y
  <2>5. logs' = Observe("RequestStart", NoError, given.verbosity)
                \o Observe(Ended(e).kind, e, given.verbosity)
    BY <2>2, <2>3 DEF Emit
  <2>6. AccountOK'
    BY <2>2, <2>4, <2>5 DEF AccountOK, Before, Stages, Begun, Ended
  <2>7. RouteOK'
    BY <1>7, <2>2 DEF RouteOK, Live, Compiles
  <2> QED
    BY <2>2, <2>6, <2>7 DEF GivenOK
<1> QED
  BY <1>1, <1>2, <1>3, <1>4, <1>5, <1>6, <1>7, StepsOfAPipeline DEF LifeOK

(***************************************************************************)
(* The life of a request is in order: a request keeps what it was given,   *)
(* its route is what the macros made of the declaration, and its events    *)
(* and its log lines are those of its outcome (the emit and log calls of   *)
(* pipeline.rs and observability.rs).                                      *)
(***************************************************************************)
THEOREM LifeInvariant == Spec => []LifeOK
<1>1. Init => LifeOK
  BY InitLife
<1>2. LifeOK /\ [Next]_vars => LifeOK'
  BY NextLife
<1> QED
  BY <1>1, <1>2, PTL DEF Spec

-----------------------------------------------------------------------------
(***************************************************************************)
(* What the macros and the log promise.                                    *)
(***************************************************************************)

(* Type-correct handlers. *)
LEMMA HandlersAreTyped ==
  ASSUME NEW r, RouteTyped(r)
  PROVE  RouteHandlers(r) \subseteq Signatures
<1>1. \A i \in DOMAIN r.before : r.before[i] \in Signatures
  <2>1. r.before \in [1 .. Len(r.before) -> Signatures]
    BY LenProperties DEF RouteTyped
  <2> QED
    BY <2>1
<1>2. \A i \in DOMAIN r.map : r.map[i] \in Signatures
  <2>1. CASE r.map = <<>>
    BY <2>1
  <2>2. CASE \E m \in Signatures : r.map = <<m>>
    BY <2>2
  <2> QED
    BY <2>1, <2>2 DEF RouteTyped
<1> QED
  BY <1>1, <1>2 DEF RouteHandlers, Range

(***************************************************************************)
(* The macros refuse a handler exactly when its generated lets could not   *)
(* compile, whatever its signature (expand.rs, validate_plans).            *)
(***************************************************************************)
THEOREM MacrosRefuseWhatCannotBind == Spec => []RefusedExactlyWhenUnbindable
<1>1. LifeOK => RefusedExactlyWhenUnbindable
  <2>1. SUFFICES ASSUME LifeOK, stage \in {"rejected", "ready"}, Expands(given.attrs),
                        NEW sig \in RouteHandlers(route)
                 PROVE  ValidatePlans(sig) <=> ~BorrowsClash(Bindings(sig))
    BY DEF RefusedExactlyWhenUnbindable
  <2>2. RouteTyped(route)
    BY <2>1, ExpandedRouteIsTyped DEF LifeOK, GivenOK, RouteOK
  <2>3. sig \in Signatures
    BY <2>1, <2>2, HandlersAreTyped
  <2> QED
    BY <2>3, ValidWhenNothingClashes
<1> QED
  BY <1>1, LifeInvariant, PTL

(***************************************************************************)
(* The order of a route's arguments does not matter, however many there    *)
(* are (route.rs, RouteArgsBuilder::apply).                                *)
(***************************************************************************)
THEOREM ArgumentsInAnyOrder == Spec => []ArgumentOrderIsIrrelevant
<1>1. LifeOK => ArgumentOrderIsIrrelevant
  <2>1. SUFFICES ASSUME LifeOK, NEW i \in DOMAIN given.attrs,
                        NEW p \in Bijection(DOMAIN given.attrs[i].args,
                                            DOMAIN given.attrs[i].args)
                 PROVE  LET args  == given.attrs[i].args
                            other == RouteArgs([k \in DOMAIN args |-> args[p[k]]])
                        IN  IF RouteArgs(args).valid THEN other = RouteArgs(args)
                                                     ELSE ~other.valid
    BY DEF ArgumentOrderIsIrrelevant
  <2> DEFINE args == given.attrs[i].args
  <2>2. Len(args) \in Nat /\ DOMAIN args = 1 .. Len(args)
    BY <2>1 DEF LifeOK, GivenOK, AttrsTyped
  <2>3. p \in Bijection(DOMAIN args, DOMAIN args)
    BY <2>1
  <2> HIDE DEF args
  <2> DEFINE other == RouteArgs([k \in DOMAIN args |-> args[p[k]]])
  <2>4. other = RouteArgs([k \in DOMAIN args |-> args[p[k]]])
    OBVIOUS
  <2> HIDE DEF other
  <2>5. IF RouteArgs(args).valid THEN other = RouteArgs(args) ELSE ~other.valid
    BY <2>2, <2>3, <2>4, OrderOfArgumentsIsIrrelevant
  <2> QED
    BY <2>5 DEF args, other
<1> QED
  BY <1>1, LifeInvariant, PTL

(* The log of a request. *)

(* A list of one member. *)
LEMMA ListOfOne ==
  ASSUME NEW x
  PROVE  IsList(<<x>>) /\ Len(<<x>>) = 1 /\ <<x>>[1] = x
<1>1. <<x>> \in Seq({x})
  OBVIOUS
<1> QED
  BY <1>1 DEF IsList

(* The empty list is a list. *)
LEMMA EmptyList == IsList(<<>>) /\ Len(<<>>) = 0
<1>1. <<>> \in Seq({})
  BY EmptySeq
<1> QED
  BY <1>1 DEF IsList

(* A line is written alone, or not at all. *)
LEMMA WriteWrites ==
  ASSUME NEW l, NEW v
  PROVE  /\ IsList(Write(l, v)) /\ Len(Write(l, v)) \in {0, 1}
         /\ Len(Write(l, v)) = 1 <=> Enabled(l.level, v)
         /\ \A i \in 1 .. Len(Write(l, v)) : Write(l, v)[i] = l
<1>1. CASE Enabled(l.level, v)
  BY <1>1, ListOfOne DEF Write
<1>2. CASE ~Enabled(l.level, v)
  BY <1>2, EmptyList DEF Write
<1> QED
  BY <1>1, <1>2

StartLine == Line("request", "debug", FALSE)
FailLine(e) == FailureLine("pipeline", e)
DetailLine  == Line("pipeline", "debug", TRUE)

(* A started request is logged only where debug lines are. *)
LEMMA StartIsLoggedAtDebug ==
  ASSUME NEW v
  PROVE  LET log == Observe("RequestStart", NoError, v)
         IN  /\ IsList(log) /\ \A i \in 1 .. Len(log) : log[i] = StartLine
<1>1. Observe("RequestStart", NoError, v) = Write(StartLine, v)
  BY DEF Observe, StartLine
<1> QED
  BY <1>1, WriteWrites

(* A failure writes its line if that is enabled, and details after it. *)
LEMMA FailureIsLogged ==
  ASSUME NEW e \in AnyError, NEW v \in DOMAIN Severity
  PROVE  LET log == Observe(Ended(e).kind, e, v)
             n   == Len(Write(FailLine(e), v))
         IN  /\ IsList(log) /\ n \in {0, 1} /\ n <= Len(log)
             /\ n = 1 <=> IsServerError(e) \/ v # "warn"
             /\ \A i \in 1 .. n : log[i] = FailLine(e)
             /\ \A i \in n + 1 .. Len(log) : log[i] = DetailLine /\ v = "debug"
<1> DEFINE log == Observe(Ended(e).kind, e, v)
           w == Write(FailLine(e), v)
           d == DetailLines("pipeline", e, v)
           n == Len(w)
<1>1. v \in {"debug", "info", "warn"}
  BY DEF Severity
<1>2. /\ Enabled("warn", v) /\ (Enabled("info", v) <=> v # "warn")
      /\ (Enabled("debug", v) <=> v = "debug")
  BY <1>1 DEF Enabled, Severity
<1>3. /\ IsList(w) /\ n \in {0, 1} /\ \A i \in 1 .. n : w[i] = FailLine(e)
      /\ n = 1 <=> Enabled(FailLine(e).level, v)
  BY WriteWrites
<1>4. n = 1 <=> IsServerError(e) \/ v # "warn"
  BY <1>2, <1>3 DEF FailLine, FailureLine, Line
<1>5. IsList(d) /\ Len(d) \in {0, 1} /\ \A i \in 1 .. Len(d) : d[i] = DetailLine /\ v = "debug"
  <2>1. CASE e.details
    <3>1. d = Write(DetailLine, v)
      BY <2>1 DEF DetailLines, DetailLine
    <3>2. DetailLine.level = "debug"
      BY DEF DetailLine, Line
    <3> QED
      BY <1>2, <3>1, <3>2, WriteWrites
  <2>2. CASE ~e.details
    BY <2>2, EmptyList DEF DetailLines
  <2> QED
    BY <2>1, <2>2
<1>6. CASE IsFramework(e)
  <2>1. log = w \o d
    BY <1>6 DEF Observe, Ended, FailLine
  <2> HIDE DEF w, d, log
  <2>2. /\ IsList(log) /\ Len(log) = Len(w) + Len(d)
        /\ \A k \in 1 .. Len(w) : log[k] = w[k]
        /\ \A k \in 1 .. Len(d) : log[Len(w) + k] = d[k]
    BY <1>3, <1>5, <2>1, ConcatSeq
  <2>3. \A i \in n + 1 .. Len(log) : log[i] = DetailLine /\ v = "debug"
    <3>1. SUFFICES ASSUME NEW i \in n + 1 .. Len(log)
                   PROVE  log[i] = DetailLine /\ v = "debug"
      OBVIOUS
    <3>2. i - n \in 1 .. Len(d) /\ n + (i - n) = i
      BY <1>3, <1>5, <2>2
    <3> QED
      BY <1>5, <2>2, <3>2
  <2>4. n <= Len(log)
    BY <1>3, <1>5, <2>2
  <2>5. \A i \in 1 .. n : log[i] = FailLine(e)
    BY <1>3, <2>2
  <2> QED
    BY <1>3, <1>4, <2>2, <2>3, <2>4, <2>5 DEF w, log
<1>7. CASE ~IsFramework(e)
  <2>1. log = w
    BY <1>7 DEF Observe, Ended, FailLine, CustomFailureLine
  <2> HIDE DEF w, log
  <2> QED
    BY <1>3, <1>4, <2>1 DEF w, log
<1> QED
  BY <1>6, <1>7

(* The account of a request that failed says which lines it wrote. *)
LEMMA LifeLogsFailures == LifeOK => FailuresAreLogged
<1> SUFFICES ASSUME LifeOK PROVE FailuresAreLogged
  OBVIOUS
<1> USE DEF LifeOK
<1> DEFINE v == given.verbosity
           failures == {i \in DOMAIN logs : logs[i].target = "pipeline" /\ ~logs[i].details}
           start == Observe("RequestStart", NoError, v)
<1>0. /\ StartLine.target = "request" /\ StartLine.details = FALSE
      /\ DetailLine.details = TRUE
      /\ \A e : /\ FailLine(e).target = "pipeline" /\ FailLine(e).details = FALSE
                /\ (FailLine(e).level = "warn") = IsServerError(e)
  BY DEF StartLine, DetailLine, FailLine, FailureLine, Line, IsServerError
<1>1. IsList(start) /\ Len(start) \in Nat /\ \A i \in 1 .. Len(start) : start[i] = StartLine
  BY StartIsLoggedAtDebug, SeqFacts
<1> HIDE DEF start
<1>2. CASE stage # "failed"
  <2>1. logs = <<>> \/ logs = start
    BY <1>2 DEF AccountOK, Stages, Before, start
  <2>2. \A i \in DOMAIN logs : logs[i] = StartLine
    BY <1>1, <2>1, EmptyList, SeqFacts
  <2>3. failures = {}
    BY <1>0, <2>2
  <2>4. Cardinality({}) = 0
    BY FS_EmptySet
  <2> QED
    BY <1>0, <1>2, <2>2, <2>3, <2>4 DEF FailuresAreLogged
<1>3. CASE stage = "failed"
  <2> DEFINE e == error
             end == Observe(Ended(e).kind, e, v)
             n == Len(Write(FailLine(e), v))
             a == Len(start)
  <2>1. e \in AnyError /\ v \in DOMAIN Severity
    BY <1>3 DEF AccountOK, GivenOK
  <2>2. /\ IsList(end) /\ n \in {0, 1} /\ n <= Len(end)
        /\ n = 1 <=> IsServerError(e) \/ v # "warn"
        /\ \A i \in 1 .. n : end[i] = FailLine(e)
        /\ \A i \in n + 1 .. Len(end) : end[i] = DetailLine /\ v = "debug"
    BY <2>1, FailureIsLogged
  <2>3. logs = start \o end
    BY <1>3 DEF AccountOK, start
  <2> HIDE DEF end, n, e
  <2>4. /\ IsList(logs) /\ Len(logs) = Len(start) + Len(end)
        /\ DOMAIN logs = 1 .. Len(start) + Len(end)
        /\ \A k \in 1 .. Len(start) : logs[k] = start[k]
        /\ \A k \in 1 .. Len(end) : logs[Len(start) + k] = end[k]
    BY <1>1, <2>2, <2>3, ConcatSeq
  <2> HIDE DEF a
  <2>n. a = Len(start) /\ a \in Nat /\ Len(end) \in Nat /\ n \in Nat
    BY <1>1, <2>2, SeqFacts DEF a
  <2>5. \A i \in 1 .. a : logs[i] = StartLine
    BY <1>1, <2>4, <2>n
  <2>6. \A i \in a + 1 .. a + n : logs[i] = FailLine(e)
    <3>1. SUFFICES ASSUME NEW i \in a + 1 .. a + n PROVE logs[i] = FailLine(e)
      OBVIOUS
    <3>2. i - a \in 1 .. n /\ i - a \in 1 .. Len(end) /\ a + (i - a) = i
      BY <2>2, <2>n
    <3> QED
      BY <2>2, <2>4, <2>n, <3>2
  <2>7. \A i \in a + n + 1 .. a + Len(end) : logs[i] = DetailLine /\ v = "debug"
    <3>1. SUFFICES ASSUME NEW i \in a + n + 1 .. a + Len(end)
                   PROVE  logs[i] = DetailLine /\ v = "debug"
      OBVIOUS
    <3>2. i - a \in n + 1 .. Len(end) /\ i - a \in 1 .. Len(end) /\ a + (i - a) = i
      BY <2>2, <2>n
    <3> QED
      BY <2>2, <2>4, <2>n, <3>2
  <2>8. \A i \in DOMAIN logs : i \in 1 .. a \/ i \in a + 1 .. a + n
                                \/ i \in a + n + 1 .. a + Len(end)
    BY <2>2, <2>4, <2>n
  <2>9. failures = a + 1 .. a + n
    <3>1. ASSUME NEW i \in failures PROVE i \in a + 1 .. a + n
      BY <1>0, <2>5, <2>7, <2>8
    <3>2. ASSUME NEW i \in a + 1 .. a + n PROVE i \in failures
      <4>1. i \in DOMAIN logs
        BY <2>2, <2>4, <2>n
      <4> QED
        BY <1>0, <2>6, <4>1
    <3> QED
      BY <3>1, <3>2
  <2>10. Cardinality(failures) = IF IsServerError(e) \/ v # "warn" THEN 1 ELSE 0
    <3>1. Cardinality(a + 1 .. a + n) = IF a + 1 > a + n THEN 0 ELSE (a + n) - (a + 1) + 1
      <4>1. a + 1 \in Int /\ a + n \in Int
        BY <2>n
      <4> QED
        BY <4>1, FS_Interval
    <3>2. Cardinality(failures) = n
      <4>1. Cardinality(failures) = Cardinality(a + 1 .. a + n)
        BY <2>9
      <4>2. Cardinality(a + 1 .. a + n) = n
        BY <2>2, <2>n, <3>1
      <4> QED
        BY <4>1, <4>2
    <3> QED
      BY <2>2, <3>2
  <2>11. \A i \in failures : (logs[i].level = "warn") = (Render(error).status >= 500)
    <3>1. IsAnError(e)
      BY <2>1, FailuresAreErrors
    <3>2. IsServerError(e) = (Render(e).status >= 500)
      BY <3>1 DEF IsAnError, IsServerError, Render
    <3> QED
      BY <1>0, <2>6, <2>9, <3>2 DEF e
  <2>12. \A i \in DOMAIN logs : logs[i].details => given.verbosity = "debug"
    BY <1>0, <2>5, <2>6, <2>7, <2>8
  <2> QED
    BY <1>3, <2>10, <2>11, <2>12 DEF FailuresAreLogged, e
<1> QED
  BY <1>2, <1>3

(***************************************************************************)
(* Every failed pipeline is logged once, as a warning exactly when it is   *)
(* the server's fault, and details only at debug level, for every error a  *)
(* pipeline can return (observability.rs).                                 *)
(***************************************************************************)
THEOREM FailuresAreLoggedOnce == Spec => []FailuresAreLogged
BY LifeLogsFailures, LifeInvariant, PTL

-----------------------------------------------------------------------------
(***************************************************************************)
(* The pipeline is one step of the dispatch of a request.                  *)
(***************************************************************************)

(* The events of the pipeline as Dispatch sees them. *)
Seen(e)   == [kind |-> e.kind, idx |-> -1, err |-> Family(e.error)]
AllSeen(s) == [k \in DOMAIN s |-> Seen(s[k])]

(* An event more is one more that Dispatch sees. *)
LEMMA AllSeenGrows ==
  ASSUME NEW s, IsList(s), NEW e
  PROVE  AllSeen(Append(s, e)) = Append(AllSeen(s), Seen(e))
<1> DEFINE t == Append(s, e)
           u == AllSeen(s)
           v == Append(u, Seen(e))
           n == Len(s)
<1>0. n \in Nat /\ DOMAIN s = 1 .. n
  BY SeqFacts
<1>1. /\ DOMAIN t = 1 .. n + 1
      /\ \A k \in 1 .. n : t[k] = s[k]
      /\ t[n + 1] = e
  BY AppendSeq
<1>2. IsList(u) /\ Len(u) = n /\ \A k \in 1 .. n : u[k] = Seen(s[k])
  <2>1. u \in [1 .. n -> {Seen(s[k]) : k \in 1 .. n}]
    BY <1>0 DEF AllSeen
  <2>2. u \in Seq({Seen(s[k]) : k \in 1 .. n})
    BY <1>0, <2>1, SeqDef
  <2>3. DOMAIN u = 1 .. n /\ \A k \in 1 .. n : u[k] = Seen(s[k])
    BY <1>0 DEF AllSeen
  <2> HIDE DEF u, n
  <2>4. Len(u) \in Nat /\ DOMAIN u = 1 .. Len(u)
    BY <2>2, LenProperties
  <2>5. Len(u) = n
    BY <1>0, <2>3, <2>4
  <2> QED
    BY <2>2, <2>3, <2>5 DEF IsList
<1> HIDE DEF u, n
<1>3. /\ IsList(v) /\ Len(v) = n + 1
      /\ \A k \in 1 .. n : v[k] = u[k]
      /\ v[n + 1] = Seen(e)
  <2>1. /\ IsList(v) /\ Len(v) = Len(u) + 1
        /\ \A k \in 1 .. Len(u) : v[k] = u[k]
        /\ v[Len(u) + 1] = Seen(e)
    BY <1>2, AppendSeq
  <2> QED
    BY <1>2, <2>1
<1> HIDE DEF t, v
<1> DEFINE w == AllSeen(t)
<1>4. DOMAIN w = 1 .. n + 1 /\ \A k \in 1 .. n + 1 : w[k] = Seen(t[k])
  BY <1>1 DEF AllSeen
<1>5. w \in Seq({Seen(t[k]) : k \in 1 .. n + 1}) /\ Len(w) = n + 1
  <2>1. w \in [1 .. n + 1 -> {Seen(t[k]) : k \in 1 .. n + 1}]
    <3>1. w = [k \in 1 .. n + 1 |-> Seen(t[k])]
      BY <1>1 DEF AllSeen
    <3> HIDE DEF w
    <3> QED
      BY <3>1
  <2> HIDE DEF w
  <2>2. w \in Seq({Seen(t[k]) : k \in 1 .. n + 1})
    <3>1. n + 1 \in Nat
      BY <1>0
    <3> QED
      BY <2>1, <3>1, SeqDef
  <2>3. Len(w) \in Nat /\ DOMAIN w = 1 .. Len(w)
    BY <2>2, LenProperties
  <2> QED
    BY <1>0, <1>4, <2>2, <2>3
<1> HIDE DEF w
<1>6. \A k \in 1 .. n + 1 : w[k] = v[k]
  <2>1. ASSUME NEW k \in 1 .. n + 1 PROVE w[k] = v[k]
    <3>1. CASE k \in 1 .. n
      BY <1>1, <1>2, <1>3, <1>4, <2>1, <3>1
    <3>2. CASE k = n + 1
      BY <1>1, <1>3, <1>4, <2>1, <3>2
    <3> QED
      BY <1>0, <2>1, <3>1, <3>2
  <2> QED
    BY <2>1
<1>7. w = v
  <2>1. IsList(w)
    BY <1>5 DEF IsList
  <2> QED
    BY <1>3, <1>5, <1>6, <2>1, SameList
<1> QED
  BY <1>7 DEF w, v, t, u

(* Dispatch's variables, as Pipeline implements them. *)
PhaseOf(s) == CASE s = "running"   -> "pipeline"
                [] s = "forwarded" -> "selecting"
                [] s = "failed"    -> "closed"
                [] s = "gone"      -> "gone"
                [] OTHER           -> "received"

(* A list of two members. *)
LEMMA ListOfTwo ==
  ASSUME NEW x, NEW y
  PROVE  IsList(<<x, y>>)
<1>1. <<x, y>> \in Seq({x, y})
  OBVIOUS
<1> QED
  BY <1>1 DEF IsList

(* The events of a request are a list of two at most. *)
LEMMA EventsAreAList == AccountOK => IsList(emitted)
<1> SUFFICES ASSUME AccountOK PROVE IsList(emitted)
  OBVIOUS
<1>1. CASE stage \in Before
  BY <1>1, EmptyList DEF AccountOK
<1>2. CASE stage \in {"running", "forwarded", "gone"}
  BY <1>2, ListOfOne DEF AccountOK
<1>3. CASE stage = "failed"
  <2>1. emitted = <<Begun(NoError), Ended(error)>>
    BY <1>3 DEF AccountOK
  <2> QED
    BY <2>1, ListOfTwo
<1> QED
  BY <1>1, <1>2, <1>3 DEF AccountOK, Stages, Before

(* A request of Pipeline is born as one of Dispatch. *)
LEMMA InitIsInit ==
  ASSUME Init
  PROVE  D!Init
<1>1. stage = "declared" /\ emitted = <<>> /\ error = NoError
  BY DEF Init
<1>2. AllSeen(<<>>) = <<>>
  BY DEF AllSeen
<1> QED
  BY <1>1, <1>2 DEF D!Init, D!None, D!Pending, Family, AllSeen, Seen

(* Every step of Pipeline is a step of Dispatch, or none that it sees. *)
LEMMA StepsAreSteps ==
  ASSUME LifeOK, [Next]_vars
  PROVE  [D!Next]_D!vars
<1>a. stage \in Stages /\ IsList(emitted) /\ (stage # "failed" => error = NoError)
  BY EventsAreAList DEF LifeOK, AccountOK
<1>1. ASSUME PhaseOf(stage') = PhaseOf(stage), emitted' = emitted, error' = error
      PROVE  UNCHANGED D!vars
  BY <1>1 DEF D!vars, PhaseOf
<1>2. CASE UNCHANGED vars
  BY <1>1, <1>2 DEF vars, told
<1>3. CASE Expand
  <2>1. stage = "declared" /\ stage' \in {"ready", "rejected"}
        /\ emitted' = emitted /\ error' = error
    BY <1>3 DEF Expand, told
  <2> QED
    BY <1>1, <2>1 DEF PhaseOf
<1>4. CASE stage = "running" /\ Advance
  BY <1>1, <1>4 DEF Advance, told
<1>5. CASE Start
  <2>1. /\ stage = "ready" /\ stage' = IF HasPipeline(route) THEN "running" ELSE "forwarded"
        /\ error' = error /\ error = NoError
        /\ emitted' = Append(emitted, [kind |-> "RequestStart", error |-> NoError])
    BY <1>a, <1>5 DEF Start, Emit
  <2>2. AllSeen(emitted') = Append(AllSeen(emitted), D!Note("RequestStart", -1, "pending"))
    BY <1>a, <2>1, AllSeenGrows DEF Seen, D!Note, Family
  <2>3. D!Begin(1, HasPipeline(route))
    <3>1. D!Goto(1, "received", IF HasPipeline(route) THEN "pipeline" ELSE "selecting")
      BY <2>1 DEF D!Goto
    <3>2. D!Emit(1, "RequestStart", D!None, D!Pending)
      BY <2>2 DEF D!Emit, D!None, D!Pending, AllSeen, Seen
    <3> QED
      BY <2>1, <3>1, <3>2 DEF D!Begin
  <2>4. HasPipeline(route) \in BOOLEAN
    BY DEF HasPipeline
  <2> QED
    BY <2>3, <2>4 DEF D!Next, D!Handler
<1>6. CASE Disconnect
  <2>1. stage = "running" /\ stage' = "gone" /\ error' = error /\ emitted' = emitted
    BY <1>6 DEF Disconnect, told
  <2>2. D!Disconnect(1)
    BY <2>1 DEF D!Disconnect
  <2> QED
    BY <2>2 DEF D!Next, D!Environment
<1>7. CASE stage = "running" /\ Ends
  <2>1. stage = "running" /\ stage' = "forwarded" /\ error' = error /\ emitted' = emitted
    BY <1>7 DEF Ends, Forward, told
  <2>2. D!PipelineSucceeds(1)
    BY <2>1 DEF D!PipelineSucceeds, D!Goto
  <2> QED
    BY <2>2 DEF D!Next, D!Environment
<1>8. CASE stage = "running" /\ Fails
  <2>1. PICK e \in AnyError : Fail(e)
    BY <1>8 DEF Fails
  <2>2. /\ stage = "running" /\ stage' = "failed" /\ error' = e
        /\ emitted' = Append(emitted, [kind |-> IF IsFramework(e) THEN "PipelineFailedFramework"
                                                ELSE "PipelineFailedCustom", error |-> e])
    BY <1>8, <2>1 DEF Fail, Emit
  <2>3. Family(e) \in {"framework", "custom"} /\ (Family(e) = "framework" <=> IsFramework(e))
    BY FailuresAreErrors DEF Family
  <2>4. AllSeen(emitted') =
          Append(AllSeen(emitted),
                 D!Note(IF Family(e) = "framework" THEN "PipelineFailedFramework"
                                                   ELSE "PipelineFailedCustom", -1, Family(e)))
    BY <1>a, <2>2, <2>3, AllSeenGrows DEF Seen, D!Note
  <2>5. D!PipelineFails(1, Family(e))
    BY <2>2, <2>4 DEF D!PipelineFails, D!Goto, D!Emit, D!Answer, D!None, AllSeen, Seen
  <2> QED
    BY <2>3, <2>5 DEF D!Next, D!Environment, D!PipelineErrors
<1> QED
  BY <1>2, <1>3, <1>4, <1>5, <1>6, <1>7, <1>8, StepsOfAPipeline DEF LifeOK

(***************************************************************************)
(* A pipeline is one step of Dispatch: silent until it ends, ending once,  *)
(* and its failure is an event and an answer at once (dispatch.rs).        *)
(***************************************************************************)
THEOREM PipelineIsOneStepOfDispatch == Spec => IsOneStepOfDispatch
<1>1. Init => D!Init
  BY InitIsInit
<1>2. LifeOK /\ [Next]_vars => [D!Next]_D!vars
  BY StepsAreSteps
<1> QED
  BY <1>1, <1>2, LifeInvariant, PTL DEF Spec, IsOneStepOfDispatch, D!Spec

-----------------------------------------------------------------------------
(***************************************************************************)
(* The generated program and what is known of the data: the definitions.   *)
(***************************************************************************)

Final == {"take_body", "keep_bytes", "map_body"}
Ops   == Final \union {"path", "query", "hook", "guard", "parse_query", "read_body",
                       "map_query", "parse", "raw"}

(* The phase an operation belongs to. *)
Rank(op) ==
  CASE op = "path"  -> 1
    [] op = "query" -> 2
    [] op = "hook"  -> 3
    [] op \in {"guard", "parse_query"}   -> 4
    [] op \in {"read_body", "map_query"} -> 5
    [] op \in {"parse", "raw"}           -> 6
    [] OTHER -> 7

(* Phases come in their order, and only hooks share one. *)
Ordered(x, y) == Rank(x.op) < Rank(y.op) \/ (x.op = "hook" /\ y.op = "hook")

InOrder(p, lo, hi) ==
  /\ IsList(p)
  /\ \A i \in DOMAIN p : p[i].op \in Ops /\ lo <= Rank(p[i].op) /\ Rank(p[i].op) <= hi
  /\ \A i, j \in DOMAIN p : i < j => Ordered(p[i], p[j])

(* The steps that the declaration of a route asks for. *)
FormInQuery(r) == r.data.kind = "form" /\ BodyInQuery(r.method)
Streams(r)     == r.map = <<>> /\ r.data.kind \in {"none", "multipart"}

BodySteps(r) ==
  IF FormInQuery(r)
  THEN {Step("parse_query", "form"), Step("take_body", "none")}
       \union {Step("map_query", m) : m \in Range(r.map)}
  ELSE IF Streams(r) THEN {Step("take_body", "none")}
  ELSE {Step("guard", k) : k \in {"form", "multipart"} \intersect {r.data.kind}}
       \union {Step("read_body", "none"),
               IF r.data.kind \in {"json", "form"} THEN Step("parse", r.data.kind)
                                                   ELSE Step("raw", "none")}
       \union (IF r.map = <<>> THEN {Step("keep_bytes", "none")}
                               ELSE {Step("map_body", m) : m \in Range(r.map)})

AllSteps(r) ==
  {Step("path", t) : t \in Range(r.pathType)} \union {Step("query", t) : t \in Range(r.queryType)}
  \union {Step("hook", h) : h \in Range(r.before)} \union BodySteps(r)

(* What is left to do is the end of that program. *)
TodoOK ==
  /\ (stage = "running") = (todo # <<>>)
  /\ stage = "running" =>
       /\ InOrder(todo, 1, 7) /\ Range(todo) \subseteq AllSteps(route)
       /\ \E s \in Range(todo) : s.op \in Final

Asks(op) == \E s \in AllSteps(route) : s.op = op
Pend(op) == \E s \in Range(todo) : s.op = op

(* What the trail says of the scope, the head and the body. *)

Scopes ==
  [shared : {given.shared}, local : [DataTypes -> Origins \union {Absent}],
   body : {"stream", "taken"}, raw : {"none", Request.body.bytes}]
Heads ==
  [path : {"client", "hooked", "none"}, query : {"none", "good", "bad", "hooked", "mapped"},
   ctype : ContentTypes, clen : {"none", "client", "hooked"}]

Touched(t, k, x) == {j \in 1 .. k - 1 : t[j][1] \in {"set", "Take"} /\ t[j][2] = x}
LastIn(t, k, x) ==
  IF Touched(t, k, x) = {} \/ t[Max(Touched(t, k, x))][1] = "Take" THEN Absent
  ELSE t[Max(Touched(t, k, x))][3]
WroteIn(t, entry) == \E k \in DOMAIN t : t[k] = entry
HeadWroteIn(t, field) == \E k \in DOMAIN t : t[k][1] = "head" /\ t[k][2] = field
MissesIn(t) == \E k \in DOMAIN t : t[k][3] = Absent

HookTakes == <<"body", "handler", "taken">>
RouteTakes == <<"body", "route", "taken">>

(* A parameter found what the trail before it says. *)
EntryOK(t, k) ==
  LET local == LastIn(t, k, t[k][2])
  IN  /\ t[k][1] \in {"Take", "Ref"} =>
           t[k][3] = IF local # Absent THEN local ELSE given.shared[t[k][2]]
      /\ t[k][1] = "Mut" => t[k][3] = local
      /\ t[k][1] = "RawBody" => t[k][3] \in {Absent, Request.body.bytes}

TrailOK(s, t) ==
  /\ IsList(t) /\ s \in Scopes
  /\ \A x \in DataTypes : s.local[x] = LastIn(t, Len(t) + 1, x)
  /\ \A k \in DOMAIN t : EntryOK(t, k)

HeadOK(h, t) ==
  /\ h \in Heads
  /\ HeadWroteIn(t, "clen")  \/ h.clen = Request.clen
  /\ HeadWroteIn(t, "ctype") \/ h.ctype = Request.ctype

BodyOK(s, t, b) ==
  /\ WroteIn(t, HookTakes) => s.body = "taken"
  /\ b \in {"none", Request.body.bytes}
  /\ b # "none" => /\ s.body = "taken" /\ s.raw = b /\ ~WroteIn(t, HookTakes)
                   /\ Request.body.len <= BodyLimit /\ ~Request.body.broken
  /\ WroteIn(t, RouteTakes) \/ b # "none" => Asks("read_body")

TakesAreNoted(s, t) == s.body = "taken" => WroteIn(t, HookTakes) \/ WroteIn(t, RouteTakes)

(* What still is to be checked, or has been. *)
PromisesOK ==
  /\ route.pathType # <<>>  => Pend("path") \/ Valid(Request.path)
  /\ route.queryType # <<>> => Pend("query") \/ Valid(Request.query)
  /\ DataInBody => Pend("parse") \/ Valid(Request.body.bytes)
  /\ DataInQuery => Pend("parse_query") \/ HookWrote("query") \/ Valid(Request.query)
  /\ TypeIsChecked => Pend("guard") \/ HookWrote("ctype") \/ Request.ctype = route.data.kind

(* What holds before a phase that has not been reached yet, and after it:  *)
(* no hook runs behind a check, so what was checked is what a map is given *)
(* and, on a route without one, what is forwarded.                         *)
PhasesOK ==
  /\ Pend("hook") => \A op \in {"guard", "parse_query"} : Asks(op) => Pend(op)
  /\ DataInQuery => \/ Pend("parse_query") \/ Valid(head.query)
                    \/ route.map # <<>> /\ ~Pend("map_query")
  /\ TypeIsChecked => Pend("guard") \/ head.ctype = route.data.kind
  /\ Pend("query") => ~HookWrote("query")
  /\ Pend("query") \/ Pend("parse_query") => HookWrote("query") \/ head.query = Request.query
  /\ Pend("read_body") => bytes = "none"
  /\ Asks("read_body") => Pend("read_body") \/ bytes # "none"
  /\ Wrote(RouteTakes) => bytes # "none"

FreshOK ==
  /\ trail = <<>> /\ bytes = "none" /\ scope = NewScope(given.shared)
  /\ head = [path |-> "client", query |-> Request.query,
             ctype |-> Request.ctype, clen |-> Request.clen]

DataOK ==
  /\ TrailOK(scope, trail)
  /\ BodyOK(scope, trail, bytes)
  /\ stage # "forwarded" => HeadOK(head, trail) /\ TakesAreNoted(scope, trail)
  /\ stage \in {"declared", "rejected", "ready"} => FreshOK
  /\ stage = "running" => PromisesOK /\ PhasesOK

(* The program of a route. *)

(* Two programs in order, one of them before the other, are one in order. *)
LEMMA JoinInOrder ==
  ASSUME NEW a, NEW b, NEW lo \in Nat, NEW mid \in Nat, NEW next \in Nat, NEW hi \in Nat,
         lo <= mid, mid < next, next <= hi, InOrder(a, lo, mid), InOrder(b, next, hi)
  PROVE  InOrder(a \o b, lo, hi) /\ Range(a \o b) = Range(a) \union Range(b)
<1> DEFINE s == a \o b
           n == Len(a)
           m == Len(b)
<1>1. n \in Nat /\ DOMAIN a = 1 .. n /\ m \in Nat /\ DOMAIN b = 1 .. m
  BY SeqFacts DEF InOrder
<1>2. /\ IsList(s) /\ DOMAIN s = 1 .. n + m
      /\ \A k \in 1 .. n : s[k] = a[k]
      /\ \A k \in 1 .. m : s[n + k] = b[k]
  BY ConcatSeq DEF InOrder
<1> HIDE DEF s, n, m
<1>3. \A k \in n + 1 .. n + m : k - n \in 1 .. m /\ s[k] = b[k - n]
  <2>1. SUFFICES ASSUME NEW k \in n + 1 .. n + m PROVE k - n \in 1 .. m /\ s[k] = b[k - n]
    OBVIOUS
  <2>2. k - n \in 1 .. m /\ n + (k - n) = k
    BY <1>1
  <2> QED
    BY <1>2, <2>2
<1>4. \A o \in Ops : Rank(o) \in Nat
  BY DEF Rank, Ops, Final
<1>5. ASSUME NEW k \in 1 .. n
      PROVE  s[k].op \in Ops /\ lo <= Rank(s[k].op) /\ Rank(s[k].op) <= mid
  BY <1>1, <1>2 DEF InOrder
<1>6. ASSUME NEW k \in n + 1 .. n + m
      PROVE  s[k].op \in Ops /\ next <= Rank(s[k].op) /\ Rank(s[k].op) <= hi
  BY <1>1, <1>3 DEF InOrder
<1>7. \A k \in DOMAIN s : k \in 1 .. n \/ k \in n + 1 .. n + m
  BY <1>1, <1>2
<1>8. ASSUME NEW k \in DOMAIN s
      PROVE  s[k].op \in Ops /\ lo <= Rank(s[k].op) /\ Rank(s[k].op) <= hi
  <2>1. CASE k \in 1 .. n
    <3>1. s[k].op \in Ops /\ lo <= Rank(s[k].op) /\ Rank(s[k].op) <= mid
      BY <1>5, <2>1
    <3> QED
      BY <1>4, <3>1
  <2>2. CASE k \in n + 1 .. n + m
    <3>1. s[k].op \in Ops /\ next <= Rank(s[k].op) /\ Rank(s[k].op) <= hi
      BY <1>6, <2>2
    <3> QED
      BY <1>4, <3>1
  <2> QED
    BY <1>7, <2>1, <2>2
<1>9. ASSUME NEW i \in DOMAIN s, NEW j \in DOMAIN s, i < j
      PROVE  Ordered(s[i], s[j])
  <2>1. CASE i \in 1 .. n /\ j \in 1 .. n
    BY <1>1, <1>2, <1>9, <2>1 DEF InOrder
  <2>2. CASE i \in 1 .. n /\ j \in n + 1 .. n + m
    <3>1. Rank(s[i].op) <= mid /\ next <= Rank(s[j].op) /\ s[i].op \in Ops /\ s[j].op \in Ops
      BY <1>5, <1>6, <2>2
    <3>2. Rank(s[i].op) \in Nat /\ Rank(s[j].op) \in Nat
      BY <1>4, <3>1
    <3>3. Rank(s[i].op) < Rank(s[j].op)
      BY <3>1, <3>2
    <3> QED
      BY <3>3 DEF Ordered
  <2>3. CASE i \in n + 1 .. n + m /\ j \in n + 1 .. n + m
    <3>1. i - n \in DOMAIN b /\ j - n \in DOMAIN b /\ s[i] = b[i - n] /\ s[j] = b[j - n]
      BY <1>1, <1>3, <2>3
    <3>2. i - n < j - n
      BY <1>1, <1>9, <2>3
    <3> QED
      BY <3>1, <3>2 DEF InOrder
  <2>4. ~(i \in n + 1 .. n + m /\ j \in 1 .. n)
    BY <1>1, <1>9
  <2> QED
    BY <1>7, <2>1, <2>2, <2>3, <2>4
<1>10. InOrder(s, lo, hi)
  BY <1>2, <1>8, <1>9 DEF InOrder
<1>11. Range(s) = Range(a) \union Range(b)
  <2>1. Range(s) \subseteq Range(a) \union Range(b)
    <3>1. SUFFICES ASSUME NEW k \in DOMAIN s PROVE s[k] \in Range(a) \union Range(b)
      BY DEF Range
    <3>2. CASE k \in 1 .. n
      BY <1>1, <1>2, <3>2 DEF Range
    <3>3. CASE k \in n + 1 .. n + m
      BY <1>1, <1>3, <3>3 DEF Range
    <3> QED
      BY <1>7, <3>2, <3>3
  <2>2. ASSUME NEW k \in DOMAIN a PROVE a[k] \in Range(s)
    <3>1. k \in DOMAIN s /\ s[k] = a[k]
      BY <1>1, <1>2
    <3> QED
      BY <3>1 DEF Range
  <2>3. ASSUME NEW k \in DOMAIN b PROVE b[k] \in Range(s)
    <3>1. n + k \in DOMAIN s /\ s[n + k] = b[k]
      BY <1>1, <1>2
    <3> QED
      BY <3>1 DEF Range
  <2> QED
    BY <2>1, <2>2, <2>3 DEF Range
<1> QED
  BY <1>10, <1>11 DEF s

(* One step for each member of a declared list. *)
LEMMA PhaseInOrder ==
  ASSUME NEW s, IsList(s), NEW o \in Ops, o = "hook" \/ Len(s) <= 1
  PROVE  LET p == [i \in DOMAIN s |-> Step(o, s[i])]
         IN  InOrder(p, Rank(o), Rank(o)) /\ Range(p) = {Step(o, x) : x \in Range(s)}
<1> DEFINE p == [i \in DOMAIN s |-> Step(o, s[i])]
           n == Len(s)
<1>1. n \in Nat /\ DOMAIN s = 1 .. n
  BY SeqFacts
<1>2. p \in [1 .. n -> {p[i] : i \in 1 .. n}]
  BY <1>1
<1>3. IsList(p)
  <2> HIDE DEF p, n
  <2> QED
    BY <1>1, <1>2, SeqDef DEF IsList
<1>4. \A i \in DOMAIN p : p[i].op = o
  BY DEF Step
<1>5. Rank(o) \in Nat
  BY DEF Rank, Ops, Final
<1>6. \A i, j \in DOMAIN p : i < j => o = "hook"
  BY <1>1
<1>7. InOrder(p, Rank(o), Rank(o))
  BY <1>3, <1>4, <1>5, <1>6 DEF InOrder, Ordered
<1>8. Range(p) = {Step(o, x) : x \in Range(s)}
  BY DEF Range
<1> QED
  BY <1>7, <1>8

(* A program of one step is in order. *)
LEMMA OneInOrder ==
  ASSUME NEW x, x.op \in Ops
  PROVE  InOrder(<<x>>, Rank(x.op), Rank(x.op)) /\ Range(<<x>>) = {x}
<1>1. IsList(<<x>>) /\ DOMAIN <<x>> = 1 .. 1 /\ <<x>>[1] = x
  BY ListOfOne, SeqFacts
<1>2. Rank(x.op) \in Nat
  BY DEF Rank, Ops, Final
<1> QED
  BY <1>1, <1>2 DEF InOrder, Range

(* A program of two steps is in order if they are. *)
LEMMA TwoInOrder ==
  ASSUME NEW x, NEW y, x.op \in Ops, y.op \in Ops, Rank(x.op) < Rank(y.op)
  PROVE  InOrder(<<x, y>>, Rank(x.op), Rank(y.op)) /\ Range(<<x, y>>) = {x, y}
<1>1. IsList(<<x, y>>) /\ DOMAIN <<x, y>> = 1 .. 2 /\ <<x, y>>[1] = x /\ <<x, y>>[2] = y
  BY ListOfTwo
<1>2. Rank(x.op) \in Nat /\ Rank(y.op) \in Nat
  BY DEF Rank, Ops, Final
<1>3. DOMAIN <<x, y>> = {1, 2}
  BY <1>1
<1> QED
  BY <1>1, <1>2, <1>3 DEF InOrder, Range, Ordered

(* So is the program of no step. *)
LEMMA NoneInOrder ==
  ASSUME NEW lo, NEW hi
  PROVE  InOrder(<<>>, lo, hi) /\ Range(<<>>) = {}
BY EmptyList DEF InOrder, Range

-----------------------------------------------------------------------------
(***************************************************************************)
(* The generated program has the steps of its route in the order of the    *)
(* phases.                                                                 *)
(***************************************************************************)

(* A phase has a number. *)
LEMMA RankOf ==
  /\ Rank("path") = 1 /\ Rank("query") = 2 /\ Rank("hook") = 3
  /\ Rank("guard") = 4 /\ Rank("parse_query") = 4
  /\ Rank("read_body") = 5 /\ Rank("map_query") = 5
  /\ Rank("parse") = 6 /\ Rank("raw") = 6
  /\ \A o \in Final : Rank(o) = 7
BY DEF Rank, Final

(* A declared map or extraction is at most one. *)
LEMMA OptionIsShort ==
  ASSUME NEW S, NEW s, s = <<>> \/ \E x \in S : s = <<x>>
  PROVE  IsList(s) /\ Len(s) <= 1
<1>1. CASE s = <<>>
  BY <1>1, EmptyList
<1>2. ASSUME NEW x \in S, s = <<x>> PROVE IsList(s) /\ Len(s) <= 1
  BY <1>2, ListOfOne
<1> QED
  BY <1>1, <1>2

(* The program of a form that is sent in the query is in order. *)
LEMMA FormQueryInOrder ==
  ASSUME NEW r, RouteTyped(r), FormInQuery(r)
  PROVE  InOrder(FormQueryPhase(r), 4, 7) /\ Range(FormQueryPhase(r)) = BodySteps(r)
<1> DEFINE a == <<Step("parse_query", "form")>>
           b == [i \in DOMAIN r.map |-> Step("map_query", r.map[i])]
           c == <<Step("take_body", "none")>>
           ab == a \o b
           abc == ab \o c
<1>1. InOrder(a, 4, 4) /\ Range(a) = {Step("parse_query", "form")}
  <2>1. Step("parse_query", "form").op = "parse_query" /\ "parse_query" \in Ops
    BY DEF Step, Ops
  <2> QED
    BY <2>1, OneInOrder, RankOf
<1>2. InOrder(b, 5, 5) /\ Range(b) = {Step("map_query", m) : m \in Range(r.map)}
  <2>1. IsList(r.map) /\ Len(r.map) <= 1
    BY OptionIsShort DEF RouteTyped
  <2>2. "map_query" \in Ops
    BY DEF Ops
  <2> QED
    BY <2>1, <2>2, PhaseInOrder, RankOf
<1>3. InOrder(c, 7, 7) /\ Range(c) = {Step("take_body", "none")}
  <2>1. Step("take_body", "none").op = "take_body" /\ "take_body" \in Ops
        /\ Rank("take_body") = 7
    BY RankOf DEF Step, Ops, Final
  <2> QED
    BY <2>1, OneInOrder
<1>4. FormQueryPhase(r) = abc
  BY DEF FormQueryPhase
<1> HIDE DEF a, b, c
<1>5. InOrder(ab, 4, 5) /\ Range(ab) = Range(a) \union Range(b)
  BY <1>1, <1>2, JoinInOrder
<1> HIDE DEF ab
<1>6. InOrder(abc, 4, 7) /\ Range(abc) = Range(ab) \union Range(c)
  BY <1>3, <1>5, JoinInOrder
<1> HIDE DEF abc
<1>7. BodySteps(r) = {Step("parse_query", "form"), Step("take_body", "none")}
                     \union {Step("map_query", m) : m \in Range(r.map)}
  BY DEF BodySteps
<1>8. Range(abc) = BodySteps(r)
  BY <1>1, <1>2, <1>3, <1>5, <1>6, <1>7
<1> QED
  BY <1>4, <1>6, <1>8

(* So is that of a body that is buffered. *)
LEMMA BufferedInOrder ==
  ASSUME NEW r, RouteTyped(r), ~FormInQuery(r), ~Streams(r)
  PROVE  InOrder(BufferedPhase(r), 4, 7) /\ Range(BufferedPhase(r)) = BodySteps(r)
<1> DEFINE k == r.data.kind
           a == Guard(k)
           x == Step("read_body", "none")
           y == IF k \in {"json", "form"} THEN Step("parse", k) ELSE Step("raw", "none")
           b == <<x, y>>
           z == IF r.map = <<>> THEN Step("keep_bytes", "none") ELSE Step("map_body", r.map[1])
           c == IF r.map = <<>> THEN <<Step("keep_bytes", "none")>>
                                ELSE <<Step("map_body", r.map[1])>>
           ab == a \o b
           abc == ab \o c
           guards == {Step("guard", g) : g \in {"form", "multipart"} \intersect {k}}
           maps == {Step("map_body", m) : m \in Range(r.map)}
<1>1. InOrder(a, 4, 4) /\ Range(a) = guards
  <2>1. CASE k \in {"form", "multipart"}
    <3>1. Step("guard", k).op = "guard" /\ "guard" \in Ops
      BY DEF Step, Ops
    <3>2. a = <<Step("guard", k)>> /\ guards = {Step("guard", k)}
      BY <2>1 DEF Guard
    <3> QED
      BY <3>1, <3>2, OneInOrder, RankOf
  <2>2. CASE k \notin {"form", "multipart"}
    <3>1. a = <<>> /\ guards = {}
      BY <2>2 DEF Guard
    <3> QED
      BY <3>1, NoneInOrder
  <2> QED
    BY <2>1, <2>2
<1>2. InOrder(b, 5, 6) /\ Range(b) = {x, y}
  <2>1. x.op = "read_body" /\ y.op \in {"parse", "raw"} /\ {"read_body", "parse", "raw"} \subseteq Ops
    BY DEF Step, Ops
  <2>2. Rank(x.op) = 5 /\ Rank(y.op) = 6
    BY <2>1, RankOf
  <2> HIDE DEF x, y
  <2> QED
    BY <2>1, <2>2, TwoInOrder
<1>3. InOrder(c, 7, 7) /\ Range(c) = {z}
  <2>1. z.op \in Ops /\ Rank(z.op) = 7
    BY RankOf DEF Step, Ops, Final
  <2>2. c = <<z>>
    OBVIOUS
  <2> HIDE DEF z, c
  <2> QED
    BY <2>1, <2>2, OneInOrder
<1>4. BufferedPhase(r) = abc
  BY DEF BufferedPhase
<1>5. BodySteps(r) = guards \union {x, y} \union {z}
  <2>1. CASE r.map = <<>>
    BY <2>1 DEF BodySteps
  <2>2. ASSUME NEW m \in Signatures, r.map = <<m>> PROVE maps = {z}
    <3>1. Range(r.map) = {m} /\ r.map[1] = m /\ r.map # <<>>
      BY <2>2, ListOfOne, SeqFacts DEF Range
    <3> QED
      BY <3>1
  <2>3. CASE r.map # <<>>
    <3>1. maps = {z}
      BY <2>2, <2>3 DEF RouteTyped
    <3> QED
      BY <2>3, <3>1 DEF BodySteps
  <2> QED
    BY <2>1, <2>3
<1> HIDE DEF a, b, c, x, y, z, guards, k
<1>6. InOrder(ab, 4, 6) /\ Range(ab) = Range(a) \union Range(b)
  BY <1>1, <1>2, JoinInOrder
<1> HIDE DEF ab
<1>7. InOrder(abc, 4, 7) /\ Range(abc) = Range(ab) \union Range(c)
  BY <1>3, <1>6, JoinInOrder
<1> HIDE DEF abc
<1>8. Range(abc) = BodySteps(r)
  BY <1>1, <1>2, <1>3, <1>5, <1>6, <1>7
<1> QED
  BY <1>4, <1>7, <1>8

(* So is the part of every program that reads the body. *)
LEMMA BodyInOrder ==
  ASSUME NEW r, RouteTyped(r)
  PROVE  InOrder(BodyPhase(r), 4, 7) /\ Range(BodyPhase(r)) = BodySteps(r)
<1>1. CASE FormInQuery(r)
  BY <1>1, FormQueryInOrder DEF BodyPhase, FormInQuery
<1>2. CASE ~FormInQuery(r) /\ Streams(r)
  <2> DEFINE x == Step("take_body", "none")
  <2>1. x.op \in Ops /\ Rank(x.op) = 7
    BY RankOf DEF Step, Ops, Final
  <2>2. BodyPhase(r) = <<x>> /\ BodySteps(r) = {x}
    BY <1>2 DEF BodyPhase, BodySteps, FormInQuery, Streams
  <2> HIDE DEF x
  <2>3. InOrder(<<x>>, 7, 7) /\ Range(<<x>>) = {x}
    BY <2>1, OneInOrder
  <2>4. InOrder(<<x>>, 4, 7)
    BY <2>1, <2>3 DEF InOrder
  <2> QED
    BY <2>2, <2>3, <2>4
<1>3. CASE ~FormInQuery(r) /\ ~Streams(r)
  <2>1. BodyPhase(r) = BufferedPhase(r)
    BY <1>3 DEF BodyPhase, FormInQuery, Streams
  <2> QED
    BY <1>3, <2>1, BufferedInOrder
<1> QED
  BY <1>1, <1>2, <1>3

(* Some step ends every program. *)
LEMMA SomeStepIsFinal ==
  ASSUME NEW r, RouteTyped(r)
  PROVE  \E s \in BodySteps(r) : s.op \in Final
<1>1. Step("take_body", "none").op \in Final /\ Step("keep_bytes", "none").op \in Final
      /\ \A m : Step("map_body", m).op \in Final
  BY DEF Step, Final
<1>2. CASE FormInQuery(r) \/ Streams(r)
  BY <1>1, <1>2 DEF BodySteps
<1>3. CASE ~FormInQuery(r) /\ ~Streams(r) /\ r.map = <<>>
  BY <1>1, <1>3 DEF BodySteps
<1>4. CASE ~FormInQuery(r) /\ ~Streams(r) /\ r.map # <<>>
  <2>1. PICK m \in Signatures : r.map = <<m>>
    BY <1>4 DEF RouteTyped
  <2>2. m \in Range(r.map)
    BY <2>1, ListOfOne, SeqFacts DEF Range
  <2>3. Step("map_body", m) \in BodySteps(r)
    BY <1>4, <2>2 DEF BodySteps
  <2> QED
    BY <1>1, <2>3
<1> QED
  BY <1>2, <1>3, <1>4

(* So is the program of every route, and it has the steps its route declares. *)
LEMMA ProgramInOrder ==
  ASSUME NEW r, RouteTyped(r), HasPipeline(r)
  PROVE  /\ InOrder(PipelineSteps(r), 1, 7) /\ Range(PipelineSteps(r)) = AllSteps(r)
         /\ \E s \in AllSteps(r) : s.op \in Final
<1> DEFINE a == PathPhase(r)
           b == QueryPhase(r)
           c == HookPhase(r)
           d == BodyPhase(r)
           ab == a \o b
           abc == ab \o c
           abcd == abc \o d
<1>1. InOrder(a, 1, 1) /\ Range(a) = {Step("path", t) : t \in Range(r.pathType)}
  <2>1. IsList(r.pathType) /\ Len(r.pathType) <= 1 /\ "path" \in Ops
    BY OptionIsShort DEF RouteTyped, Ops
  <2> QED
    BY <2>1, PhaseInOrder, RankOf DEF PathPhase
<1>2. InOrder(b, 2, 2) /\ Range(b) = {Step("query", t) : t \in Range(r.queryType)}
  <2>1. IsList(r.queryType) /\ Len(r.queryType) <= 1 /\ "query" \in Ops
    BY OptionIsShort DEF RouteTyped, Ops
  <2> QED
    BY <2>1, PhaseInOrder, RankOf DEF QueryPhase
<1>3. InOrder(c, 3, 3) /\ Range(c) = {Step("hook", h) : h \in Range(r.before)}
  <2>1. IsList(r.before) /\ "hook" \in Ops
    BY DEF RouteTyped, Ops, IsList
  <2> QED
    BY <2>1, PhaseInOrder, RankOf DEF HookPhase
<1>4. InOrder(d, 4, 7) /\ Range(d) = BodySteps(r)
  BY BodyInOrder
<1>5. PipelineSteps(r) = abcd
  BY DEF PipelineSteps
<1> HIDE DEF a, b, c, d
<1>6. InOrder(ab, 1, 2) /\ Range(ab) = Range(a) \union Range(b)
  BY <1>1, <1>2, JoinInOrder
<1> HIDE DEF ab
<1>7. InOrder(abc, 1, 3) /\ Range(abc) = Range(ab) \union Range(c)
  BY <1>3, <1>6, JoinInOrder
<1> HIDE DEF abc
<1>8. InOrder(abcd, 1, 7) /\ Range(abcd) = Range(abc) \union Range(d)
  BY <1>4, <1>7, JoinInOrder
<1> HIDE DEF abcd
<1>9. Range(abcd) = AllSteps(r)
  BY <1>1, <1>2, <1>3, <1>4, <1>6, <1>7, <1>8 DEF AllSteps
<1>10. \E s \in AllSteps(r) : s.op \in Final
  BY SomeStepIsFinal DEF AllSteps
<1> QED
  BY <1>5, <1>8, <1>9, <1>10

(* Going on takes the first step off; what is left comes after it. *)
LEMMA TailInOrder ==
  ASSUME NEW p, p # <<>>, InOrder(p, 1, 7)
  PROVE  /\ InOrder(Tail(p), 1, 7)
         /\ p[1] \in Range(p) /\ p[1].op \in Ops
         /\ Range(p) = {p[1]} \union Range(Tail(p))
         /\ \A s \in Range(Tail(p)) : s.op \in Ops /\ Ordered(p[1], s)
         /\ (Tail(p) = <<>>) = (Range(Tail(p)) = {})
<1> DEFINE t == Tail(p)
           n == Len(p)
<1>1. n \in Nat /\ DOMAIN p = 1 .. n /\ n # 0
  BY SeqFacts DEF InOrder
<1>2. /\ IsList(t) /\ DOMAIN t = 1 .. n - 1 /\ Len(t) = n - 1
      /\ \A k \in 1 .. n - 1 : t[k] = p[k + 1]
  BY TailSeq DEF InOrder
<1>3. (t = <<>>) = (Len(t) = 0)
  BY <1>2, SeqFacts
<1> HIDE DEF t, n
<1>4. 1 \in DOMAIN p /\ \A k \in 1 .. n - 1 : k + 1 \in DOMAIN p /\ 1 < k + 1
  BY <1>1
<1>5. InOrder(t, 1, 7)
  <2>1. \A i \in DOMAIN t : t[i].op \in Ops /\ 1 <= Rank(t[i].op) /\ Rank(t[i].op) <= 7
    BY <1>2, <1>4 DEF InOrder
  <2>2. ASSUME NEW i \in DOMAIN t, NEW j \in DOMAIN t, i < j
        PROVE  Ordered(t[i], t[j])
    <3>1. i + 1 \in DOMAIN p /\ j + 1 \in DOMAIN p /\ i + 1 < j + 1
      BY <1>1, <1>2, <2>2
    <3>2. t[i] = p[i + 1] /\ t[j] = p[j + 1]
      BY <1>2
    <3> QED
      BY <3>1, <3>2 DEF InOrder
  <2> QED
    BY <1>2, <2>1, <2>2 DEF InOrder
<1>6. Range(t) = {p[k + 1] : k \in 1 .. n - 1}
  BY <1>2 DEF Range
<1>7. Range(p) = {p[1]} \union Range(t)
  <2>1. \A k \in 1 .. n : k = 1 \/ (k - 1 \in 1 .. n - 1 /\ k = (k - 1) + 1)
    BY <1>1
  <2>2. \A k \in 1 .. n : p[k] = p[1] \/ p[k] \in Range(t)
    BY <1>6, <2>1
  <2> QED
    BY <1>1, <1>4, <1>6, <2>2 DEF Range
<1>8. \A s \in Range(t) : s.op \in Ops /\ Ordered(p[1], s)
  BY <1>4, <1>6 DEF InOrder
<1>9. (t = <<>>) = (Range(t) = {})
  <2>1. CASE n - 1 = 0
    BY <1>2, <1>3, <1>6, <2>1
  <2>2. CASE n - 1 # 0
    <3>1. 1 \in 1 .. n - 1
      BY <1>1, <2>2
    <3> QED
      BY <1>2, <1>3, <1>6, <2>2, <3>1
  <2> QED
    BY <2>1, <2>2
<1> QED
  BY <1>4, <1>5, <1>7, <1>8, <1>9 DEF t, InOrder, Range

-----------------------------------------------------------------------------
(***************************************************************************)
(* What a running pipeline has still to do is the end of its program.      *)
(***************************************************************************)

(* No step after the last one. *)
LEMMA LastStepEnds ==
  ASSUME Next, stage = "running", Now.op \in Final
  PROVE  stage' # "running"
<1> USE DEF Reaches, Final
<1>1. CASE RunMapOnBody
  BY <1>1 DEF RunMapOnBody, Fail, Forward
<1>2. CASE TakeBody
  BY <1>2 DEF TakeBody, Fail, Forward
<1>3. CASE KeepBytes
  BY <1>3 DEF KeepBytes, Forward
<1>4. CASE Disconnect
  BY <1>4 DEF Disconnect
<1>5. ~Expand /\ ~Start
  BY DEF Expand, Start
<1>6. ~ExtractPath /\ ~ExtractQuery /\ ~RunHook /\ ~RunMapOnQuery
  BY DEF ExtractPath, ExtractQuery, Extract, RunHook, RunMapOnQuery
<1>7. ~CheckContentType /\ ~ParseQueryData /\ ~ParseBody /\ ~CloneRaw /\ ~ReadBody
  BY DEF CheckContentType, ParseQueryData, ParseBody, CloneRaw, Check, ReadBody
<1> QED
  BY <1>1, <1>2, <1>3, <1>4, <1>5, <1>6, <1>7 DEF Next

(* The route of a live pipeline is typed. *)
LEMMA LiveRouteIsTyped ==
  ASSUME LifeOK, stage \in Live
  PROVE  RouteTyped(route) /\ Compiles(route)
<1>1. /\ AttrsTyped(given.attrs) /\ Expands(given.attrs) /\ Compiles(route)
      /\ route = ExpandRoute(given.attrs)
  BY DEF LifeOK, GivenOK, RouteOK, Live
<1> QED
  BY <1>1, ExpandedRouteIsTyped

(* No program is left before a pipeline starts. *)
LEMMA InitTodo ==
  ASSUME Init
  PROVE  TodoOK
BY DEF Init, TodoOK

(* Every step leaves the end of the program to be done. *)
LEMMA NextTodo ==
  ASSUME LifeOK, TodoOK, [Next]_vars
  PROVE  TodoOK'
<1>1. CASE UNCHANGED vars
  BY <1>1 DEF vars, TodoOK
<1>2. CASE Expand
  BY <1>2 DEF Expand, TodoOK
<1>3. CASE Start
  <2>1. stage = "ready" /\ route' = route /\ todo' = PipelineSteps(route)
        /\ stage' = IF HasPipeline(route) THEN "running" ELSE "forwarded"
    BY <1>3 DEF Start
  <2>2. CASE HasPipeline(route)
    <3>1. RouteTyped(route)
      BY <2>1, LiveRouteIsTyped DEF Live
    <3>2. /\ InOrder(todo', 1, 7) /\ Range(todo') = AllSteps(route)
          /\ \E s \in AllSteps(route) : s.op \in Final
      BY <2>1, <2>2, <3>1, ProgramInOrder
    <3>3. todo' # <<>>
      BY <3>2, NoneInOrder
    <3> QED
      BY <2>1, <2>2, <3>2, <3>3 DEF TodoOK
  <2>3. CASE ~HasPipeline(route)
    BY <2>1, <2>3 DEF TodoOK, PipelineSteps
  <2> QED
    BY <2>2, <2>3
<1>4. CASE Disconnect
  BY <1>4 DEF Disconnect, TodoOK
<1>5. CASE Next /\ stage = "running" /\ Advance
  <2>1. todo' = Tail(todo) /\ route' = route /\ stage' = stage
    BY <1>5 DEF Advance
  <2>2. todo # <<>> /\ InOrder(todo, 1, 7) /\ Range(todo) \subseteq AllSteps(route)
        /\ \E s \in Range(todo) : s.op \in Final
    BY <1>5 DEF TodoOK
  <2>3. todo[1].op \notin Final
    BY <1>5, <2>1, LastStepEnds DEF Now
  <2>4. /\ InOrder(todo', 1, 7)
        /\ Range(todo) = {todo[1]} \union Range(todo')
        /\ (todo' = <<>>) = (Range(todo') = {})
    BY <2>1, <2>2, TailInOrder
  <2> QED
    BY <1>5, <2>1, <2>2, <2>3, <2>4 DEF TodoOK
<1>6. CASE stage = "running" /\ Ends
  BY <1>6 DEF Ends, Forward, TodoOK
<1>7. CASE stage = "running" /\ Fails
  BY <1>7 DEF Fails, Fail, TodoOK
<1> QED
  BY <1>1, <1>2, <1>3, <1>4, <1>5, <1>6, <1>7, StepsOfAPipeline DEF LifeOK

(***************************************************************************)
(* A running pipeline still has to do the end of the program that the      *)
(* macros generate for its route: the phases of codegen.rs in their order, *)
(* and a step that hands a body over at the end of every one.              *)
(***************************************************************************)
THEOREM ProgramInvariant == Spec => []TodoOK
<1>1. Init => TodoOK
  BY InitTodo
<1>2. LifeOK /\ TodoOK /\ [Next]_vars => TodoOK'
  BY NextTodo
<1> QED
  BY <1>1, <1>2, LifeInvariant, PTL DEF Spec

(* Where a running pipeline is. *)
LEMMA AtAStep ==
  ASSUME LifeOK, TodoOK, stage = "running"
  PROVE  /\ RouteTyped(route) /\ Compiles(route)
         /\ Now \in AllSteps(route) /\ Now \in Range(todo) /\ Now.op \in Ops
         /\ Range(todo) \subseteq AllSteps(route)
         /\ Range(todo) = {Now} \union Range(Tail(todo))
         /\ \A s \in Range(Tail(todo)) : s.op \in Ops /\ Ordered(Now, s)
<1>1. RouteTyped(route) /\ Compiles(route)
  BY LiveRouteIsTyped DEF Live
<1>2. todo # <<>> /\ InOrder(todo, 1, 7) /\ Range(todo) \subseteq AllSteps(route)
  BY DEF TodoOK
<1> QED
  BY <1>1, <1>2, TailInOrder DEF Now

(* The member of a list of one. *)
LEMMA RangeOfOne ==
  ASSUME NEW x
  PROVE  Range(<<x>>) = {x}
<1>1. DOMAIN <<x>> = 1 .. 1 /\ <<x>>[1] = x
  BY ListOfOne, SeqFacts
<1> QED
  BY <1>1 DEF Range

(* An option holds values of its own type only. *)
LEMMA RangeOfOption ==
  ASSUME NEW S, NEW s, s = <<>> \/ \E x \in S : s = <<x>>
  PROVE  \A y \in Range(s) : y \in S /\ s = <<y>>
<1>1. CASE s = <<>>
  BY <1>1, NoneInOrder
<1>2. ASSUME NEW x \in S, s = <<x>>
      PROVE  \A y \in Range(s) : y \in S /\ s = <<y>>
  <2>1. Range(s) = {x}
    BY <1>2, RangeOfOne
  <2> QED
    BY <1>2, <2>1
<1> QED
  BY <1>1, <1>2

(* What each operation is asked for with. *)
LEMMA StepsAreTyped ==
  ASSUME NEW r, RouteTyped(r), NEW s \in AllSteps(r)
  PROVE  /\ s.op \in {"path", "query"} => s.arg \in DataTypes
         /\ s.op = "hook" => s.arg \in Signatures /\ s.arg \in Range(r.before)
         /\ s.op \in {"map_body", "map_query"} => s.arg \in Signatures /\ r.map = <<s.arg>>
         /\ s.op = "guard" => s.arg = r.data.kind /\ s.arg \in {"form", "multipart"}
         /\ s.op = "parse" => s.arg = r.data.kind /\ s.arg \in {"json", "form"}
         /\ s.op \in {"parse_query", "map_query"} => FormInQuery(r)
         /\ s.op \in {"read_body", "parse", "raw", "keep_bytes", "map_body", "guard"} =>
              ~FormInQuery(r) /\ ~Streams(r)
<1>1. CASE s \in {Step("path", t) : t \in Range(r.pathType)}
                 \union {Step("query", t) : t \in Range(r.queryType)}
  <2>1. \A t \in Range(r.pathType) \union Range(r.queryType) : t \in DataTypes
    BY RangeOfOption DEF RouteTyped
  <2> QED
    BY <1>1, <2>1 DEF Step
<1>2. CASE s \in {Step("hook", h) : h \in Range(r.before)}
  <2>1. Range(r.before) \subseteq Signatures
    <3>1. r.before \in [1 .. Len(r.before) -> Signatures]
      BY LenProperties DEF RouteTyped
    <3> QED
      BY <3>1 DEF Range
  <2> QED
    BY <1>2, <2>1 DEF Step
<1>3. CASE s \in BodySteps(r)
  <2>1. \A m \in Range(r.map) : m \in Signatures /\ r.map = <<m>>
    BY RangeOfOption DEF RouteTyped
  <2>2. CASE FormInQuery(r)
    <3>1. s \in {Step("parse_query", "form"), Step("take_body", "none")}
          \/ s \in {Step("map_query", m) : m \in Range(r.map)}
      BY <1>3, <2>2 DEF BodySteps
    <3> QED
      BY <2>1, <2>2, <3>1 DEF Step
  <2>3. CASE ~FormInQuery(r) /\ Streams(r)
    <3>1. s = Step("take_body", "none")
      BY <1>3, <2>3 DEF BodySteps
    <3> QED
      BY <3>1 DEF Step
  <2>4. CASE ~FormInQuery(r) /\ ~Streams(r)
    <3>1. \/ s \in {Step("guard", k) : k \in {"form", "multipart"} \intersect {r.data.kind}}
          \/ s = Step("read_body", "none")
          \/ s = Step("parse", r.data.kind) /\ r.data.kind \in {"json", "form"}
          \/ s \in {Step("raw", "none"), Step("keep_bytes", "none")}
          \/ s \in {Step("map_body", m) : m \in Range(r.map)}
      BY <1>3, <2>4 DEF BodySteps
    <3> QED
      BY <2>1, <2>4, <3>1 DEF Step
  <2> QED
    BY <2>2, <2>3, <2>4
<1> QED
  BY <1>1, <1>2, <1>3 DEF AllSteps

-----------------------------------------------------------------------------
(***************************************************************************)
(* The trail, and the scope it tells about.                                *)
(***************************************************************************)

(* What is written stays written, and one entry more is written. *)
LEMMA WroteOneMore ==
  ASSUME NEW t, IsList(t), NEW e
  PROVE  /\ \A w : WroteIn(Append(t, e), w) <=> WroteIn(t, w) \/ e = w
         /\ \A f : HeadWroteIn(Append(t, e), f) <=>
                     HeadWroteIn(t, f) \/ (e[1] = "head" /\ e[2] = f)
         /\ MissesIn(Append(t, e)) <=> MissesIn(t) \/ e[3] = Absent
<1> DEFINE u == Append(t, e)
           n == Len(t)
<1>1. n \in Nat /\ DOMAIN t = 1 .. n
  BY SeqFacts
<1>2. DOMAIN u = 1 .. n + 1 /\ (\A k \in 1 .. n : u[k] = t[k]) /\ u[n + 1] = e
  BY AppendSeq
<1> HIDE DEF u, n
<1>3. \A k \in DOMAIN u : (k \in DOMAIN t /\ u[k] = t[k]) \/ (k = n + 1 /\ u[k] = e)
  BY <1>1, <1>2
<1>4. \A k \in DOMAIN t : k \in DOMAIN u /\ u[k] = t[k]
  BY <1>1, <1>2
<1>5. n + 1 \in DOMAIN u
  BY <1>1, <1>2
<1>6. \A w : WroteIn(u, w) <=> WroteIn(t, w) \/ e = w
  BY <1>2, <1>3, <1>4, <1>5 DEF WroteIn
<1>7. \A f : HeadWroteIn(u, f) <=> HeadWroteIn(t, f) \/ (e[1] = "head" /\ e[2] = f)
  BY <1>2, <1>3, <1>4, <1>5 DEF HeadWroteIn
<1>8. MissesIn(u) <=> MissesIn(t) \/ e[3] = Absent
  BY <1>2, <1>3, <1>4, <1>5 DEF MissesIn
<1> QED
  BY <1>6, <1>7, <1>8 DEF u

(* The entries before k tell what the value at k is, whatever follows. *)
LEMMA LastInPrefix ==
  ASSUME NEW t, IsList(t), NEW e, NEW x, NEW k \in 1 .. Len(t) + 1
  PROVE  LastIn(Append(t, e), k, x) = LastIn(t, k, x)
<1> DEFINE u == Append(t, e)
           n == Len(t)
           T == Touched(t, k, x)
<1>1. n \in Nat
  BY SeqFacts
<1>2. \A j \in 1 .. n : u[j] = t[j]
  BY AppendSeq
<1> HIDE DEF u, n
<1>3. \A j \in 1 .. k - 1 : j \in 1 .. n
  BY <1>1 DEF n
<1>4. Touched(u, k, x) = T
  BY <1>2, <1>3 DEF Touched
<1>5. ASSUME T # {} PROVE u[Max(T)] = t[Max(T)]
  <2>1. T \subseteq 1 .. k - 1
    BY DEF Touched
  <2>2. k - 1 \in Nat /\ T \subseteq 0 .. k - 1
    BY <1>1, <2>1 DEF n
  <2>3. Max(T) \in T
    BY <1>5, <2>2, GreatestMember
  <2> QED
    BY <1>2, <1>3, <2>1, <2>3
<1> HIDE DEF T
<1>6. LastIn(u, k, x) = IF T = {} \/ u[Max(T)][1] = "Take" THEN Absent ELSE u[Max(T)][3]
  BY <1>4 DEF LastIn
<1>7. LastIn(t, k, x) = IF T = {} \/ t[Max(T)][1] = "Take" THEN Absent ELSE t[Max(T)][3]
  BY DEF LastIn, T
<1>8. LastIn(u, k, x) = LastIn(t, k, x)
  BY <1>5, <1>6, <1>7
<1> QED
  BY <1>8 DEF u

(* What an entry makes of a value. *)
After(e, x, value) ==
  IF e[1] \in {"set", "Take"} /\ e[2] = x
  THEN IF e[1] = "Take" THEN Absent ELSE e[3]
  ELSE value

(* The value an entry leaves is the one found after it. *)
LEMMA LastAfter ==
  ASSUME NEW t, IsList(t), NEW e, NEW x
  PROVE  LastIn(Append(t, e), Len(t) + 2, x) = After(e, x, LastIn(t, Len(t) + 1, x))
<1> DEFINE u == Append(t, e)
           n == Len(t)
           T == Touched(t, n + 1, x)
           U == Touched(u, n + 2, x)
<1>1. n \in Nat
  BY SeqFacts
<1>2. (\A j \in 1 .. n : u[j] = t[j]) /\ u[n + 1] = e
  BY AppendSeq
<1> HIDE DEF u, n
<1>3. \A j : j \in 1 .. (n + 2) - 1 <=> j \in 1 .. n \/ j = n + 1
  BY <1>1
<1>4. \A j : j \in 1 .. (n + 1) - 1 <=> j \in 1 .. n
  BY <1>1
<1>5. CASE e[1] \in {"set", "Take"} /\ e[2] = x
  <2>1. n + 1 \in U
    BY <1>2, <1>3, <1>5 DEF Touched
  <2>2. U \subseteq 0 .. n + 1 /\ n + 1 \in Nat
    <3>1. U \subseteq 1 .. (n + 2) - 1
      BY DEF Touched
    <3> QED
      BY <1>1, <1>3, <3>1
  <2> HIDE DEF U
  <2>3. Max(U) \in U /\ \A m \in U : m <= Max(U)
    BY <2>1, <2>2, GreatestMember
  <2>4. Max(U) = n + 1
    <3>1. Max(U) \in 0 .. n + 1 /\ n + 1 <= Max(U)
      BY <2>1, <2>2, <2>3
    <3> QED
      BY <1>1, <3>1
  <2>5. LastIn(u, n + 2, x) = IF e[1] = "Take" THEN Absent ELSE e[3]
    BY <1>2, <2>1, <2>4 DEF LastIn, U
  <2> QED
    BY <1>5, <2>5 DEF After, u, n
<1>6. CASE ~(e[1] \in {"set", "Take"} /\ e[2] = x)
  <2>1. U = T
    BY <1>2, <1>3, <1>4, <1>6 DEF Touched
  <2>2. ASSUME T # {} PROVE u[Max(T)] = t[Max(T)]
    <3>1. T \subseteq 1 .. n
      BY <1>4 DEF Touched
    <3>2. T \subseteq 0 .. n
      BY <1>1, <3>1
    <3> HIDE DEF T
    <3>3. Max(T) \in T
      BY <1>1, <2>2, <3>2, GreatestMember
    <3> QED
      BY <1>2, <3>1, <3>3
  <2>3. LastIn(u, n + 2, x) = LastIn(t, n + 1, x)
    <3> HIDE DEF T
    <3>1. LastIn(u, n + 2, x) = IF T = {} \/ u[Max(T)][1] = "Take" THEN Absent ELSE u[Max(T)][3]
      BY <2>1 DEF LastIn
    <3>2. LastIn(t, n + 1, x) = IF T = {} \/ t[Max(T)][1] = "Take" THEN Absent ELSE t[Max(T)][3]
      BY DEF LastIn, T
    <3> QED
      BY <2>2, <3>1, <3>2
  <2> QED
    BY <1>6, <2>3 DEF After, u, n
<1> QED
  BY <1>5, <1>6

(* An entry that tells the truth about the scope it was written at. *)
EntryTrue(s, e) ==
  /\ e[1] \in {"Take", "Ref"} => e[2] \in DataTypes /\ e[3] = Get(s, e[2])
  /\ e[1] = "Mut" => e[2] \in DataTypes /\ e[3] = GetMut(s, e[2])
  /\ e[1] = "RawBody" => e[3] \in {Absent, Request.body.bytes}

(* A trail that tells the truth grows by an entry that does. *)
LEMMA TrailGrows ==
  ASSUME NEW s, NEW t, TrailOK(s, t), NEW e, EntryTrue(s, e), NEW after, after \in Scopes,
         \A x \in DataTypes : after.local[x] = After(e, x, s.local[x])
  PROVE  TrailOK(after, Append(t, e))
<1> DEFINE u == Append(t, e)
           n == Len(t)
<1>1. /\ IsList(t) /\ s \in Scopes
      /\ \A x \in DataTypes : s.local[x] = LastIn(t, n + 1, x)
      /\ \A k \in DOMAIN t : EntryOK(t, k)
  BY DEF TrailOK
<1>2. n \in Nat /\ DOMAIN t = 1 .. n
  BY <1>1, SeqFacts
<1>3. /\ IsList(u) /\ Len(u) = n + 1 /\ DOMAIN u = 1 .. n + 1
      /\ \A k \in 1 .. n : u[k] = t[k]
      /\ u[n + 1] = e
  BY <1>1, AppendSeq
<1>4. \A k \in 1 .. n + 1 : \A x : LastIn(u, k, x) = LastIn(t, k, x)
  BY <1>1, LastInPrefix
<1>5. \A x : LastIn(u, n + 2, x) = After(e, x, LastIn(t, n + 1, x))
  BY <1>1, LastAfter
<1> HIDE DEF u, n
<1>6. \A x \in DataTypes : after.local[x] = LastIn(u, Len(u) + 1, x)
  <2>1. Len(u) + 1 = n + 2
    BY <1>2, <1>3
  <2> QED
    BY <1>1, <1>5, <2>1
<1>7. ASSUME NEW k \in 1 .. n PROVE EntryOK(u, k)
  <2>1. k \in 1 .. n + 1 /\ u[k] = t[k] /\ EntryOK(t, k)
    BY <1>1, <1>2, <1>3
  <2>2. LastIn(u, k, u[k][2]) = LastIn(t, k, t[k][2])
    BY <1>4, <2>1
  <2> QED
    BY <2>1, <2>2 DEF EntryOK
<1>8. EntryOK(u, n + 1)
  <2>1. n + 1 \in 1 .. n + 1
    BY <1>2
  <2>2. ASSUME e[2] \in DataTypes PROVE LastIn(u, n + 1, u[n + 1][2]) = s.local[e[2]]
    BY <1>1, <1>3, <1>4, <2>1, <2>2
  <2>3. s.shared = given.shared
    BY <1>1 DEF Scopes
  <2> QED
    BY <1>3, <2>2, <2>3 DEF EntryOK, EntryTrue, Get, GetMut
<1>9. \A k \in DOMAIN u : EntryOK(u, k)
  <2>1. \A k \in 1 .. n + 1 : k \in 1 .. n \/ k = n + 1
    BY <1>2
  <2> QED
    BY <1>3, <1>7, <1>8, <2>1
<1>10. TrailOK(after, u)
  BY <1>3, <1>6, <1>9 DEF TrailOK
<1> QED
  BY <1>10 DEF u

(* Changes of a scope leave it one. *)
LEMMA ScopesAreClosed ==
  ASSUME GivenOK, NEW s, s \in Scopes
  PROVE  /\ \A x \in DataTypes, o \in Origins \union {Absent} :
              /\ Insert(s, x, o) \in Scopes
              /\ Insert(s, x, o).local = [s.local EXCEPT ![x] = o]
              /\ Insert(s, x, o).body = s.body /\ Insert(s, x, o).raw = s.raw
         /\ \A x \in DataTypes :
              /\ AfterTake(s, x) \in Scopes
              /\ AfterTake(s, x).local = [s.local EXCEPT ![x] = Absent]
              /\ AfterTake(s, x).body = s.body /\ AfterTake(s, x).raw = s.raw
         /\ /\ AfterTakeBody(s) \in Scopes
            /\ AfterTakeBody(s).local = s.local /\ AfterTakeBody(s).body = "taken"
            /\ AfterTakeBody(s).raw = s.raw
         /\ /\ AfterRead(s, Request.body) \in Scopes
            /\ AfterRead(s, Request.body).local = s.local
            /\ AfterRead(s, Request.body).body = "taken"
            /\ AfterRead(s, Request.body).raw =
                 IF CanRead(s, Request.body) THEN Request.body.bytes ELSE s.raw
<1>1. ASSUME NEW x \in DataTypes, NEW o \in Origins \union {Absent}
      PROVE  /\ Insert(s, x, o) \in Scopes
             /\ Insert(s, x, o).local = [s.local EXCEPT ![x] = o]
             /\ Insert(s, x, o).body = s.body /\ Insert(s, x, o).raw = s.raw
  BY DEF Insert, Scopes
<1>2. ASSUME NEW x \in DataTypes
      PROVE  /\ AfterTake(s, x) \in Scopes
             /\ AfterTake(s, x).local = [s.local EXCEPT ![x] = Absent]
             /\ AfterTake(s, x).body = s.body /\ AfterTake(s, x).raw = s.raw
  BY DEF AfterTake, Scopes
<1>3. /\ AfterTakeBody(s) \in Scopes
      /\ AfterTakeBody(s).local = s.local /\ AfterTakeBody(s).body = "taken"
      /\ AfterTakeBody(s).raw = s.raw
  BY DEF AfterTakeBody, Scopes
<1>4. /\ AfterRead(s, Request.body) \in Scopes
      /\ AfterRead(s, Request.body).local = s.local
      /\ AfterRead(s, Request.body).body = "taken"
      /\ AfterRead(s, Request.body).raw =
           IF CanRead(s, Request.body) THEN Request.body.bytes ELSE s.raw
  BY DEF AfterRead, AfterTakeBody, Scopes
<1> QED
  BY <1>1, <1>2, <1>3, <1>4

-----------------------------------------------------------------------------
(***************************************************************************)
(* The parameters of a handler.                                            *)
(***************************************************************************)

(* What the recursive function inside Bind is. *)
BindsFrom(f, s, lets, n) ==
  f = [k \in 0 .. n |-> IF k = 0 THEN [scope |-> s, missing |-> FALSE, seen |-> <<>>]
                                 ELSE BindStep(f[k - 1], lets[k])]

(* The recursion of Bind defines a function. *)
LEMMA BindIsDefined ==
  ASSUME NEW s, NEW lets, NEW n \in Nat
  PROVE  \E f : BindsFrom(f, s, lets, n)
<1> DEFINE first == [scope |-> s, missing |-> FALSE, seen |-> <<>>]
           Good == {m \in Nat : \E f : BindsFrom(f, s, lets, m)}
<1>1. 0 \in Good
  <2>1. BindsFrom([k \in 0 .. 0 |-> first], s, lets, 0)
    BY DEF BindsFrom
  <2> QED
    BY <2>1
<1>2. ASSUME NEW m \in Nat, m \in Good PROVE m + 1 \in Good
  <2>1. PICK f : BindsFrom(f, s, lets, m)
    BY <1>2
  <2>2. f = [k \in 0 .. m |-> IF k = 0 THEN first ELSE BindStep(f[k - 1], lets[k])]
    BY <2>1 DEF BindsFrom
  <2> DEFINE h == [k \in 0 .. m + 1 |-> IF k = m + 1 THEN BindStep(f[m], lets[m + 1]) ELSE f[k]]
  <2>3. \A k \in 0 .. m + 1 : h[k] = IF k = 0 THEN first ELSE BindStep(h[k - 1], lets[k])
    <3>1. SUFFICES ASSUME NEW k \in 0 .. m + 1
                   PROVE  h[k] = IF k = 0 THEN first ELSE BindStep(h[k - 1], lets[k])
      OBVIOUS
    <3>2. CASE k = m + 1
      BY <3>2
    <3>3. CASE k # m + 1
      <4>1. k \in 0 .. m /\ h[k] = f[k] /\ (k # 0 => h[k - 1] = f[k - 1])
        BY <3>3
      <4>2. f[k] = IF k = 0 THEN first ELSE BindStep(f[k - 1], lets[k])
        BY <2>2, <4>1
      <4> QED
        BY <4>1, <4>2
    <3> QED
      BY <3>2, <3>3
  <2>4. BindsFrom(h, s, lets, m + 1)
    BY <2>3 DEF BindsFrom
  <2> HIDE DEF h
  <2> QED
    BY <2>4
<1>3. \A m \in Nat : m \in Good => m + 1 \in Good
  BY <1>2
<1> HIDE DEF Good
<1>4. Nat \subseteq Good
  BY <1>1, <1>3, NoLeastBad
<1> QED
  BY <1>4 DEF Good

(* Concatenation with a longer list is one more append. *)
LEMMA ConcatAppend ==
  ASSUME NEW t, IsList(t), NEW s, IsList(s), NEW e
  PROVE  t \o Append(s, e) = Append(t \o s, e)
<1> DEFINE a == Append(s, e)
           ts == t \o s
           u == t \o a
           v == Append(ts, e)
           n == Len(t)
           m == Len(s)
<1>1. n \in Nat /\ m \in Nat
  BY SeqFacts
<1>2. /\ IsList(a) /\ Len(a) = m + 1 /\ a[m + 1] = e
      /\ \A k \in 1 .. m : a[k] = s[k]
  BY AppendSeq
<1>3. /\ IsList(ts) /\ Len(ts) = n + m
      /\ \A k \in 1 .. n : ts[k] = t[k]
      /\ \A k \in 1 .. m : ts[n + k] = s[k]
  BY ConcatSeq
<1> HIDE DEF a, ts
<1>4. /\ IsList(u) /\ Len(u) = n + Len(a)
      /\ \A k \in 1 .. n : u[k] = t[k]
      /\ \A k \in 1 .. Len(a) : u[n + k] = a[k]
  <2>1. IsList(a)
    BY <1>2
  <2> QED
    BY <2>1, ConcatSeq
<1>5. /\ IsList(v) /\ Len(v) = Len(ts) + 1
      /\ \A k \in 1 .. Len(ts) : v[k] = ts[k]
      /\ v[Len(ts) + 1] = e
  BY <1>3, AppendSeq
<1> HIDE DEF u, v, n, m
<1>6. Len(u) = n + m + 1 /\ Len(v) = n + m + 1
  BY <1>1, <1>2, <1>3, <1>4, <1>5
<1>7. \A k \in 1 .. n + m + 1 : u[k] = v[k]
  <2>1. SUFFICES ASSUME NEW k \in 1 .. n + m + 1 PROVE u[k] = v[k]
    OBVIOUS
  <2>2. CASE k \in 1 .. n
    <3>1. k \in 1 .. n + m
      BY <1>1, <2>2
    <3> QED
      BY <1>3, <1>4, <1>5, <2>2, <3>1
  <2>3. CASE k \in n + 1 .. n + m
    <3>1. k - n \in 1 .. m /\ k - n \in 1 .. m + 1 /\ k = n + (k - n) /\ k \in 1 .. n + m
      BY <1>1, <2>3
    <3>2. u[k] = a[k - n] /\ ts[k] = s[k - n] /\ v[k] = ts[k] /\ a[k - n] = s[k - n]
      BY <1>2, <1>3, <1>4, <1>5, <3>1
    <3> QED
      BY <3>2
  <2>4. CASE k = n + m + 1
    <3>1. m + 1 \in 1 .. Len(a) /\ k = n + (m + 1) /\ k = Len(ts) + 1
      BY <1>1, <1>2, <1>3, <2>4
    <3> QED
      BY <1>2, <1>4, <1>5, <3>1
  <2> QED
    BY <1>1, <2>2, <2>3, <2>4
<1>8. u = v
  BY <1>4, <1>5, <1>6, <1>7, SameList
<1> QED
  BY <1>8 DEF u, v, a, ts

(* What binding leaves of a scope s and makes of a trail t. *)
BoundOK(b, s, t) ==
  LET u == t \o b.seen
  IN  /\ IsList(b.seen) /\ TrailOK(b.scope, u)
      /\ b.scope.body = s.body /\ b.scope.raw = s.raw
      /\ WroteIn(u, HookTakes) <=> WroteIn(t, HookTakes)
      /\ WroteIn(u, RouteTakes) <=> WroteIn(t, RouteTakes)
      /\ \A f : HeadWroteIn(u, f) <=> HeadWroteIn(t, f)
      /\ b.missing => MissesIn(u)

(* Where each kind of parameter comes from. *)
LEMMA SourcesOfParams ==
  ASSUME NEW p
  PROVE  /\ Source(p) \in {"PartsCtx", "RequestScope", "RawBody", "Take", "Ref", "Mut", "error"}
         /\ Source(p) \in {"Take", "Ref", "Mut"} => p.type \in DataTypes
BY DEF Source

(* Binding one parameter reads what the trail says is there (expand.rs). *)
LEMMA BindStepIsOK ==
  ASSUME GivenOK, NEW s, NEW t, IsList(t), NEW b, BoundOK(b, s, t), NEW p
  PROVE  BoundOK(BindStep(b, p), s, t)
<1>1. CASE b.missing
  BY <1>1 DEF BindStep
<1>2. CASE ~b.missing
  <2> DEFINE src == Source(p)
             e == <<src, p.type, Found(b.scope, p)>>
             c == BindStep(b, p)
             seen == Append(b.seen, e)
             scp == IF src = "Take" THEN AfterTake(b.scope, p.type) ELSE b.scope
             u == t \o b.seen
  <2>1. c.scope = scp /\ c.seen = seen /\ c.missing = (Found(b.scope, p) = Absent)
    BY <1>2 DEF BindStep
  <2>2. /\ src \in {"PartsCtx", "RequestScope", "RawBody", "Take", "Ref", "Mut", "error"}
        /\ src \in {"Take", "Ref", "Mut"} => p.type \in DataTypes
    BY SourcesOfParams
  <2>3. IsList(b.seen) /\ TrailOK(b.scope, u) /\ IsList(u) /\ b.scope \in Scopes
    BY DEF BoundOK, TrailOK
  <2>4. t \o seen = Append(u, e) /\ IsList(seen)
    BY <2>3, ConcatAppend, AppendSeq
  <2>5. e[1] = src /\ e[2] = p.type /\ e[3] = Found(b.scope, p)
    OBVIOUS
  <2>6. EntryTrue(b.scope, e)
    <3>1. b.scope.raw \in {"none", Request.body.bytes}
      BY <2>3 DEF Scopes
    <3> HIDE DEF e
    <3> QED
      BY <2>2, <2>5, <3>1 DEF EntryTrue, Found, RawBody
  <2>7. scp \in Scopes /\ scp.body = b.scope.body /\ scp.raw = b.scope.raw
    BY <2>2, <2>3, ScopesAreClosed
  <2>8. \A x \in DataTypes : scp.local[x] = After(e, x, b.scope.local[x])
    <3>1. CASE src = "Take"
      <4>1. scp.local = [b.scope.local EXCEPT ![p.type] = Absent]
            /\ b.scope.local \in [DataTypes -> Origins \union {Absent}]
        BY <2>2, <2>3, <3>1, ScopesAreClosed DEF Scopes
      <4> HIDE DEF e, scp
      <4> QED
        BY <2>2, <2>5, <3>1, <4>1 DEF After
    <3>2. CASE src # "Take"
      <4> HIDE DEF e
      <4> QED
        BY <2>2, <2>5, <3>2 DEF After
    <3> QED
      BY <3>1, <3>2
  <2>9. e # HookTakes /\ e # RouteTakes /\ e[1] # "head"
    <3>1. HookTakes[1] = "body" /\ RouteTakes[1] = "body"
      BY DEF HookTakes, RouteTakes
    <3> HIDE DEF e
    <3> QED
      BY <2>2, <2>5, <3>1
  <2> HIDE DEF e, c, seen, scp, u
  <2>10. TrailOK(scp, Append(u, e))
    BY <2>3, <2>6, <2>7, <2>8, TrailGrows
  <2> DEFINE v == Append(u, e)
  <2>11. /\ \A w : WroteIn(v, w) <=> WroteIn(u, w) \/ e = w
         /\ \A f : HeadWroteIn(v, f) <=> HeadWroteIn(u, f) \/ (e[1] = "head" /\ e[2] = f)
         /\ MissesIn(v) <=> MissesIn(u) \/ e[3] = Absent
    <3>1. IsList(u)
      BY <2>3
    <3>2. \A w : WroteIn(v, w) <=> WroteIn(u, w) \/ e = w
      BY <3>1, WroteOneMore, Zenon
    <3>3. \A f : HeadWroteIn(v, f) <=> HeadWroteIn(u, f) \/ (e[1] = "head" /\ e[2] = f)
      BY <3>1, WroteOneMore, Zenon
    <3>4. MissesIn(v) <=> MissesIn(u) \/ e[3] = Absent
      BY <3>1, WroteOneMore, Zenon
    <3> QED
      BY <3>2, <3>3, <3>4, Zenon
  <2>12. t \o c.seen = v /\ c.scope = scp /\ IsList(c.seen) /\ c.missing = (e[3] = Absent)
    BY <2>1, <2>4, <2>5
  <2> HIDE DEF v
  <2>13. BoundOK(b, s, t) <=>
           /\ IsList(b.seen) /\ TrailOK(b.scope, u)
           /\ b.scope.body = s.body /\ b.scope.raw = s.raw
           /\ WroteIn(u, HookTakes) <=> WroteIn(t, HookTakes)
           /\ WroteIn(u, RouteTakes) <=> WroteIn(t, RouteTakes)
           /\ \A f : HeadWroteIn(u, f) <=> HeadWroteIn(t, f)
           /\ b.missing => MissesIn(u)
    BY DEF BoundOK, u
  <2>14. TrailOK(scp, v)
    BY <2>10 DEF v
  <2>15. BoundOK(c, s, t)
    BY <2>7, <2>9, <2>11, <2>12, <2>13, <2>14 DEF BoundOK
  <2> QED
    BY <2>15 DEF c
<1> QED
  BY <1>1, <1>2

(* So does binding them all. *)
LEMMA BindIsOK ==
  ASSUME GivenOK, NEW sig \in Signatures, NEW s, NEW t, TrailOK(s, t)
  PROVE  BoundOK(Bind(sig, s), s, t)
<1> DEFINE lets == Bindings(sig)
           n == Len(lets)
           f == CHOOSE g : BindsFrom(g, s, lets, n)
<1>1. Bind(sig, s) = f[n]
  BY DEF Bind, BindsFrom
<1>2. IsList(lets) /\ n \in Nat
  BY BindingsInBlocks, SeqFacts
<1> HIDE DEF lets, n
<1>3. BindsFrom(f, s, lets, n)
  BY <1>2, BindIsDefined
<1> HIDE DEF f
<1> DEFINE first == [scope |-> s, missing |-> FALSE, seen |-> <<>>]
<1>4. \A k \in 0 .. n : f[k] = IF k = 0 THEN first ELSE BindStep(f[k - 1], lets[k])
  BY <1>3 DEF BindsFrom
<1>5. IsList(t)
  BY DEF TrailOK
<1> DEFINE Good == {m \in Nat : m <= n => BoundOK(f[m], s, t)}
<1>6. 0 \in Good
  <2>1. f[0] = first
    <3> HIDE DEF first
    <3> QED
      BY <1>2, <1>4
  <2>2. t \o <<>> = t
    BY <1>5, ConcatEmptySeq DEF IsList
  <2>3. BoundOK(first, s, t)
    BY <2>2, EmptyList DEF BoundOK
  <2> QED
    BY <2>1, <2>3
<1>7. \A m \in Nat : m \in Good => m + 1 \in Good
  <2>1. SUFFICES ASSUME NEW m \in Nat, m \in Good, m + 1 <= n
                 PROVE  BoundOK(f[m + 1], s, t)
    OBVIOUS
  <2>2. BoundOK(f[m], s, t)
    BY <1>2, <2>1
  <2>3. f[m + 1] = BindStep(f[m], lets[m + 1])
    <3>1. m + 1 \in 0 .. n /\ m + 1 # 0 /\ (m + 1) - 1 = m
      BY <1>2, <2>1
    <3> QED
      BY <1>4, <3>1
  <2> QED
    BY <1>5, <2>2, <2>3, BindStepIsOK
<1> HIDE DEF Good
<1>8. Nat \subseteq Good
  BY <1>6, <1>7, NoLeastBad
<1>9. BoundOK(f[n], s, t)
  BY <1>2, <1>8 DEF Good
<1> QED
  BY <1>1, <1>9

-----------------------------------------------------------------------------
(***************************************************************************)
(* What user code may do.                                                  *)
(***************************************************************************)

(* What a server error says that the code of the application did. *)
HandlersBlamed(code, t) ==
  CASE code = "missing_from_scope" -> MissesIn(t)
    [] code = "request_body_already_consumed" ->
         WroteIn(t, HookTakes) \/ WroteIn(t, <<"body", "handler", "gone">>)
    [] OTHER -> \E i \in DOMAIN route.map : route.map[i].output # "unit"

(* What a client error says that the client sent. *)
ClientBlamed(code, t) ==
  CASE code = "invalid_path_parameters" -> ~Valid(Request.path)
    [] code = "invalid_query"           -> ~Valid(Request.query)
    [] code = "invalid_form_query"      -> ~Valid(Request.query) \/ HeadWroteIn(t, "query")
    [] code \in {"invalid_json_body", "invalid_form_body"} -> ~Valid(Request.body.bytes)
    [] code = "request_body_too_large"  -> Request.body.len > BodyLimit \/ Request.body.broken
    [] code = "expected_form_urlencoded" ->
         Request.ctype # "form" \/ HeadWroteIn(t, "ctype")
    [] code = "expected_multipart_form_data" ->
         Request.ctype # "multipart" \/ HeadWroteIn(t, "ctype")
    [] OTHER -> FALSE

(* An error blames the side that its status is about. *)
BlamedIn(e, t) ==
  e.family \in {"core", "pipeline"} =>
    \/ WroteIn(t, <<"handler", "returned", e.code>>)
    \/ IF IsServerError(e) THEN HandlersBlamed(e.code, t) ELSE ClientBlamed(e.code, t)

(* The query is the client's unless a handler wrote it. *)
QueryOK(h, t) == HeadWroteIn(t, "query") \/ h.query = Request.query

(* The effect e on the trail, and on the scope, keeps what is known. *)
KeepsOK(s, t, after, u) ==
  /\ TrailOK(after, u)
  /\ \A b : BodyOK(s, t, b) => BodyOK(after, u, b)
  /\ TakesAreNoted(s, t) => TakesAreNoted(after, u)
  /\ WroteIn(u, RouteTakes) <=> WroteIn(t, RouteTakes)
  /\ \A f : HeadWroteIn(t, f) => HeadWroteIn(u, f)

(* What a call of user code leaves behind. *)
CallOK(o, h, s, t) ==
  /\ KeepsOK(s, t, o.scope, o.trail)
  /\ HeadOK(o.head, o.trail)
  /\ QueryOK(h, t) => QueryOK(o.head, o.trail)
  /\ o.error # NoError => BlamedIn(o.error, o.trail)

(* An effect that is noted in the trail keeps what is known of the scope. *)
LEMMA EffectKeeps ==
  ASSUME NEW s, NEW t, TrailOK(s, t), NEW e, EntryTrue(s, e),
         NEW after, after \in Scopes, after.body = s.body, after.raw = s.raw,
         \A x \in DataTypes : after.local[x] = After(e, x, s.local[x]), e[1] # "body"
  PROVE  KeepsOK(s, t, after, Append(t, e))
<1> DEFINE u == Append(t, e)
<1>1. IsList(t)
  BY DEF TrailOK
<1>2. \A w : WroteIn(u, w) <=> WroteIn(t, w) \/ e = w
  BY <1>1, WroteOneMore, Zenon
<1>3. \A f : HeadWroteIn(u, f) <=> HeadWroteIn(t, f) \/ (e[1] = "head" /\ e[2] = f)
  BY <1>1, WroteOneMore, Zenon
<1>4. TrailOK(after, u)
  BY TrailGrows
<1>5. e # HookTakes /\ e # RouteTakes
  BY DEF HookTakes, RouteTakes
<1> HIDE DEF u
<1>6. WroteIn(u, HookTakes) <=> WroteIn(t, HookTakes)
  BY <1>2, <1>5
<1>7. WroteIn(u, RouteTakes) <=> WroteIn(t, RouteTakes)
  BY <1>2, <1>5
<1>8. KeepsOK(s, t, after, u)
  BY <1>3, <1>4, <1>6, <1>7 DEF KeepsOK, BodyOK, TakesAreNoted
<1> QED
  BY <1>8 DEF u

(* Taking the body notes who was first. *)
LEMMA TakingKeeps ==
  ASSUME NEW s, NEW t, TrailOK(s, t), NEW after, after \in Scopes, after.local = s.local,
         after.body = "taken", HasBody(s) \/ after.raw = s.raw
  PROVE  /\ KeepsOK(s, t, after, Append(t, BodyNote(s)))
         /\ \/ WroteIn(Append(t, BodyNote(s)), HookTakes)
            \/ WroteIn(Append(t, BodyNote(s)), <<"body", "handler", "gone">>)
<1> DEFINE e == BodyNote(s)
           u == Append(t, e)
<1>0. s.body \in {"stream", "taken"}
  BY DEF TrailOK, Scopes
<1>1. IsList(t)
  BY DEF TrailOK
<1>2. /\ e[1] = "body" /\ e # RouteTakes
      /\ IF HasBody(s) THEN e = HookTakes
                       ELSE e = <<"body", "handler", "gone">> /\ e # HookTakes
  BY DEF BodyNote, HookTakes, RouteTakes
<1> HIDE DEF e
<1>3. \A w : WroteIn(u, w) <=> WroteIn(t, w) \/ e = w
  BY <1>1, WroteOneMore, Zenon
<1>4. \A f : HeadWroteIn(u, f) <=> HeadWroteIn(t, f) \/ (e[1] = "head" /\ e[2] = f)
  BY <1>1, WroteOneMore, Zenon
<1>5. TrailOK(after, u)
  <2>1. EntryTrue(s, e)
    BY <1>2 DEF EntryTrue
  <2>2. \A x \in DataTypes : after.local[x] = After(e, x, s.local[x])
    BY <1>2 DEF After
  <2> QED
    BY <2>1, <2>2, TrailGrows
<1> HIDE DEF u
<1>6. WroteIn(u, RouteTakes) <=> WroteIn(t, RouteTakes)
  BY <1>2, <1>3
<1>7. ASSUME NEW b, BodyOK(s, t, b) PROVE BodyOK(after, u, b)
  <2>1. CASE b = "none"
    BY <1>6, <1>7, <2>1 DEF BodyOK
  <2>2. CASE b # "none"
    <3>1. s.body = "taken" /\ ~HasBody(s)
      BY <1>7, <2>2 DEF BodyOK, HasBody
    <3>2. WroteIn(u, HookTakes) <=> WroteIn(t, HookTakes)
      BY <1>2, <1>3, <3>1
    <3>3. after.raw = s.raw
      BY <3>1
    <3> QED
      BY <1>6, <1>7, <2>2, <3>1, <3>2, <3>3 DEF BodyOK
  <2> QED
    BY <2>1, <2>2
<1>8. TakesAreNoted(s, t) => TakesAreNoted(after, u)
  BY <1>0, <1>2, <1>3, <1>6 DEF TakesAreNoted, HasBody
<1>9. KeepsOK(s, t, after, u)
  BY <1>4, <1>5, <1>6, <1>7, <1>8 DEF KeepsOK
<1>10. WroteIn(u, HookTakes) \/ WroteIn(u, <<"body", "handler", "gone">>)
  BY <1>2, <1>3
<1> QED
  BY <1>9, <1>10 DEF u, e

(* No effect keeps it too. *)
LEMMA NothingKeeps ==
  ASSUME NEW s, NEW t, TrailOK(s, t)
  PROVE  KeepsOK(s, t, s, t)
BY DEF KeepsOK

(* A head nobody touched stays as it was. *)
LEMMA UnchangedHeadOK ==
  ASSUME NEW h, NEW s, NEW t, HeadOK(h, t), NEW after, NEW u, KeepsOK(s, t, after, u)
  PROVE  HeadOK(h, u) /\ (QueryOK(h, t) => QueryOK(h, u))
BY DEF HeadOK, QueryOK, KeepsOK

(* What a handler may do to a value it holds by &mut. *)
LEMMA MutEffectsAreOK ==
  ASSUME GivenOK, NEW h, NEW s, NEW t, TrailOK(s, t), HeadOK(h, t),
         NEW types, types \subseteq DataTypes, NEW o \in MutEffects(h, s, t, types)
  PROVE  CallOK(o, h, s, t)
<1>1. PICK x \in types :
        o = Outcome(h, Insert(s, x, "hook"), Append(t, <<"set", x, "hook">>), NoError)
  BY DEF MutEffects
<1> DEFINE e == <<"set", x, "hook">>
           after == Insert(s, x, "hook")
           u == Append(t, e)
<1>2. o.head = h /\ o.scope = after /\ o.trail = u /\ o.error = NoError
  BY <1>1 DEF Outcome
<1>3. s \in Scopes /\ "hook" \in Origins /\ s.local \in [DataTypes -> Origins \union {Absent}]
  BY DEF TrailOK, Scopes, Origins
<1>4. /\ after \in Scopes /\ after.local = [s.local EXCEPT ![x] = "hook"]
      /\ after.body = s.body /\ after.raw = s.raw
  BY <1>1, <1>3, ScopesAreClosed
<1>5. e[1] = "set" /\ e[2] = x /\ e[3] = "hook"
  OBVIOUS
<1> HIDE DEF e, after, u
<1>6. EntryTrue(s, e)
  BY <1>5 DEF EntryTrue
<1>7. \A y \in DataTypes : after.local[y] = After(e, y, s.local[y])
  BY <1>3, <1>4, <1>5 DEF After
<1>8. KeepsOK(s, t, after, u)
  BY <1>4, <1>5, <1>6, <1>7, EffectKeeps DEF u
<1> QED
  BY <1>2, <1>8, UnchangedHeadOK DEF CallOK

(* What a handler may do to the parts of the request it holds. *)
LEMMA CtxEffectsAreOK ==
  ASSUME GivenOK, NEW h, NEW s, NEW t, TrailOK(s, t), HeadOK(h, t),
         NEW o \in CtxEffects(h, s, t)
  PROVE  CallOK(o, h, s, t)
<1>0. s \in Scopes /\ IsList(t) /\ h \in Heads
  BY DEF TrailOK, HeadOK
<1>1. ASSUME NEW e, e[1] = "head"
      PROVE  KeepsOK(s, t, s, Append(t, e)) /\ HeadWroteIn(Append(t, e), e[2])
  <2>1. EntryTrue(s, e) /\ \A x \in DataTypes : s.local[x] = After(e, x, s.local[x])
    BY <1>1 DEF EntryTrue, After
  <2>2. KeepsOK(s, t, s, Append(t, e))
    BY <1>0, <1>1, <2>1, EffectKeeps
  <2>3. \A f : HeadWroteIn(Append(t, e), f) <=>
                 HeadWroteIn(t, f) \/ (e[1] = "head" /\ e[2] = f)
    BY <1>0, WroteOneMore, Zenon
  <2> QED
    BY <1>1, <2>2, <2>3
<1>2. ASSUME NEW g \in Heads, NEW e, e[1] = "head",
             e[2] = "query" \/ g.query = h.query, e[2] = "ctype" \/ g.ctype = h.ctype,
             e[2] = "clen" \/ g.clen = h.clen, o = Outcome(g, s, Append(t, e), NoError)
      PROVE  CallOK(o, h, s, t)
  <2> DEFINE u == Append(t, e)
  <2>1. o.head = g /\ o.scope = s /\ o.trail = u /\ o.error = NoError
    BY <1>2 DEF Outcome
  <2>2. KeepsOK(s, t, s, u) /\ HeadWroteIn(u, e[2])
    BY <1>1, <1>2
  <2> HIDE DEF u
  <2>3. \A f : HeadWroteIn(t, f) => HeadWroteIn(u, f)
    BY <2>2 DEF KeepsOK
  <2>4. HeadOK(g, u) /\ (QueryOK(h, t) => QueryOK(g, u))
    BY <1>2, <2>2, <2>3 DEF HeadOK, QueryOK
  <2> QED
    BY <2>1, <2>2, <2>4 DEF CallOK
<1>3. ASSUME NEW q \in {"hooked", "bad", "empty"},
             o = Outcome(SetEncodedQuery(h, q), s, Append(t, <<"head", "query", q>>), NoError)
      PROVE  CallOK(o, h, s, t)
  <2> DEFINE g == SetEncodedQuery(h, q)
             e == <<"head", "query", q>>
  <2>1. g \in Heads /\ g.ctype = h.ctype /\ g.clen = h.clen
    BY <1>0 DEF SetEncodedQuery, Heads
  <2>2. e[1] = "head" /\ e[2] = "query" /\ o = Outcome(g, s, Append(t, e), NoError)
    BY <1>3
  <2> HIDE DEF g, e
  <2> QED
    BY <1>2, <2>1, <2>2
<1>4. ASSUME NEW u \in HookedUris,
             o = Outcome([h EXCEPT !.path = u.path, !.query = u.query], s,
                         Append(t, <<"head", "query", u.query>>), NoError)
      PROVE  CallOK(o, h, s, t)
  <2> DEFINE g == [h EXCEPT !.path = u.path, !.query = u.query]
             e == <<"head", "query", u.query>>
  <2>1. g \in Heads /\ g.ctype = h.ctype /\ g.clen = h.clen
    BY <1>0 DEF HookedUris, Heads
  <2>2. e[1] = "head" /\ e[2] = "query" /\ o = Outcome(g, s, Append(t, e), NoError)
    BY <1>4
  <2> HIDE DEF g, e
  <2> QED
    BY <1>2, <2>1, <2>2
<1>5. ASSUME NEW c \in ContentTypes,
             o = Outcome([h EXCEPT !.ctype = c], s, Append(t, <<"head", "ctype", c>>), NoError)
      PROVE  CallOK(o, h, s, t)
  <2> DEFINE g == [h EXCEPT !.ctype = c]
             e == <<"head", "ctype", c>>
  <2>1. g \in Heads /\ g.query = h.query /\ g.clen = h.clen
    BY <1>0 DEF Heads
  <2>2. e[1] = "head" /\ e[2] = "ctype" /\ o = Outcome(g, s, Append(t, e), NoError)
    BY <1>5
  <2> HIDE DEF g, e
  <2> QED
    BY <1>2, <2>1, <2>2
<1>6. ASSUME NEW n \in {"none", "hooked"},
             o = Outcome([h EXCEPT !.clen = n], s, Append(t, <<"head", "clen", n>>), NoError)
      PROVE  CallOK(o, h, s, t)
  <2> DEFINE g == [h EXCEPT !.clen = n]
             e == <<"head", "clen", n>>
  <2>1. g \in Heads /\ g.query = h.query /\ g.ctype = h.ctype
    BY <1>0 DEF Heads
  <2>2. e[1] = "head" /\ e[2] = "clen" /\ o = Outcome(g, s, Append(t, e), NoError)
    BY <1>6
  <2> HIDE DEF g, e
  <2> QED
    BY <1>2, <2>1, <2>2
<1> QED
  BY <1>3, <1>4, <1>5, <1>6 DEF CtxEffects

(* What a handler may do to the request scope it holds. *)
LEMMA ScopeEffectsAreOK ==
  ASSUME GivenOK, NEW h, NEW s, NEW t, TrailOK(s, t), HeadOK(h, t),
         NEW o \in ScopeEffects(h, s, t)
  PROVE  CallOK(o, h, s, t)
<1>0. s \in Scopes /\ IsList(t) /\ s.local \in [DataTypes -> Origins \union {Absent}]
      /\ s.body \in {"stream", "taken"}
  BY DEF TrailOK, Scopes
<1>1. CASE o \in MutEffects(h, s, t, DataTypes)
  BY <1>1, MutEffectsAreOK
<1>2. ASSUME NEW x \in DataTypes,
             o = Outcome(h, AfterTake(s, x), Append(t, <<"Take", x, Get(s, x)>>), NoError)
      PROVE  CallOK(o, h, s, t)
  <2> DEFINE v == Get(s, x)
             e == <<"Take", x, v>>
             after == AfterTake(s, x)
             u == Append(t, e)
  <2>1. o.head = h /\ o.scope = after /\ o.trail = u /\ o.error = NoError
    BY <1>2 DEF Outcome
  <2>2. /\ after \in Scopes /\ after.local = [s.local EXCEPT ![x] = Absent]
        /\ after.body = s.body /\ after.raw = s.raw
    BY <1>0, ScopesAreClosed
  <2>3. e[1] = "Take" /\ e[2] = x /\ e[3] = Get(s, x)
    OBVIOUS
  <2> HIDE DEF e, after, u
  <2>4. EntryTrue(s, e)
    BY <2>3 DEF EntryTrue
  <2>5. \A y \in DataTypes : after.local[y] = After(e, y, s.local[y])
    BY <1>0, <2>2, <2>3 DEF After
  <2>6. KeepsOK(s, t, after, u)
    BY <2>2, <2>3, <2>4, <2>5, EffectKeeps DEF u
  <2> QED
    BY <2>1, <2>6, UnchangedHeadOK DEF CallOK
<1> DEFINE u == Append(t, BodyNote(s))
<1>3. CASE o = Outcome(h, AfterTakeBody(s), u, NoError)
  <2>1. o.head = h /\ o.scope = AfterTakeBody(s) /\ o.trail = u /\ o.error = NoError
    BY <1>3 DEF Outcome
  <2> DEFINE after == AfterTakeBody(s)
  <2>2. after \in Scopes /\ after.local = s.local /\ after.body = "taken" /\ after.raw = s.raw
    BY <1>0, ScopesAreClosed
  <2> HIDE DEF after
  <2>3. KeepsOK(s, t, after, u)
    BY <2>2, TakingKeeps
  <2> HIDE DEF u
  <2> QED
    BY <2>1, <2>3, UnchangedHeadOK DEF CallOK, after
<1>4. CASE o = Outcome(h, AfterRead(s, Request.body), u,
                       IF CanRead(s, Request.body) THEN NoError ELSE Pipe(ReadFailure(s)))
  <2> DEFINE after == AfterRead(s, Request.body)
             err == IF CanRead(s, Request.body) THEN NoError ELSE Pipe(ReadFailure(s))
  <2>1. o.head = h /\ o.scope = after /\ o.trail = u /\ o.error = err
    BY <1>4 DEF Outcome
  <2>2. after \in Scopes /\ after.local = s.local /\ after.body = "taken"
        /\ after.raw = IF CanRead(s, Request.body) THEN Request.body.bytes ELSE s.raw
    BY <1>0, ScopesAreClosed
  <2>3. HasBody(s) \/ after.raw = s.raw
    BY <2>2 DEF CanRead
  <2> HIDE DEF after
  <2>4. /\ KeepsOK(s, t, after, u)
        /\ WroteIn(u, HookTakes) \/ WroteIn(u, <<"body", "handler", "gone">>)
    BY <2>2, <2>3, TakingKeeps
  <2> HIDE DEF u
  <2>5. ASSUME ~CanRead(s, Request.body) PROVE BlamedIn(Pipe(ReadFailure(s)), u)
    <3>1. CASE HasBody(s)
      <4>1. Request.body.len > BodyLimit \/ Request.body.broken
        <5>1. Request.body.len \in Nat /\ BodyLimit \in Nat
          BY ScopeAssumption DEF GivenOK, ClientRequests, Request
        <5> QED
          BY <2>5, <3>1, <5>1 DEF CanRead
      <4>2. /\ Pipe(ReadFailure(s)).code = "request_body_too_large"
            /\ Pipe(ReadFailure(s)).status = 413
        BY <3>1 DEF ReadFailure, Pipe, ErrorOf, PipelineStatus
      <4> QED
        BY <4>1, <4>2 DEF BlamedIn, IsServerError, ClientBlamed
    <3>2. CASE ~HasBody(s)
      <4>1. /\ Pipe(ReadFailure(s)).code = "request_body_already_consumed"
            /\ Pipe(ReadFailure(s)).status = 500
        BY <3>2 DEF ReadFailure, Pipe, ErrorOf, PipelineStatus
      <4> QED
        BY <2>4, <4>1 DEF BlamedIn, IsServerError, HandlersBlamed
    <3> QED
      BY <3>1, <3>2
  <2>6. err # NoError => BlamedIn(err, u)
    BY <2>5
  <2> HIDE DEF err
  <2> QED
    BY <2>1, <2>4, <2>6, UnchangedHeadOK DEF CallOK
<1> QED
  BY <1>1, <1>2, <1>3, <1>4 DEF ScopeEffects

(* What one call may do, whatever the parameters of the handler. *)
LEMMA EffectsAreOK ==
  ASSUME GivenOK, NEW sig, NEW h, NEW s, NEW t, TrailOK(s, t), HeadOK(h, t),
         NEW o \in Effects(sig, h, s, t)
  PROVE  CallOK(o, h, s, t)
<1>1. CASE o \in CtxEffects(h, s, t)
  BY <1>1, CtxEffectsAreOK
<1>2. CASE o \in ScopeEffects(h, s, t)
  BY <1>2, ScopeEffectsAreOK
<1>3. CASE o \in MutEffects(h, s, t, {p.type : p \in {q \in Range(Plans(sig)) : Source(q) = "Mut"}})
  <2>1. {p.type : p \in {q \in Range(Plans(sig)) : Source(q) = "Mut"}} \subseteq DataTypes
    BY SourcesOfParams
  <2> QED
    BY <1>3, <2>1, MutEffectsAreOK
<1> QED
  BY <1>1, <1>2, <1>3 DEF Effects

(* A call after a call. *)
LEMMA CallsCompose ==
  ASSUME NEW o, NEW h, NEW s, NEW t, CallOK(o, h, s, t),
         NEW q, CallOK(q, o.head, o.scope, o.trail)
  PROVE  CallOK(q, h, s, t)
<1>1. KeepsOK(s, t, o.scope, o.trail) /\ KeepsOK(o.scope, o.trail, q.scope, q.trail)
  BY DEF CallOK
<1>2. KeepsOK(s, t, q.scope, q.trail)
  BY <1>1 DEF KeepsOK
<1> QED
  BY <1>2 DEF CallOK

(* However a handler returns, an error of its own is noted. *)
LEMMA ReturnsAreOK ==
  ASSUME NEW p, NEW h, NEW s, NEW t, CallOK(p, h, s, t), NEW o \in Returns(p)
  PROVE  CallOK(o, h, s, t)
<1>1. CASE o = p
  BY <1>1
<1>2. CASE o = Outcome(p.head, p.scope, p.trail, NoError)
  <2>1. o.head = p.head /\ o.scope = p.scope /\ o.trail = p.trail /\ o.error = NoError
    BY <1>2 DEF Outcome
  <2> QED
    BY <2>1 DEF CallOK
<1>3. ASSUME NEW e \in HandlerErrors,
             o = Outcome(p.head, p.scope, Append(p.trail, <<"handler", "returned", e.code>>), e)
      PROVE  CallOK(o, h, s, t)
  <2> DEFINE w == <<"handler", "returned", e.code>>
             u == Append(p.trail, w)
  <2>1. o.head = p.head /\ o.scope = p.scope /\ o.trail = u /\ o.error = e
    BY <1>3 DEF Outcome
  <2>2. /\ TrailOK(p.scope, p.trail) /\ HeadOK(p.head, p.trail)
        /\ IsList(p.trail) /\ p.scope \in Scopes
    BY DEF CallOK, KeepsOK, TrailOK
  <2>3. w[1] = "handler"
    OBVIOUS
  <2>4. WroteIn(u, w)
    <3> HIDE DEF w
    <3> QED
      BY <2>2, WroteOneMore, Zenon
  <2>5. BlamedIn(e, u)
    <3> HIDE DEF u
    <3> QED
      BY <2>4 DEF BlamedIn
  <2> HIDE DEF w
  <2>6. EntryTrue(p.scope, w) /\ \A x \in DataTypes : p.scope.local[x] = After(w, x, p.scope.local[x])
    BY <2>3 DEF EntryTrue, After
  <2>7. KeepsOK(p.scope, p.trail, p.scope, u)
    BY <2>2, <2>3, <2>6, EffectKeeps
  <2> HIDE DEF u
  <2>8. CallOK(o, p.head, p.scope, p.trail)
    BY <2>1, <2>2, <2>5, <2>7, UnchangedHeadOK DEF CallOK
  <2> QED
    BY <2>8, CallsCompose
<1> QED
  BY <1>1, <1>2, <1>3 DEF Returns

(* What user code may do at all: call after call, and a return. *)
LEMMA UserCodeIsOK ==
  ASSUME GivenOK, NEW sig, NEW h, NEW s, NEW t, TrailOK(s, t), HeadOK(h, t),
         NEW o \in UserCode(sig, h, s, t)
  PROVE  CallOK(o, h, s, t)
<1> DEFINE first == Outcome(h, s, t, NoError)
           More(p) == Effects(sig, p.head, p.scope, p.trail)
<1>1. PICK All :
        /\ first \in All
        /\ \A p \in UserCode(sig, h, s, t) : \E q \in All : p \in Returns(q)
        /\ \A Good : first \in Good
                     /\ (\A p \in Good \intersect All : More(p) \intersect All \subseteq Good)
                     => All \subseteq Good
  BY CallsOneByOne
<1> DEFINE Good == {p \in All : CallOK(p, h, s, t)}
<1>2. first \in Good
  <2>1. first.head = h /\ first.scope = s /\ first.trail = t /\ first.error = NoError
    BY DEF Outcome
  <2> HIDE DEF first
  <2> QED
    BY <1>1, <2>1, NothingKeeps DEF CallOK
<1>3. \A p \in Good \intersect All : More(p) \intersect All \subseteq Good
  <2>1. SUFFICES ASSUME NEW p, CallOK(p, h, s, t), NEW q \in More(p)
                 PROVE  CallOK(q, h, s, t)
    OBVIOUS
  <2>2. TrailOK(p.scope, p.trail) /\ HeadOK(p.head, p.trail)
    BY <2>1 DEF CallOK, KeepsOK
  <2>3. CallOK(q, p.head, p.scope, p.trail)
    BY <2>1, <2>2, EffectsAreOK
  <2> QED
    BY <2>1, <2>3, CallsCompose
<1> HIDE DEF More, first
<1>4. All \subseteq Good
  <2> HIDE DEF Good
  <2> QED
    BY <1>1, <1>2, <1>3
<1>5. PICK p \in All : o \in Returns(p)
  BY <1>1
<1>6. CallOK(p, h, s, t)
  BY <1>4
<1> QED
  BY <1>5, <1>6, ReturnsAreOK

(* A handler with its parameters. *)
LEMMA CallIsOK ==
  ASSUME GivenOK, NEW sig \in Signatures, TrailOK(scope, trail), HeadOK(head, trail),
         NEW o \in Call(sig)
  PROVE  CallOK(o, head, scope, trail)
<1> DEFINE b == Bind(sig, scope)
           t == trail \o b.seen
<1>1. BoundOK(b, scope, trail)
  BY BindIsOK
<1>2. /\ TrailOK(b.scope, t)
      /\ b.scope.body = scope.body /\ b.scope.raw = scope.raw
      /\ WroteIn(t, HookTakes) <=> WroteIn(trail, HookTakes)
      /\ WroteIn(t, RouteTakes) <=> WroteIn(trail, RouteTakes)
      /\ \A f : HeadWroteIn(t, f) <=> HeadWroteIn(trail, f)
      /\ b.missing => MissesIn(t)
  BY <1>1 DEF BoundOK
<1>3. \/ b.missing /\ o = Outcome(head, b.scope, t, Pipe("missing_from_scope"))
      \/ o \in UserCode(sig, head, b.scope, t)
  BY DEF Call
<1> HIDE DEF b, t
<1>4. KeepsOK(scope, trail, b.scope, t)
  BY <1>2 DEF KeepsOK, BodyOK, TakesAreNoted
<1>5. HeadOK(head, t) /\ (QueryOK(head, trail) => QueryOK(head, t))
  BY <1>4, UnchangedHeadOK
<1>6. CASE b.missing /\ o = Outcome(head, b.scope, t, Pipe("missing_from_scope"))
  <2>1. o.head = head /\ o.scope = b.scope /\ o.trail = t /\ o.error = Pipe("missing_from_scope")
    BY <1>6 DEF Outcome
  <2>2. Pipe("missing_from_scope").code = "missing_from_scope"
        /\ Pipe("missing_from_scope").status = 500
    BY DEF Pipe, ErrorOf, PipelineStatus
  <2>3. BlamedIn(Pipe("missing_from_scope"), t)
    BY <1>2, <1>6, <2>2 DEF BlamedIn, IsServerError, HandlersBlamed
  <2> QED
    BY <1>4, <1>5, <2>1, <2>3 DEF CallOK
<1>7. CASE o \in UserCode(sig, head, b.scope, t)
  <2>1. CallOK(o, head, b.scope, t)
    BY <1>2, <1>5, <1>7, UserCodeIsOK
  <2>2. KeepsOK(scope, trail, o.scope, o.trail)
    BY <1>4, <2>1 DEF CallOK, KeepsOK
  <2> QED
    BY <1>5, <2>1, <2>2 DEF CallOK
<1> QED
  BY <1>3, <1>6, <1>7

-----------------------------------------------------------------------------
(***************************************************************************)
(* The steps of a pipeline, one by one.                                    *)
(***************************************************************************)

(* A program still has a step of this kind. *)
PendIn(p, op) == \E s \in Range(p) : s.op = op

(* What pends after a step pended before it. *)
LEMMA PendingAfter ==
  ASSUME NEW p, p # <<>>, InOrder(p, 1, 7)
  PROVE  /\ \A o : o # p[1].op => (PendIn(Tail(p), o) <=> PendIn(p, o))
         /\ p[1].op # "hook" => ~PendIn(Tail(p), p[1].op)
         /\ PendIn(p, p[1].op)
         /\ \A o : PendIn(p, o) => Rank(p[1].op) <= Rank(o)
<1>1. /\ p[1] \in Range(p) /\ p[1].op \in Ops
      /\ Range(p) = {p[1]} \union Range(Tail(p))
      /\ \A s \in Range(Tail(p)) : s.op \in Ops /\ Ordered(p[1], s)
  BY TailInOrder
<1>2. \A o \in Ops : Rank(o) \in Nat
  BY DEF Rank, Ops, Final
<1>3. \A o : o # p[1].op => (PendIn(Tail(p), o) <=> PendIn(p, o))
  BY <1>1 DEF PendIn
<1>4. p[1].op # "hook" => ~PendIn(Tail(p), p[1].op)
  BY <1>1, <1>2 DEF PendIn, Ordered
<1>5. PendIn(p, p[1].op)
  BY <1>1 DEF PendIn
<1>6. ASSUME NEW o, PendIn(p, o) PROVE Rank(p[1].op) <= Rank(o)
  <2>1. PICK s \in Range(p) : s.op = o
    BY <1>6 DEF PendIn
  <2>2. CASE s = p[1]
    BY <1>1, <1>2, <2>1, <2>2
  <2>3. CASE s # p[1]
    <3>1. s.op \in Ops /\ Ordered(p[1], s)
      BY <1>1, <2>3
    <3>2. Rank(s.op) \in Nat /\ Rank(p[1].op) \in Nat
      BY <1>1, <1>2, <3>1
    <3> QED
      BY <2>1, <3>1, <3>2 DEF Ordered
  <2> QED
    BY <2>2, <2>3
<1> QED
  BY <1>3, <1>4, <1>5, <1>6

(* What never changes may be read before or after a step. *)
LEMMA GivenStays ==
  ASSUME given' = given, route' = route
  PROVE  /\ TrailOK(scope, trail)' <=> TrailOK(scope', trail')
         /\ HeadOK(head, trail)' <=> HeadOK(head', trail')
         /\ BodyOK(scope, trail, bytes)' <=> BodyOK(scope', trail', bytes')
         /\ TakesAreNoted(scope, trail)' <=> TakesAreNoted(scope', trail')
         /\ QueryOK(head, trail)' <=> QueryOK(head', trail')
         /\ BlamedIn(error, trail)' <=> BlamedIn(error', trail')
         /\ \A f : HookWrote(f)' <=> HeadWroteIn(trail', f)
         /\ \A w : Wrote(w)' <=> WroteIn(trail', w)
         /\ \A o : Pend(o)' <=> PendIn(todo', o)
         /\ \A o : Asks(o)' <=> Asks(o)
         /\ DataInBody' <=> DataInBody
         /\ DataInQuery' <=> DataInQuery
         /\ TypeIsChecked' <=> TypeIsChecked
         /\ Request' = Request
<1>1. Request' = Request
  BY DEF Request
<1>2. TrailOK(scope, trail)' <=> TrailOK(scope', trail')
  BY <1>1 DEF TrailOK, Scopes, EntryOK
<1>3. HeadOK(head, trail)' <=> HeadOK(head', trail')
  BY <1>1 DEF HeadOK
<1>4. \A o : Asks(o)' <=> Asks(o)
  BY DEF Asks
<1>5. BodyOK(scope, trail, bytes)' <=> BodyOK(scope', trail', bytes')
  BY <1>1, <1>4 DEF BodyOK
<1>6. TakesAreNoted(scope, trail)' <=> TakesAreNoted(scope', trail')
  BY DEF TakesAreNoted
<1>7. QueryOK(head, trail)' <=> QueryOK(head', trail')
  BY <1>1 DEF QueryOK
<1>8. BlamedIn(error, trail)' <=> BlamedIn(error', trail')
  BY <1>1 DEF BlamedIn, HandlersBlamed, ClientBlamed
<1>9. /\ \A f : HookWrote(f)' <=> HeadWroteIn(trail', f)
      /\ \A w : Wrote(w)' <=> WroteIn(trail', w)
      /\ \A o : Pend(o)' <=> PendIn(todo', o)
  BY DEF HookWrote, HeadWroteIn, Wrote, WroteIn, Pend, PendIn
<1>10. (DataInBody' <=> DataInBody) /\ (DataInQuery' <=> DataInQuery)
       /\ (TypeIsChecked' <=> TypeIsChecked)
  BY DEF DataInBody, DataInQuery, TypeIsChecked
<1> QED
  BY <1>1, <1>2, <1>3, <1>4, <1>5, <1>6, <1>7, <1>8, <1>9, <1>10

(* All that a route declares is in its program. *)
LEMMA DeclaredIsAsked ==
  ASSUME RouteTyped(route)
  PROVE  /\ route.pathType # <<>>  => Asks("path")
         /\ route.queryType # <<>> => Asks("query")
         /\ DataInBody    => Asks("parse")
         /\ DataInQuery   => Asks("parse_query")
         /\ TypeIsChecked => Asks("guard")
<1>1. ASSUME NEW t, route.pathType = <<t>> PROVE Asks("path")
  <2>1. Step("path", t) \in AllSteps(route)
    BY <1>1, RangeOfOne DEF AllSteps
  <2> QED
    BY <2>1 DEF Asks, Step
<1>2. ASSUME NEW t, route.queryType = <<t>> PROVE Asks("query")
  <2>1. Step("query", t) \in AllSteps(route)
    BY <1>2, RangeOfOne DEF AllSteps
  <2> QED
    BY <2>1 DEF Asks, Step
<1>3. ASSUME DataInBody PROVE Asks("parse")
  <2>1. ~FormInQuery(route) /\ ~Streams(route) /\ route.data.kind \in {"json", "form"}
    BY <1>3 DEF DataInBody, FormInQuery, Streams
  <2>2. Step("parse", route.data.kind) \in AllSteps(route)
    BY <2>1 DEF AllSteps, BodySteps
  <2> QED
    BY <2>2 DEF Asks, Step
<1>4. ASSUME DataInQuery PROVE Asks("parse_query")
  <2>1. Step("parse_query", "form") \in AllSteps(route)
    BY <1>4 DEF DataInQuery, FormInQuery, AllSteps, BodySteps
  <2> QED
    BY <2>1 DEF Asks, Step
<1>5. ASSUME TypeIsChecked PROVE Asks("guard")
  <2>1. ~FormInQuery(route) /\ ~Streams(route) /\ route.data.kind \in {"form", "multipart"}
    BY <1>5 DEF TypeIsChecked, FormInQuery, Streams
  <2>2. Step("guard", route.data.kind) \in AllSteps(route)
    BY <2>1 DEF AllSteps, BodySteps
  <2> QED
    BY <2>2 DEF Asks, Step
<1> QED
  BY <1>1, <1>2, <1>3, <1>4, <1>5 DEF RouteTyped

(* The step that is done kept the promise that was waiting for it. *)
LEMMA AdvanceKeeps ==
  ASSUME LifeOK, TodoOK, stage = "running", PromisesOK, PhasesOK, Advance,
         Now.op = "path"  => Valid(Request.path),
         Now.op = "query" => Valid(Request.query),
         Now.op = "parse" => Valid(Request.body.bytes),
         Now.op = "parse_query" =>
           Valid(head.query) /\ (HeadWroteIn(trail', "query") \/ Valid(Request.query)),
         Now.op = "guard" =>
           head.ctype = Now.arg /\ (HeadWroteIn(trail', "ctype") \/ Request.ctype = Now.arg),
         Now.op \in {"hook", "map_query"} \/ head' = head,
         Now.op = "read_body" => bytes' # "none",
         Now.op # "read_body" => bytes' = bytes
                                 /\ (WroteIn(trail', RouteTakes) => WroteIn(trail, RouteTakes)),
         Now.op # "hook" => (HeadWroteIn(trail', "query") => HeadWroteIn(trail, "query"))
                            \/ Now.op = "map_query",
         Now.op = "map_query" \/ (QueryOK(head, trail) => QueryOK(head', trail')),
         \A f : HeadWroteIn(trail, f) => HeadWroteIn(trail', f)
  PROVE  PromisesOK' /\ PhasesOK'
<1>1. given' = given /\ route' = route /\ todo' = Tail(todo)
  BY DEF Advance
<1>2. todo # <<>> /\ InOrder(todo, 1, 7) /\ Now.op \in Ops
  BY AtAStep DEF TodoOK
<1>3. /\ \A o : o # Now.op => (PendIn(todo', o) <=> PendIn(todo, o))
      /\ Now.op # "hook" => ~PendIn(todo', Now.op)
      /\ \A o : PendIn(todo, o) => Rank(Now.op) <= Rank(o)
  BY <1>1, <1>2, PendingAfter DEF Now
<1>4. \A o : Pend(o) <=> PendIn(todo, o)
  BY DEF Pend, PendIn
<1>5. \A f : HookWrote(f) <=> HeadWroteIn(trail, f)
  BY DEF HookWrote, HeadWroteIn
<1>6. /\ \A f : HookWrote(f)' <=> HeadWroteIn(trail', f)
      /\ \A w : Wrote(w)' <=> WroteIn(trail', w)
      /\ \A o : Pend(o)' <=> PendIn(todo', o)
      /\ \A o : Asks(o)' <=> Asks(o)
      /\ DataInBody' <=> DataInBody
      /\ DataInQuery' <=> DataInQuery
      /\ TypeIsChecked' <=> TypeIsChecked
      /\ Request' = Request
  BY <1>1, GivenStays
<1>7. \A w : Wrote(w) <=> WroteIn(trail, w)
  BY DEF Wrote, WroteIn
<1>8. /\ RouteTyped(route)
      /\ Now.op = "guard" => Now.arg = route.data.kind
      /\ Now.op = "map_query" => route.map # <<>> /\ FormInQuery(route)
  BY AtAStep, StepsAreTyped
<1>9. PromisesOK'
  <2>1. route'.pathType # <<>> => Pend("path")' \/ Valid(Request'.path)
    BY <1>1, <1>3, <1>4, <1>6 DEF PromisesOK
  <2>2. route'.queryType # <<>> => Pend("query")' \/ Valid(Request'.query)
    BY <1>1, <1>3, <1>4, <1>6 DEF PromisesOK
  <2>3. DataInBody' => Pend("parse")' \/ Valid(Request'.body.bytes)
    BY <1>1, <1>3, <1>4, <1>6 DEF PromisesOK
  <2>4. DataInQuery' => Pend("parse_query")' \/ HookWrote("query")' \/ Valid(Request'.query)
    BY <1>3, <1>4, <1>5, <1>6 DEF PromisesOK
  <2>5. TypeIsChecked' =>
          Pend("guard")' \/ HookWrote("ctype")' \/ Request'.ctype = route'.data.kind
    BY <1>1, <1>3, <1>4, <1>5, <1>6, <1>8 DEF PromisesOK
  <2> QED
    BY <2>1, <2>2, <2>3, <2>4, <2>5 DEF PromisesOK, Valid
<1>10. PhasesOK'
  <2>1. ASSUME PendIn(todo', "query") PROVE PendIn(todo, "query") /\ Now.op = "path"
    <3>1. Now.op # "query" /\ PendIn(todo, "query")
      BY <1>3, <2>1
    <3>2. Rank(Now.op) <= 2
      BY <1>3, <3>1, RankOf
    <3> QED
      BY <1>2, <3>1, <3>2 DEF Ops, Final, Rank
  <2>2. ASSUME PendIn(todo', "parse_query")
        PROVE PendIn(todo, "parse_query") /\ Now.op # "map_query"
    <3>1. PendIn(todo, "parse_query")
      BY <1>3, <2>2
    <3>2. Rank(Now.op) <= 4
      BY <1>3, <3>1, RankOf
    <3> QED
      BY <3>1, <3>2, RankOf
  <2>3. Pend("query")' => ~HookWrote("query")'
    BY <1>4, <1>5, <1>6, <2>1 DEF PhasesOK
  <2>4. Pend("query")' \/ Pend("parse_query")' =>
          HookWrote("query")' \/ head'.query = Request'.query
    BY <1>4, <1>5, <1>6, <2>1, <2>2 DEF PhasesOK, QueryOK
  <2>5. Pend("read_body")' => bytes' = "none"
    BY <1>3, <1>4, <1>6 DEF PhasesOK
  <2>6. Asks("read_body")' => Pend("read_body")' \/ bytes' # "none"
    BY <1>3, <1>4, <1>6 DEF PhasesOK
  <2>7. Wrote(RouteTakes)' => bytes' # "none"
    BY <1>6, <1>7 DEF PhasesOK
  <2>8. ASSUME NEW op \in {"guard", "parse_query"}, PendIn(todo', "hook"), Asks(op)
        PROVE  PendIn(todo', op)
    <3>1. PendIn(todo, "hook")
      <4>1. PendIn(todo, Now.op)
        BY <1>2, PendingAfter DEF Now
      <4> QED
        BY <1>3, <2>8, <4>1
    <3>2. Rank(Now.op) <= Rank("hook")
      BY <1>3, <3>1
    <3>3. Now.op # op
      BY <3>2, RankOf
    <3> QED
      BY <1>3, <1>4, <2>8, <3>1, <3>3 DEF PhasesOK
  <2>9. ASSUME Now.op = "hook", NEW op \in {"guard", "parse_query"}, Asks(op)
        PROVE  PendIn(todo', op)
    <3>1. PendIn(todo, "hook")
      BY <1>2, <2>9, PendingAfter DEF Now
    <3> QED
      BY <1>3, <1>4, <2>9, <3>1 DEF PhasesOK
  <2>10. DataInQuery' => \/ Pend("parse_query")' \/ Valid(head'.query)
                         \/ route'.map # <<>> /\ ~Pend("map_query")'
    <3>1. SUFFICES ASSUME DataInQuery
                   PROVE  \/ PendIn(todo', "parse_query") \/ Valid(head'.query)
                          \/ route.map # <<>> /\ ~PendIn(todo', "map_query")
      BY <1>1, <1>6
    <3>2. CASE Now.op = "hook"
      BY <1>8, <2>9, <3>1, <3>2, DeclaredIsAsked
    <3>3. CASE Now.op = "map_query"
      BY <1>3, <1>8, <3>3
    <3>4. CASE Now.op \notin {"hook", "map_query"}
      BY <1>3, <1>4, <3>1, <3>4 DEF PhasesOK
    <3> QED
      BY <3>2, <3>3, <3>4
  <2>11. TypeIsChecked' => Pend("guard")' \/ head'.ctype = route'.data.kind
    <3>1. SUFFICES ASSUME TypeIsChecked
                   PROVE  PendIn(todo', "guard") \/ head'.ctype = route.data.kind
      BY <1>1, <1>6
    <3>2. CASE Now.op = "hook"
      BY <1>8, <2>9, <3>1, <3>2, DeclaredIsAsked
    <3>3. CASE Now.op = "map_query"
      BY <1>8, <3>1, <3>3 DEF TypeIsChecked, FormInQuery
    <3>4. CASE Now.op \notin {"hook", "map_query"}
      BY <1>3, <1>4, <1>8, <3>1, <3>4 DEF PhasesOK
    <3> QED
      BY <3>2, <3>3, <3>4
  <2> QED
    BY <1>6, <2>3, <2>4, <2>5, <2>6, <2>7, <2>8, <2>10, <2>11 DEF PhasesOK, Valid
<1> QED
  BY <1>9, <1>10

(* What is known of the head, the scope, the trail and the bytes. *)
WorkOK(h, s, t, b) == TrailOK(s, t) /\ HeadOK(h, t) /\ BodyOK(s, t, b) /\ TakesAreNoted(s, t)

(* What is forwarded is what the route declares, and its head fits it. *)
Delivered ==
  /\ Replaced => head.clen = "none" /\ (DataInBody => head.ctype = route.data.kind)
  /\ ~Replaced => /\ HookWrote("clen")  \/ head.clen = Request.clen
                  /\ HookWrote("ctype") \/ head.ctype = Request.ctype
                  /\ ~Wrote(HookTakes) /\ sent \in {"stream", Request.body.bytes}
  /\ sent = "stream" => bytes = "none"
  /\ route.pathType # <<>>  => Valid(Request.path)
  /\ route.queryType # <<>> => Valid(Request.query)
  /\ DataInBody => Valid(Request.body.bytes)
  /\ DataInQuery   => HookWrote("query") \/ Valid(Request.query)
  /\ TypeIsChecked => HookWrote("ctype") \/ Request.ctype = route.data.kind
  /\ route.map = <<>> => DataIsAsDeclared

OutcomeOK ==
  /\ (sent # "none") = (stage = "forwarded")
  /\ stage = "forwarded" => Delivered
  /\ stage = "failed" => BlamedIn(error, trail)

(* A pipeline between two of its steps. *)
Running == LifeOK /\ TodoOK /\ DataOK /\ OutcomeOK /\ stage = "running"

(* The work of a running pipeline is in order. *)
LEMMA RunningWork ==
  ASSUME Running
  PROVE  /\ WorkOK(head, scope, trail, bytes) /\ PromisesOK /\ PhasesOK /\ GivenOK
         /\ scope \in Scopes /\ IsList(trail) /\ head \in Heads
BY DEF Running, DataOK, WorkOK, LifeOK, TrailOK, HeadOK

(* A pipeline goes on with its work in order. *)
LEMMA Going ==
  ASSUME Running, Advance, WorkOK(head', scope', trail', bytes'), PromisesOK' /\ PhasesOK'
  PROVE  DataOK' /\ OutcomeOK'
<1>1. /\ given' = given /\ route' = route /\ stage' = "running" /\ stage = "running"
      /\ sent' = sent /\ sent = "none"
  BY DEF Advance, Running, OutcomeOK
<1>2. /\ TrailOK(scope, trail)' /\ HeadOK(head, trail)' /\ BodyOK(scope, trail, bytes)'
      /\ TakesAreNoted(scope, trail)'
  BY <1>1, GivenStays DEF WorkOK
<1> QED
  BY <1>1, <1>2 DEF DataOK, OutcomeOK

(* A pipeline may fail with an error that blames the right side. *)
LEMMA Failing ==
  ASSUME Running, NEW e, Fail(e), WorkOK(head', scope', trail', bytes'), BlamedIn(e, trail')
  PROVE  DataOK' /\ OutcomeOK'
<1>1. /\ given' = given /\ route' = route /\ stage' = "failed" /\ stage = "running"
      /\ sent' = sent /\ sent = "none" /\ error' = e
  BY DEF Fail, Running, OutcomeOK
<1>2. /\ TrailOK(scope, trail)' /\ HeadOK(head, trail)' /\ BodyOK(scope, trail, bytes)'
      /\ TakesAreNoted(scope, trail)' /\ BlamedIn(error, trail)'
  BY <1>1, GivenStays DEF WorkOK
<1> QED
  BY <1>1, <1>2 DEF DataOK, OutcomeOK

(* A pipeline may forward what its route declares. *)
LEMMA Ending ==
  ASSUME Running, NEW b, Forward(b), b # "none", TrailOK(scope', trail'),
         BodyOK(scope', trail', bytes'), Delivered'
  PROVE  DataOK' /\ OutcomeOK'
<1>1. /\ given' = given /\ route' = route /\ stage' = "forwarded" /\ sent' = b
  BY DEF Forward
<1>2. TrailOK(scope, trail)' /\ BodyOK(scope, trail, bytes)'
  BY <1>1, GivenStays
<1> QED
  BY <1>1, <1>2 DEF DataOK, OutcomeOK

(* A step that leaves the work alone. *)
LEMMA Checking ==
  ASSUME Running, NEW op, NEW ok, NEW e, Check(op, ok, e), op \in Ops,
         ok /\ op = "path"  => Valid(Request.path),
         ok /\ op = "query" => Valid(Request.query),
         ok /\ op = "parse" => Valid(Request.body.bytes),
         ok /\ op = "parse_query" =>
           Valid(head.query) /\ (HeadWroteIn(trail, "query") \/ Valid(Request.query)),
         ok /\ op = "guard" =>
           head.ctype = Now.arg /\ (HeadWroteIn(trail, "ctype") \/ Request.ctype = Now.arg),
         op # "read_body",
         ~ok => BlamedIn(e, trail)
  PROVE  DataOK' /\ OutcomeOK'
<1>1. Now.op = op /\ head' = head /\ scope' = scope /\ trail' = trail /\ bytes' = bytes
  BY DEF Check, Reaches, work
<1>2. WorkOK(head', scope', trail', bytes')
  BY <1>1, RunningWork
<1>3. CASE ok
  <2>1. Advance
    BY <1>3 DEF Check
  <2>2. PromisesOK' /\ PhasesOK'
    BY <1>1, <1>3, <2>1, RunningWork, AdvanceKeeps DEF Running
  <2> QED
    BY <1>2, <2>1, <2>2, Going
<1>4. CASE ~ok
  BY <1>1, <1>2, <1>4, Failing DEF Check
<1> QED
  BY <1>3, <1>4

(* The status of the errors that a pipeline returns. *)
LEMMA ErrorsByCode ==
  /\ \A c : Core(c).code = c /\ Pipe(c).code = c
  /\ Core("invalid_path_parameters").status = 400
  /\ \A c \in {"invalid_json_body", "invalid_query", "invalid_form_query",
               "invalid_form_body"} : Pipe(c).status = 400
  /\ Pipe("request_body_too_large").status = 413
  /\ \A c \in {"expected_form_urlencoded", "expected_multipart_form_data"} : Pipe(c).status = 415
  /\ \A c \in {"missing_from_scope", "request_body_already_consumed",
               "serialize_mapped_json_failed", "serialize_mapped_query_failed",
               "rebuild_uri_failed", "serialize_mapped_form_failed"} : Pipe(c).status = 500
BY DEF Core, Pipe, ErrorOf, CoreStatus, PipelineStatus

(* A content type is checked before anything is read of the body. *)
LEMMA CheckContentTypeIsOK ==
  ASSUME Running, CheckContentType
  PROVE  DataOK' /\ OutcomeOK'
<1> DEFINE code == IF Now.arg = "form" THEN "expected_form_urlencoded"
                                       ELSE "expected_multipart_form_data"
<1>1. Check("guard", head.ctype = Now.arg, Pipe(code)) /\ Now.op = "guard"
  BY DEF CheckContentType, Check, Reaches
<1>2. Now.arg \in {"form", "multipart"}
  BY <1>1, AtAStep, StepsAreTyped DEF Running
<1>3. HeadWroteIn(trail, "ctype") \/ head.ctype = Request.ctype
  BY RunningWork DEF WorkOK, HeadOK
<1>4. head.ctype # Now.arg => BlamedIn(Pipe(code), trail)
  <2>1. ASSUME head.ctype # Now.arg PROVE ClientBlamed(code, trail)
    BY <1>2, <1>3, <2>1 DEF ClientBlamed
  <2>2. Pipe(code).status = 415 /\ Pipe(code).code = code
    BY ErrorsByCode
  <2> HIDE DEF code
  <2> QED
    BY <2>1, <2>2 DEF BlamedIn, IsServerError
<1>5. "guard" \in Ops
  BY DEF Ops
<1> HIDE DEF code
<1> DEFINE ok == head.ctype = Now.arg
           e == Pipe(code)
<1>6. Check("guard", ok, e) /\ (~ok => BlamedIn(e, trail))
      /\ (ok => /\ head.ctype = Now.arg
                /\ HeadWroteIn(trail, "ctype") \/ Request.ctype = Now.arg)
  BY <1>1, <1>3, <1>4
<1> HIDE DEF ok, e
<1> QED
  BY <1>5, <1>6, Checking

(* A query that does not parse is the client's fault. *)
LEMMA ParseQueryDataIsOK ==
  ASSUME Running, ParseQueryData
  PROVE  DataOK' /\ OutcomeOK'
<1> DEFINE ok == Valid(head.query)
           e == Pipe("invalid_form_query")
<1>1. Check("parse_query", ok, e) /\ Now.op = "parse_query"
  BY DEF ParseQueryData, Check, Reaches
<1>2. HeadWroteIn(trail, "query") \/ head.query = Request.query
  <2>1. Pend("parse_query")
    BY <1>1, AtAStep DEF Pend, Running
  <2> QED
    BY <2>1, RunningWork DEF PhasesOK, HookWrote, HeadWroteIn
<1>3. ~ok => BlamedIn(e, trail)
  <2>1. e.status = 400 /\ e.code = "invalid_form_query"
    BY ErrorsByCode
  <2> HIDE DEF e
  <2> QED
    BY <1>2, <2>1 DEF BlamedIn, IsServerError, ClientBlamed
<1>4. "parse_query" \in Ops
  BY DEF Ops
<1>5. ok => Valid(head.query) /\ (HeadWroteIn(trail, "query") \/ Valid(Request.query))
  BY <1>2
<1> HIDE DEF ok, e
<1> QED
  BY <1>1, <1>3, <1>4, <1>5, Checking

(* The bytes a parser or a map is given are those of the request. *)
LEMMA BytesAreRead ==
  ASSUME Running, Now.op \in {"parse", "raw", "keep_bytes", "map_body"}
  PROVE  bytes = Request.body.bytes /\ bytes # "none" /\ scope.raw = bytes
<1>1. Asks("read_body")
  <2>1. /\ RouteTyped(route) /\ Now \in AllSteps(route)
        /\ ~FormInQuery(route) /\ ~Streams(route)
    BY AtAStep, StepsAreTyped DEF Running
  <2>2. Step("read_body", "none") \in AllSteps(route)
    BY <2>1 DEF AllSteps, BodySteps
  <2> QED
    BY <2>2 DEF Asks, Step
<1>2. ~Pend("read_body")
  <2>1. SUFFICES ASSUME PendIn(todo, "read_body") PROVE FALSE
    BY DEF Pend, PendIn
  <2>2. Rank(Now.op) <= 5
    <3>1. todo # <<>> /\ InOrder(todo, 1, 7)
      BY DEF Running, TodoOK
    <3> QED
      BY <2>1, <3>1, PendingAfter, RankOf DEF Now
  <2>3. Rank(Now.op) \in {6, 7}
    BY RankOf DEF Final
  <2> QED
    BY <2>2, <2>3
<1>3. bytes # "none"
  BY <1>1, <1>2, RunningWork DEF PhasesOK
<1> QED
  BY <1>3, RunningWork DEF WorkOK, BodyOK

(* So is a body that does not parse. *)
LEMMA ParseBodyIsOK ==
  ASSUME Running, ParseBody
  PROVE  DataOK' /\ OutcomeOK'
<1> DEFINE code == IF Now.arg = "json" THEN "invalid_json_body" ELSE "invalid_form_body"
           ok == Valid(bytes)
           e == Pipe(code)
<1>1. Check("parse", ok, e) /\ Now.op = "parse"
  BY DEF ParseBody, Check, Reaches
<1>2. ok => Valid(Request.body.bytes)
  BY <1>1, BytesAreRead
<1>3. ~ok => BlamedIn(e, trail)
  <2>1. e.status = 400 /\ e.code = code /\ code \in {"invalid_json_body", "invalid_form_body"}
    BY ErrorsByCode
  <2>2. ~ok => ~Valid(Request.body.bytes)
    BY <1>1, BytesAreRead
  <2> HIDE DEF e, code, ok
  <2> QED
    BY <2>1, <2>2 DEF BlamedIn, IsServerError, ClientBlamed
<1>4. "parse" \in Ops
  BY DEF Ops
<1> HIDE DEF ok, e
<1> QED
  BY <1>1, <1>2, <1>3, <1>4, Checking

(* A map that wants the raw bytes finds those of the request. *)
LEMMA CloneRawIsOK ==
  ASSUME Running, CloneRaw
  PROVE  DataOK' /\ OutcomeOK'
<1> DEFINE ok == RawBody(scope) # "none"
           e == Pipe("missing_from_scope")
<1>1. Check("raw", ok, e) /\ Now.op = "raw"
  BY DEF CloneRaw, Check, Reaches
<1>2. ok
  BY <1>1, BytesAreRead DEF RawBody
<1>3. "raw" \in Ops
  BY DEF Ops
<1> HIDE DEF ok, e
<1> QED
  BY <1>1, <1>2, <1>3, Checking

(* What is written under a type keeps the work in order. *)
LEMMA KeepsWork ==
  ASSUME Running, NEW h, NEW s, NEW t, NEW u, NEW b, NEW after, KeepsOK(s, t, after, u),
         HeadOK(h, u), BodyOK(s, t, b), TakesAreNoted(s, t)
  PROVE  WorkOK(h, after, u, b)
BY DEF KeepsOK, WorkOK

(* An extracted value is written under its type. *)
LEMMA ExtractIsOK ==
  ASSUME Running, NEW op \in {"path", "query"}, NEW ok, NEW e, Extract(op, ok, e),
         ok /\ op = "path"  => Valid(Request.path),
         ok /\ op = "query" => Valid(Request.query),
         ~ok => BlamedIn(e, trail)
  PROVE  DataOK' /\ OutcomeOK'
<1>1. Now.op = op /\ head' = head /\ bytes' = bytes
  BY DEF Extract, Reaches, work
<1>2. CASE ok /\ Advance /\ scope' = Insert(scope, Now.arg, op)
           /\ trail' = Append(trail, <<"set", Now.arg, op>>)
  <2> DEFINE w == <<"set", Now.arg, op>>
  <2>1. Now.arg \in DataTypes
    BY <1>1, AtAStep, StepsAreTyped DEF Running
  <2>2. op \in Origins
    BY DEF Origins
  <2>3. /\ scope' \in Scopes /\ scope'.local = [scope.local EXCEPT ![Now.arg] = op]
        /\ scope'.body = scope.body /\ scope'.raw = scope.raw
    BY <1>2, <2>1, <2>2, RunningWork, ScopesAreClosed
  <2>4. w[1] = "set" /\ w[2] = Now.arg /\ w[3] = op
    OBVIOUS
  <2>5. trail' = Append(trail, w)
    BY <1>2
  <2> HIDE DEF w
  <2>6. EntryTrue(scope, w)
    BY <2>4 DEF EntryTrue
  <2>7. \A y \in DataTypes : scope'.local[y] = After(w, y, scope.local[y])
    <3>1. scope.local \in [DataTypes -> Origins \union {Absent}]
      BY RunningWork DEF Scopes
    <3> QED
      BY <2>1, <2>3, <2>4, <3>1 DEF After
  <2>8. KeepsOK(scope, trail, scope', trail')
    BY <2>3, <2>4, <2>5, <2>6, <2>7, RunningWork, EffectKeeps DEF WorkOK
  <2>9. HeadOK(head', trail') /\ (QueryOK(head, trail) => QueryOK(head', trail'))
    BY <1>1, <2>8, RunningWork, UnchangedHeadOK DEF WorkOK
  <2>10. WorkOK(head', scope', trail', bytes')
    BY <1>1, <2>8, <2>9, RunningWork, KeepsWork DEF WorkOK
  <2>11. \A f : HeadWroteIn(trail', f) => HeadWroteIn(trail, f)
    <3>1. \A f : HeadWroteIn(Append(trail, w), f) <=>
                   HeadWroteIn(trail, f) \/ (w[1] = "head" /\ w[2] = f)
      BY RunningWork, WroteOneMore, Zenon
    <3> QED
      BY <2>4, <2>5, <3>1
  <2>12. \A f : HeadWroteIn(trail, f) => HeadWroteIn(trail', f)
    BY <2>8 DEF KeepsOK
  <2>13. WroteIn(trail', RouteTakes) => WroteIn(trail, RouteTakes)
    BY <2>8 DEF KeepsOK
  <2>14. PromisesOK' /\ PhasesOK'
    BY <1>1, <1>2, <2>9, <2>11, <2>12, <2>13, RunningWork, AdvanceKeeps DEF Running
  <2> QED
    BY <1>2, <2>10, <2>14, Going
<1>3. CASE ~ok /\ Fail(e) /\ UNCHANGED work
  <2>1. WorkOK(head', scope', trail', bytes') /\ trail' = trail
    BY <1>3, RunningWork DEF work
  <2> QED
    BY <1>3, <2>1, Failing
<1> QED
  BY <1>2, <1>3 DEF Extract

(* Extraction of the parameters of the path. *)
LEMMA ExtractPathIsOK ==
  ASSUME Running, ExtractPath
  PROVE  DataOK' /\ OutcomeOK'
<1> DEFINE ok == Request.path = "good"
           e == Core("invalid_path_parameters")
<1>1. Extract("path", ok, e)
  BY DEF ExtractPath
<1>2. ok <=> Valid(Request.path)
  BY RunningWork DEF GivenOK, ClientRequests, Request, Valid
<1>3. ~ok => BlamedIn(e, trail)
  <2>1. e.status = 400 /\ e.code = "invalid_path_parameters"
    BY ErrorsByCode
  <2> HIDE DEF e, ok
  <2> QED
    BY <1>2, <2>1 DEF BlamedIn, IsServerError, ClientBlamed
<1> HIDE DEF ok, e
<1> QED
  BY <1>1, <1>2, <1>3, ExtractIsOK

(* Extraction of the query. *)
LEMMA ExtractQueryIsOK ==
  ASSUME Running, ExtractQuery
  PROVE  DataOK' /\ OutcomeOK'
<1> DEFINE ok == Valid(head.query)
           e == Pipe("invalid_query")
<1>1. Extract("query", ok, e)
  BY DEF ExtractQuery
<1>2. head.query = Request.query
  <2>1. Pend("query")
    BY <1>1, AtAStep DEF Pend, Running, Extract, Reaches
  <2> QED
    BY <2>1, RunningWork DEF PhasesOK
<1>3. ~ok => BlamedIn(e, trail)
  <2>1. e.status = 400 /\ e.code = "invalid_query"
    BY ErrorsByCode
  <2> HIDE DEF e
  <2> QED
    BY <1>2, <2>1 DEF BlamedIn, IsServerError, ClientBlamed
<1>4. ok => Valid(Request.query)
  BY <1>2
<1> HIDE DEF ok, e
<1> QED
  BY <1>1, <1>3, <1>4, ExtractIsOK

(* A handler that returns leaves the work in order. *)
LEMMA HandlerLeaves ==
  ASSUME Running, NEW sig \in Signatures, NEW o \in Call(sig)
  PROVE  /\ WorkOK(o.head, o.scope, o.trail, bytes)
         /\ WroteIn(o.trail, RouteTakes) <=> WroteIn(trail, RouteTakes)
         /\ \A f : HeadWroteIn(trail, f) => HeadWroteIn(o.trail, f)
         /\ QueryOK(head, trail) => QueryOK(o.head, o.trail)
         /\ o.error # NoError => BlamedIn(o.error, o.trail)
<1>1. CallOK(o, head, scope, trail)
  BY RunningWork, CallIsOK DEF WorkOK
<1>2. KeepsOK(scope, trail, o.scope, o.trail) /\ HeadOK(o.head, o.trail)
  BY <1>1 DEF CallOK
<1>3. WorkOK(o.head, o.scope, o.trail, bytes)
  BY <1>2, RunningWork, KeepsWork DEF WorkOK
<1> QED
  BY <1>1, <1>2, <1>3 DEF CallOK, KeepsOK

(* A hook runs. *)
LEMMA RunHookIsOK ==
  ASSUME Running, RunHook
  PROVE  DataOK' /\ OutcomeOK'
<1>1. Now.op = "hook" /\ Now.arg \in Signatures /\ bytes' = bytes
  BY AtAStep, StepsAreTyped DEF RunHook, Reaches, Running
<1>2. PICK o \in Call(Now.arg) :
        /\ scope' = o.scope /\ trail' = o.trail /\ head' = o.head
        /\ IF o.error = NoError THEN Advance ELSE Fail(o.error)
  BY DEF RunHook
<1>3. /\ WorkOK(head', scope', trail', bytes')
      /\ WroteIn(trail', RouteTakes) <=> WroteIn(trail, RouteTakes)
      /\ \A f : HeadWroteIn(trail, f) => HeadWroteIn(trail', f)
      /\ QueryOK(head, trail) => QueryOK(head', trail')
      /\ o.error # NoError => BlamedIn(o.error, trail')
  BY <1>1, <1>2, HandlerLeaves
<1>4. CASE o.error = NoError
  <2>1. Advance
    BY <1>2, <1>4
  <2>2. PromisesOK' /\ PhasesOK'
    BY <1>1, <1>3, <2>1, RunningWork, AdvanceKeeps DEF Running
  <2> QED
    BY <1>3, <2>1, <2>2, Going
<1>5. CASE o.error # NoError
  BY <1>2, <1>3, <1>5, Failing
<1> QED
  BY <1>4, <1>5

(* A map's output is serialized, or made the query, only if it has one. *)
LEMMA OutputIsBlamed ==
  ASSUME Running, Now.op \in {"map_body", "map_query"}, NEW kind,
         NEW payload \in Payloads(Now.arg, kind), payload # "keep", NEW t,
         NEW code \in {"serialize_mapped_json_failed", "serialize_mapped_form_failed",
                       "rebuild_uri_failed"}
  PROVE  BlamedIn(Pipe(code), t)
<1>1. route.map = <<Now.arg>>
  BY AtAStep, StepsAreTyped DEF Running
<1>2. Now.arg.output # "unit"
  BY DEF Payloads
<1>3. 1 \in DOMAIN route.map /\ route.map[1].output # "unit"
  BY <1>1, <1>2, ListOfOne, SeqFacts
<1>4. Pipe(code).code = code /\ Pipe(code).status = 500
  BY ErrorsByCode
<1>5. HandlersBlamed(code, t)
  BY <1>3 DEF HandlersBlamed
<1> QED
  BY <1>4, <1>5 DEF BlamedIn, IsServerError

(* A map runs on the query and its output replaces it. *)
LEMMA RunMapOnQueryIsOK ==
  ASSUME Running, RunMapOnQuery
  PROVE  DataOK' /\ OutcomeOK'
<1>1. Now.op = "map_query" /\ Now.arg \in Signatures /\ bytes' = bytes
  BY AtAStep, StepsAreTyped DEF RunMapOnQuery, Reaches, Running
<1>2. PICK o \in Call(Now.arg), payload \in Payloads(Now.arg, "query") :
        /\ scope' = o.scope /\ trail' = o.trail
        /\ IF o.error # NoError THEN Fail(o.error) /\ head' = o.head
           ELSE IF payload = "unserializable"
           THEN Fail(Pipe("serialize_mapped_form_failed")) /\ head' = o.head
           ELSE IF payload # "keep" /\ ~QueryFits(o.head, payload)
           THEN Fail(Pipe("rebuild_uri_failed")) /\ head' = o.head
           ELSE /\ head' = IF payload = "keep" THEN o.head
                                               ELSE SetEncodedQuery(o.head, payload)
                /\ Advance
  BY DEF RunMapOnQuery
<1>3. /\ WorkOK(o.head, scope', trail', bytes')
      /\ WroteIn(trail', RouteTakes) <=> WroteIn(trail, RouteTakes)
      /\ \A f : HeadWroteIn(trail, f) => HeadWroteIn(trail', f)
      /\ o.error # NoError => BlamedIn(o.error, trail')
  BY <1>1, <1>2, HandlerLeaves
<1>4. CASE o.error # NoError
  BY <1>2, <1>3, <1>4, Failing
<1>5. CASE o.error = NoError /\ payload = "unserializable"
  <2>1. BlamedIn(Pipe("serialize_mapped_form_failed"), trail')
    BY <1>1, <1>2, <1>5, OutputIsBlamed
  <2> QED
    BY <1>2, <1>3, <1>5, <2>1, Failing
<1>6. CASE o.error = NoError /\ payload \notin {"unserializable", "keep"}
           /\ ~QueryFits(o.head, payload)
  <2>1. BlamedIn(Pipe("rebuild_uri_failed"), trail')
    BY <1>1, <1>2, <1>6, OutputIsBlamed
  <2> QED
    BY <1>2, <1>3, <1>6, <2>1, Failing
<1>7. CASE o.error = NoError /\ payload # "unserializable"
           /\ (payload = "keep" \/ QueryFits(o.head, payload))
  <2>1. Advance /\ head' = IF payload = "keep" THEN o.head ELSE SetEncodedQuery(o.head, payload)
    BY <1>2, <1>7
  <2>2. payload \in {"keep", "mapped", "empty"}
    BY <1>2, <1>7 DEF Payloads, QueryFits
  <2>3. HeadOK(head', trail')
    <3>1. HeadOK(o.head, trail') /\ o.head \in Heads
      BY <1>3 DEF WorkOK, HeadOK
    <3>2. head' \in Heads /\ head'.ctype = o.head.ctype /\ head'.clen = o.head.clen
      BY <2>1, <2>2, <3>1 DEF SetEncodedQuery, Heads
    <3> QED
      BY <3>1, <3>2 DEF HeadOK
  <2>4. WorkOK(head', scope', trail', bytes')
    BY <1>3, <2>3 DEF WorkOK
  <2>5. PromisesOK' /\ PhasesOK'
    BY <1>1, <1>3, <2>1, RunningWork, AdvanceKeeps DEF Running
  <2> QED
    BY <2>1, <2>4, <2>5, Going
<1> QED
  BY <1>4, <1>5, <1>6, <1>7

(* The body is read, within the limit, unless a hook took it. *)
LEMMA ReadBodyIsOK ==
  ASSUME Running, ReadBody
  PROVE  DataOK' /\ OutcomeOK'
<1> DEFINE e == RouteTakes
           can == CanRead(scope, Request.body)
<1>1. /\ Now.op = "read_body" /\ head' = head /\ scope' = AfterRead(scope, Request.body)
      /\ trail' = Append(trail, e)
      /\ IF can THEN Advance /\ bytes' = Request.body.bytes
                ELSE Fail(Pipe(ReadFailure(scope))) /\ UNCHANGED bytes
  BY DEF ReadBody, Reaches, RouteTakes
<1>2. bytes = "none" /\ Asks("read_body")
  <2>1. Pend("read_body") /\ Asks("read_body")
    BY <1>1, AtAStep DEF Pend, Asks, Running
  <2> QED
    BY <2>1, RunningWork DEF PhasesOK
<1>3. /\ scope' \in Scopes /\ scope'.local = scope.local /\ scope'.body = "taken"
      /\ scope'.raw = IF can THEN Request.body.bytes ELSE scope.raw
  BY <1>1, RunningWork, ScopesAreClosed
<1>4. e[1] = "body" /\ e # HookTakes
  BY DEF RouteTakes, HookTakes
<1> HIDE DEF e
<1>5. /\ \A w : WroteIn(trail', w) <=> WroteIn(trail, w) \/ e = w
      /\ \A f : HeadWroteIn(trail', f) <=> HeadWroteIn(trail, f)
  <2>1. \A w : WroteIn(Append(trail, e), w) <=> WroteIn(trail, w) \/ e = w
    BY RunningWork, WroteOneMore, Zenon
  <2>2. \A f : HeadWroteIn(Append(trail, e), f) <=>
                 HeadWroteIn(trail, f) \/ (e[1] = "head" /\ e[2] = f)
    BY RunningWork, WroteOneMore, Zenon
  <2> QED
    BY <1>1, <1>4, <2>1, <2>2
<1>6. TrailOK(scope', trail')
  <2>1. EntryTrue(scope, e)
    BY <1>4 DEF EntryTrue
  <2>2. \A x \in DataTypes : scope'.local[x] = After(e, x, scope.local[x])
    BY <1>3, <1>4 DEF After
  <2> QED
    BY <1>1, <1>3, <2>1, <2>2, RunningWork, TrailGrows DEF WorkOK
<1>7. HeadOK(head', trail') /\ (QueryOK(head, trail) => QueryOK(head', trail'))
  BY <1>1, <1>5, RunningWork DEF WorkOK, HeadOK, QueryOK
<1>8. WroteIn(trail', RouteTakes)
  BY <1>5 DEF e
<1>9. TakesAreNoted(scope', trail')
  BY <1>8 DEF TakesAreNoted
<1>10. HasBody(scope) => ~WroteIn(trail, HookTakes)
  BY RunningWork DEF WorkOK, BodyOK, HasBody
<1>11. Request.body.len \in Nat /\ BodyLimit \in Nat /\ Request.body.bytes \in {"good", "bad"}
  BY ScopeAssumption, RunningWork DEF GivenOK, ClientRequests, Request
<1>12. CASE can
  <2>1. Advance /\ bytes' = Request.body.bytes /\ bytes' # "none"
    BY <1>1, <1>11, <1>12
  <2>2. HasBody(scope) /\ Request.body.len <= BodyLimit /\ ~Request.body.broken
    BY <1>12 DEF CanRead
  <2>3. BodyOK(scope', trail', bytes')
    BY <1>2, <1>3, <1>4, <1>5, <1>10, <1>12, <2>1, <2>2 DEF BodyOK
  <2>4. WorkOK(head', scope', trail', bytes')
    BY <1>6, <1>7, <1>9, <2>3 DEF WorkOK
  <2>5. PromisesOK' /\ PhasesOK'
    BY <1>1, <1>5, <1>7, <2>1, RunningWork, AdvanceKeeps DEF Running
  <2> QED
    BY <2>1, <2>4, <2>5, Going
<1>13. CASE ~can
  <2>1. Fail(Pipe(ReadFailure(scope))) /\ bytes' = bytes
    BY <1>1, <1>13
  <2>2. BodyOK(scope', trail', bytes')
    BY <1>2, <1>3, <2>1 DEF BodyOK
  <2>3. WorkOK(head', scope', trail', bytes')
    BY <1>6, <1>7, <1>9, <2>2 DEF WorkOK
  <2>4. BlamedIn(Pipe(ReadFailure(scope)), trail')
    <3>1. CASE HasBody(scope)
      <4>1. Request.body.len > BodyLimit \/ Request.body.broken
        BY <1>11, <1>13, <3>1 DEF CanRead
      <4>2. ReadFailure(scope) = "request_body_too_large"
        BY <3>1 DEF ReadFailure
      <4> QED
        BY <4>1, <4>2, ErrorsByCode DEF BlamedIn, IsServerError, ClientBlamed
    <3>2. CASE ~HasBody(scope)
      <4>1. ReadFailure(scope) = "request_body_already_consumed"
        BY <3>2 DEF ReadFailure
      <4>2. WroteIn(trail, HookTakes)
        <5>1. scope.body = "taken"
          BY <3>2, RunningWork DEF HasBody, Scopes
        <5>2. ~WroteIn(trail, RouteTakes)
          BY <1>2, RunningWork DEF PhasesOK, Wrote, WroteIn
        <5> QED
          BY <5>1, <5>2, RunningWork DEF WorkOK, TakesAreNoted
      <4> QED
        BY <1>5, <4>1, <4>2, ErrorsByCode DEF BlamedIn, IsServerError, HandlersBlamed
    <3> QED
      BY <3>1, <3>2
  <2> QED
    BY <2>1, <2>3, <2>4, Failing
<1> QED
  BY <1>12, <1>13

(* At its last step a pipeline has checked all that its route declares. *)
LEMMA AllPromisesKept ==
  ASSUME Running, Now.op \in Final
  PROVE  /\ route.pathType # <<>>  => Valid(Request.path)
         /\ route.queryType # <<>> => Valid(Request.query)
         /\ DataInBody => Valid(Request.body.bytes)
         /\ DataInQuery   => HeadWroteIn(trail, "query") \/ Valid(Request.query)
         /\ TypeIsChecked => HeadWroteIn(trail, "ctype") \/ Request.ctype = route.data.kind
         /\ route.map = <<>> => DataIsAsDeclared
<1>1. ASSUME NEW o \in {"path", "query", "parse", "guard", "parse_query"} PROVE ~Pend(o)
  <2>1. SUFFICES ASSUME PendIn(todo, o) PROVE FALSE
    BY DEF Pend, PendIn
  <2>2. todo # <<>> /\ InOrder(todo, 1, 7)
    BY DEF Running, TodoOK
  <2>3. Rank(Now.op) <= Rank(o)
    BY <2>1, <2>2, PendingAfter DEF Now
  <2>4. Rank(Now.op) = 7 /\ Rank(o) \in {1, 2, 4, 6}
    BY RankOf
  <2> QED
    BY <2>3, <2>4
<1>2. PromisesOK /\ PhasesOK
  BY RunningWork
<1> QED
  BY <1>1, <1>2 DEF PromisesOK, PhasesOK, DataIsAsDeclared, HookWrote, HeadWroteIn

(* So has it when it runs a map. *)
LEMMA MapsGetWhatIsDeclared ==
  ASSUME Running, Now.op \in {"map_query", "map_body"}
  PROVE  DataIsAsDeclared /\ (DataInBody => Valid(bytes))
<1>1. todo # <<>> /\ InOrder(todo, 1, 7) /\ \A o : Pend(o) <=> PendIn(todo, o)
  BY DEF Running, TodoOK, Pend, PendIn
<1>2. ~Pend("parse_query") /\ ~Pend("guard")
  <2>1. Rank(Now.op) \in {5, 7}
    BY RankOf DEF Final
  <2>2. ASSUME NEW o \in {"parse_query", "guard"} PROVE ~Pend(o)
    <3>1. Rank(o) = 4
      BY RankOf
    <3> QED
      BY <1>1, <2>1, <3>1, PendingAfter DEF Now
  <2> QED
    BY <2>2
<1>3. PhasesOK /\ PendIn(todo, Now.op)
  BY <1>1, RunningWork, PendingAfter DEF Now
<1>4. Now.op = "map_body" => ~DataInQuery /\ bytes = Request.body.bytes
                             /\ (DataInBody => Valid(Request.body.bytes))
  <2>1. Now.op = "map_body" => ~FormInQuery(route)
    BY AtAStep, StepsAreTyped DEF Running
  <2> QED
    BY <2>1, BytesAreRead, AllPromisesKept DEF Final, FormInQuery, DataInQuery
<1>5. Now.op = "map_query" => ~DataInBody
  <2>1. Now.op = "map_query" => FormInQuery(route)
    BY AtAStep, StepsAreTyped DEF Running
  <2> QED
    BY <2>1 DEF FormInQuery, DataInBody
<1> QED
  BY <1>1, <1>2, <1>3, <1>4, <1>5 DEF PhasesOK, DataIsAsDeclared

(* A body that is not buffered is taken out of the scope and forwarded. *)
LEMMA TakeBodyIsOK ==
  ASSUME Running, TakeBody
  PROVE  DataOK' /\ OutcomeOK'
<1>1. /\ Now.op = "take_body" /\ scope' = AfterTakeBody(scope)
      /\ head' = head /\ bytes' = bytes /\ trail' = trail
      /\ IF HasBody(scope) THEN Forward("stream") ELSE Fail(Pipe("request_body_already_consumed"))
  BY DEF TakeBody, Reaches
<1>2. ~Asks("read_body")
  <2>1. Now \in AllSteps(route)
    BY AtAStep DEF Running
  <2>2. FormInQuery(route) \/ Streams(route)
    BY <1>1, <2>1 DEF AllSteps, BodySteps, Step
  <2> QED
    BY <2>2 DEF Asks, AllSteps, BodySteps, Step
<1>3. bytes = "none" /\ ~WroteIn(trail, RouteTakes)
  BY <1>2, RunningWork DEF WorkOK, BodyOK
<1>4. /\ scope' \in Scopes /\ scope'.local = scope.local /\ scope'.body = "taken"
      /\ scope'.raw = scope.raw
  BY <1>1, RunningWork, ScopesAreClosed
<1>5. TrailOK(scope', trail')
  BY <1>1, <1>4, RunningWork DEF WorkOK, TrailOK
<1>6. BodyOK(scope', trail', bytes')
  BY <1>1, <1>3, <1>4, RunningWork DEF WorkOK, BodyOK
<1>7. CASE HasBody(scope)
  <2>1. Forward("stream")
    BY <1>1, <1>7
  <2>2. given' = given /\ route' = route /\ sent' = "stream"
    BY <2>1 DEF Forward
  <2>3. ~WroteIn(trail, HookTakes)
    BY <1>7, RunningWork DEF WorkOK, BodyOK, HasBody
  <2>4. HeadOK(head, trail)
    BY RunningWork DEF WorkOK
  <2>5. Now.op \in Final
    BY <1>1 DEF Final
  <2>6. Delivered'
    BY <1>1, <1>3, <2>2, <2>3, <2>4, <2>5, AllPromisesKept
    DEF Delivered, Replaced, HeadOK, Request, HookWrote, HeadWroteIn, Wrote, WroteIn,
        DataInBody, DataInQuery, TypeIsChecked, DataIsAsDeclared, Valid
  <2> QED
    BY <1>5, <1>6, <2>1, <2>6, Ending
<1>8. CASE ~HasBody(scope)
  <2>1. scope.body = "taken"
    BY <1>8, RunningWork DEF HasBody, Scopes
  <2>2. WroteIn(trail, HookTakes)
    BY <1>3, <2>1, RunningWork DEF WorkOK, TakesAreNoted
  <2>3. BlamedIn(Pipe("request_body_already_consumed"), trail')
    BY <1>1, <2>2, ErrorsByCode DEF BlamedIn, IsServerError, HandlersBlamed
  <2>4. WorkOK(head', scope', trail', bytes')
    BY <1>1, <1>5, <1>6, <2>2, RunningWork DEF WorkOK, TakesAreNoted
  <2> QED
    BY <1>1, <1>8, <2>3, <2>4, Failing
<1> QED
  BY <1>7, <1>8

(* The bytes of a request are none of the marks that stand for no bytes. *)
LEMMA BytesAreNoMarks ==
  ASSUME GivenOK
  PROVE  Request.body.bytes \in {"good", "bad"}
BY DEF GivenOK, ClientRequests, Request

(* A body that is buffered and not mapped is forwarded as it is. *)
LEMMA KeepBytesIsOK ==
  ASSUME Running, KeepBytes
  PROVE  DataOK' /\ OutcomeOK'
<1>1. /\ Now.op = "keep_bytes" /\ Forward(bytes) /\ scope' = scope
      /\ head' = head /\ bytes' = bytes /\ trail' = trail
  BY DEF KeepBytes, Reaches, work
<1>2. bytes = Request.body.bytes /\ bytes # "none" /\ Request.body.bytes \in {"good", "bad"}
  BY <1>1, BytesAreRead, RunningWork, BytesAreNoMarks
<1>3. TrailOK(scope', trail') /\ BodyOK(scope', trail', bytes')
  BY <1>1, RunningWork DEF WorkOK
<1>4. given' = given /\ route' = route /\ sent' = bytes
  BY <1>1 DEF Forward
<1>5. HeadOK(head, trail) /\ ~WroteIn(trail, HookTakes)
  BY <1>2, RunningWork DEF WorkOK, BodyOK
<1>6. Now.op \in Final
  BY <1>1 DEF Final
<1>7. Delivered'
  BY <1>1, <1>2, <1>4, <1>5, <1>6, AllPromisesKept
  DEF Delivered, Replaced, HeadOK, Request, HookWrote, HeadWroteIn, Wrote, WroteIn,
      DataInBody, DataInQuery, TypeIsChecked, DataIsAsDeclared, Valid
<1> QED
  BY <1>1, <1>2, <1>3, <1>7, Ending

(* A map runs on the body and its output replaces it. *)
LEMMA RunMapOnBodyIsOK ==
  ASSUME Running, RunMapOnBody
  PROVE  DataOK' /\ OutcomeOK'
<1> DEFINE kind == route.data.kind
<1>1. Now.op = "map_body" /\ Now.arg \in Signatures /\ bytes' = bytes
  BY AtAStep, StepsAreTyped DEF RunMapOnBody, Reaches, Running
<1>2. PICK o \in Call(Now.arg), payload \in Payloads(Now.arg, kind) :
        /\ scope' = o.scope /\ trail' = o.trail
        /\ IF o.error # NoError THEN Fail(o.error) /\ head' = o.head
           ELSE IF payload = "unserializable"
           THEN /\ head' = o.head
                /\ Fail(Pipe(IF kind = "json" THEN "serialize_mapped_json_failed"
                                              ELSE "serialize_mapped_form_failed"))
           ELSE /\ head' = Described(o.head, kind, payload)
                /\ Forward(IF payload = "keep" THEN bytes ELSE payload)
  BY DEF RunMapOnBody
<1>3. /\ WorkOK(o.head, scope', trail', bytes')
      /\ \A f : HeadWroteIn(trail, f) => HeadWroteIn(trail', f)
      /\ o.error # NoError => BlamedIn(o.error, trail')
  BY <1>1, <1>2, HandlerLeaves
<1>4. CASE o.error # NoError
  BY <1>2, <1>3, <1>4, Failing
<1>5. CASE o.error = NoError /\ payload = "unserializable"
  <2> DEFINE code == IF kind = "json" THEN "serialize_mapped_json_failed"
                                      ELSE "serialize_mapped_form_failed"
  <2>1. Fail(Pipe(code)) /\ head' = o.head
    BY <1>2, <1>5
  <2>2. code \in {"serialize_mapped_json_failed", "serialize_mapped_form_failed"}
    OBVIOUS
  <2> HIDE DEF code, kind
  <2>3. BlamedIn(Pipe(code), trail')
    BY <1>1, <1>2, <1>5, <2>2, OutputIsBlamed
  <2> QED
    BY <1>3, <2>1, <2>3, Failing
<1>6. CASE o.error = NoError /\ payload # "unserializable"
  <2> DEFINE body == IF payload = "keep" THEN bytes ELSE payload
  <2>1. head' = Described(o.head, kind, payload) /\ Forward(body)
    BY <1>2, <1>6
  <2>2. payload \in {"keep", "mapped", "empty"}
    <3>1. kind # "query"
      BY AtAStep, StepsAreTyped DEF Running, RouteTyped
    <3> QED
      BY <1>2, <1>6, <3>1 DEF Payloads
  <2>3. /\ bytes = Request.body.bytes /\ bytes # "none"
        /\ Request.body.bytes \in {"good", "bad"}
    BY <1>1, BytesAreRead, RunningWork, BytesAreNoMarks
  <2>4. given' = given /\ route' = route /\ sent' = body
    BY <2>1 DEF Forward
  <2>5. /\ HeadOK(o.head, trail') /\ o.head \in Heads
        /\ BodyOK(scope', trail', bytes') /\ TrailOK(scope', trail')
        /\ ~WroteIn(trail', HookTakes)
    BY <1>1, <1>3, <2>3 DEF WorkOK, HeadOK, BodyOK
  <2>6. Now.op \in Final
    BY <1>1 DEF Final
  <2>7. /\ route.pathType # <<>>  => Valid(Request.path)
        /\ route.queryType # <<>> => Valid(Request.query)
        /\ DataInBody => Valid(Request.body.bytes)
        /\ DataInQuery   => HeadWroteIn(trail', "query") \/ Valid(Request.query)
        /\ TypeIsChecked => HeadWroteIn(trail', "ctype") \/ Request.ctype = route.data.kind
        /\ route.map # <<>>
    <3>1. route.map # <<>>
      BY <1>1, AtAStep, StepsAreTyped DEF Running
    <3> QED
      BY <1>3, <2>6, <3>1, AllPromisesKept
  <2>8. CASE payload = "keep"
    <3>1. head' = o.head /\ sent' = bytes
      BY <2>1, <2>4, <2>8 DEF Described
    <3>2. Delivered'
      BY <2>3, <2>4, <2>5, <2>7, <3>1
      DEF Delivered, Replaced, HeadOK, Request, HookWrote, HeadWroteIn, Wrote, WroteIn,
          DataInBody, DataInQuery, TypeIsChecked, DataIsAsDeclared, Valid
    <3> QED
      BY <2>1, <2>3, <2>5, <2>8, <3>2, Ending
  <2>9. CASE payload # "keep"
    <3>1. sent' = payload /\ payload \in {"mapped", "empty"}
      BY <2>2, <2>4, <2>9
    <3>2. /\ head'.clen = "none"
          /\ kind \in {"json", "form"} => head'.ctype = kind
      BY <2>1, <2>5, <2>9 DEF Described, Heads
    <3>3. Delivered'
      BY <2>4, <2>7, <3>1, <3>2
      DEF Delivered, Replaced, Request, HookWrote, HeadWroteIn, DataInBody, DataInQuery,
          TypeIsChecked, DataIsAsDeclared, Valid
    <3>4. body # "none"
      BY <2>9, <3>1
    <3> HIDE DEF body
    <3> QED
      BY <2>1, <2>5, <3>3, <3>4, Ending
  <2> QED
    BY <2>8, <2>9
<1> QED
  BY <1>4, <1>5, <1>6

(* A client may go away before its body is read. *)
LEMMA DisconnectIsOK ==
  ASSUME Running, Disconnect
  PROVE  DataOK' /\ OutcomeOK'
<1>1. /\ given' = given /\ route' = route /\ sent' = sent /\ stage' = "gone" /\ sent = "none"
      /\ head' = head /\ scope' = scope /\ trail' = trail /\ bytes' = bytes
  BY DEF Disconnect, work, Running, OutcomeOK
<1>2. WorkOK(head', scope', trail', bytes')
  BY <1>1, RunningWork
<1>3. /\ TrailOK(scope, trail)' /\ HeadOK(head, trail)' /\ BodyOK(scope, trail, bytes)'
      /\ TakesAreNoted(scope, trail)'
  BY <1>1, <1>2, GivenStays DEF WorkOK
<1> QED
  BY <1>1, <1>3 DEF DataOK, OutcomeOK

-----------------------------------------------------------------------------
(***************************************************************************)
(* The invariant, and what follows from it.                                *)
(***************************************************************************)

(* Before anything ran, nothing was written. *)
LEMMA FreshWork ==
  ASSUME GivenOK, FreshOK
  PROVE  WorkOK(head, scope, trail, bytes)
<1>1. /\ trail = <<>> /\ bytes = "none" /\ scope = NewScope(given.shared)
      /\ head = [path |-> "client", query |-> Request.query,
                 ctype |-> Request.ctype, clen |-> Request.clen]
  BY DEF FreshOK
<1>2. IsList(trail) /\ Len(trail) = 0 /\ DOMAIN trail = {}
  BY <1>1, EmptyList
<1>3. /\ Request.query \in {"none", "good", "bad"} /\ Request.clen \in {"none", "client"}
      /\ Request.ctype \in ContentTypes
      /\ given.shared \in [DataTypes -> Origins \union {Absent}]
  BY DEF GivenOK, ClientRequests, Request
<1>4. TrailOK(scope, trail)
  <2>1. scope \in Scopes /\ \A x \in DataTypes : scope.local[x] = Absent
    BY <1>1, <1>3 DEF NewScope, Scopes
  <2>2. \A x : LastIn(trail, Len(trail) + 1, x) = Absent
    <3>1. \A x : Touched(trail, Len(trail) + 1, x) = {}
      BY <1>2 DEF Touched
    <3> QED
      BY <3>1 DEF LastIn
  <2> QED
    BY <1>2, <2>1, <2>2 DEF TrailOK
<1>5. HeadOK(head, trail)
  BY <1>1, <1>3 DEF HeadOK, Heads
<1>6. BodyOK(scope, trail, bytes) /\ TakesAreNoted(scope, trail)
  BY <1>1, <1>2 DEF BodyOK, TakesAreNoted, WroteIn, NewScope
<1> QED
  BY <1>4, <1>5, <1>6 DEF WorkOK

(* No work is done at first. *)
LEMMA InitData ==
  ASSUME Init
  PROVE  DataOK /\ OutcomeOK
<1>1. GivenOK /\ FreshOK /\ stage = "declared" /\ sent = "none"
  BY InitLife DEF Init, LifeOK, FreshOK, Request
<1> QED
  BY <1>1, FreshWork DEF DataOK, OutcomeOK, WorkOK

(* Nor by the macros. *)
LEMMA ExpandIsOK ==
  ASSUME LifeOK, DataOK, OutcomeOK, Expand
  PROVE  DataOK' /\ OutcomeOK'
<1>1. /\ given' = given /\ sent' = sent /\ stage = "declared" /\ stage' \in {"rejected", "ready"}
      /\ head' = head /\ scope' = scope /\ trail' = trail /\ bytes' = bytes
  BY DEF Expand, work
<1>2. GivenOK /\ FreshOK
  BY <1>1 DEF LifeOK, DataOK
<1>3. WorkOK(head, scope, trail, bytes) /\ bytes = "none" /\ ~WroteIn(trail, RouteTakes)
  BY <1>2, FreshWork, EmptyList DEF FreshOK, WroteIn
<1>4. Request' = Request
  BY <1>1 DEF Request
<1>5. TrailOK(scope, trail)'
  BY <1>1, <1>3, <1>4 DEF WorkOK, TrailOK, Scopes, EntryOK
<1>6. HeadOK(head, trail)' /\ TakesAreNoted(scope, trail)'
  BY <1>1, <1>3, <1>4 DEF WorkOK, HeadOK, TakesAreNoted
<1>7. BodyOK(scope, trail, bytes)'
  BY <1>1, <1>3, <1>4 DEF WorkOK, BodyOK
<1>8. FreshOK'
  BY <1>1, <1>2, <1>4 DEF FreshOK
<1> QED
  BY <1>1, <1>5, <1>6, <1>7, <1>8 DEF DataOK, OutcomeOK

(* A pipeline starts with all its work to do. *)
LEMMA StartIsOK ==
  ASSUME LifeOK, DataOK, OutcomeOK, Start
  PROVE  DataOK' /\ OutcomeOK'
<1>1. /\ stage = "ready" /\ given' = given /\ route' = route
      /\ head' = head /\ scope' = scope /\ trail' = trail /\ bytes' = bytes
      /\ todo' = PipelineSteps(route)
      /\ stage' = IF HasPipeline(route) THEN "running" ELSE "forwarded"
      /\ sent' = IF HasPipeline(route) THEN sent ELSE "stream"
      /\ sent = "none"
  BY DEF Start, work, OutcomeOK
<1>2. GivenOK /\ FreshOK /\ WorkOK(head, scope, trail, bytes) /\ RouteTyped(route)
  BY <1>1, FreshWork, LiveRouteIsTyped DEF LifeOK, DataOK, Live
<1>3. /\ TrailOK(scope, trail)' /\ HeadOK(head, trail)' /\ BodyOK(scope, trail, bytes)'
      /\ TakesAreNoted(scope, trail)'
  BY <1>1, <1>2, GivenStays DEF WorkOK
<1>4. /\ trail = <<>> /\ bytes = "none"
      /\ \A f : ~HeadWroteIn(trail, f)
      /\ \A w : ~WroteIn(trail, w)
      /\ head.query = Request.query /\ head.ctype = Request.ctype /\ head.clen = Request.clen
  BY <1>2, EmptyList DEF FreshOK, HeadWroteIn, WroteIn
<1>5. /\ \A f : HookWrote(f)' <=> HeadWroteIn(trail', f)
      /\ \A w : Wrote(w)' <=> WroteIn(trail', w)
      /\ \A o : Pend(o)' <=> PendIn(todo', o)
      /\ \A o : Asks(o)' <=> Asks(o)
      /\ DataInBody' <=> DataInBody
      /\ DataInQuery' <=> DataInQuery
      /\ TypeIsChecked' <=> TypeIsChecked
      /\ Request' = Request
  BY <1>1, GivenStays
<1>6. CASE HasPipeline(route)
  <2>1. Range(todo') = AllSteps(route)
    BY <1>1, <1>2, <1>6, ProgramInOrder
  <2>2. \A o : Pend(o)' <=> Asks(o)
    BY <1>5, <2>1 DEF PendIn, Asks
  <2>3. PromisesOK'
    BY <1>1, <1>2, <1>5, <2>2, DeclaredIsAsked DEF PromisesOK
  <2>4. PhasesOK'
    BY <1>1, <1>2, <1>4, <1>5, <2>2, DeclaredIsAsked DEF PhasesOK
  <2> QED
    BY <1>1, <1>3, <1>6, <2>3, <2>4 DEF DataOK, OutcomeOK
<1>7. CASE ~HasPipeline(route)
  <2>1. /\ route.pathType = <<>> /\ route.queryType = <<>>
        /\ route.data.kind \notin {"json", "form"} /\ route.map = <<>>
    BY <1>7 DEF HasPipeline
  <2>2. Delivered'
    BY <1>1, <1>4, <1>5, <1>7, <2>1
    DEF Delivered, Replaced, DataInBody, DataInQuery, TypeIsChecked, DataIsAsDeclared
  <2> QED
    BY <1>1, <1>3, <1>7, <2>2 DEF DataOK, OutcomeOK
<1> QED
  BY <1>6, <1>7

(* Every step keeps what is known of the data. *)
LEMMA NextData ==
  ASSUME LifeOK, TodoOK, DataOK, OutcomeOK, [Next]_vars
  PROVE  DataOK' /\ OutcomeOK'
<1>1. CASE UNCHANGED vars
  <2>1. /\ given' = given /\ route' = route /\ stage' = stage /\ sent' = sent
        /\ todo' = todo /\ error' = error
        /\ head' = head /\ scope' = scope /\ trail' = trail /\ bytes' = bytes
    BY <1>1 DEF vars
  <2>2. /\ TrailOK(scope, trail)' <=> TrailOK(scope, trail)
        /\ HeadOK(head, trail)' <=> HeadOK(head, trail)
        /\ BodyOK(scope, trail, bytes)' <=> BodyOK(scope, trail, bytes)
        /\ TakesAreNoted(scope, trail)' <=> TakesAreNoted(scope, trail)
        /\ BlamedIn(error, trail)' <=> BlamedIn(error, trail)
    BY <2>1, GivenStays
  <2>3. /\ FreshOK' <=> FreshOK
        /\ Request' = Request
    BY <2>1 DEF FreshOK, Request
  <2>4. (PromisesOK' <=> PromisesOK) /\ (PhasesOK' <=> PhasesOK)
    BY <2>1, <2>3 
    DEF PromisesOK, PhasesOK, Pend, Asks, HookWrote, Wrote, DataInBody, DataInQuery,
        TypeIsChecked
  <2>5. Delivered' <=> Delivered
    BY <2>1, <2>3 DEF Delivered, Replaced, HookWrote, Wrote, DataInBody, DataInQuery,
                        TypeIsChecked, DataIsAsDeclared
  <2> QED
    BY <2>1, <2>2, <2>3, <2>4, <2>5 DEF DataOK, OutcomeOK
<1>2. CASE Expand
  BY <1>2, ExpandIsOK
<1>3. CASE Start
  BY <1>3, StartIsOK
<1>4. CASE Next /\ ~Expand /\ ~Start
  <2>1. Running
    BY <1>4, StepsOfAPipeline DEF Running, LifeOK, Disconnect
  <2> QED
    BY <1>4, <2>1, ExtractPathIsOK, ExtractQueryIsOK, RunHookIsOK, RunMapOnBodyIsOK,
       RunMapOnQueryIsOK, CheckContentTypeIsOK, ParseQueryDataIsOK, ParseBodyIsOK,
       CloneRawIsOK, ReadBodyIsOK, TakeBodyIsOK, KeepBytesIsOK, DisconnectIsOK DEF Next
<1> QED
  BY <1>1, <1>2, <1>3, <1>4

(***************************************************************************)
(* What is known of the data of a pipeline, and of its outcome: the trail  *)
(* tells what every parameter found, the head and the body are the         *)
(* client's unless a handler or a map wrote them, checks that are behind   *)
(* have been passed, a failure has somebody to blame and a success         *)
(* delivers what the route declares.                                       *)
(***************************************************************************)
THEOREM DataInvariant == Spec => [](DataOK /\ OutcomeOK)
<1>1. Init => DataOK /\ OutcomeOK
  BY InitData
<1>2. LifeOK /\ TodoOK /\ (DataOK /\ OutcomeOK) /\ [Next]_vars => (DataOK /\ OutcomeOK)'
  BY NextData
<1> QED
  BY <1>1, <1>2, LifeInvariant, ProgramInvariant, PTL DEF Spec

(* The inductive invariant of Pipeline. *)
IInv == LifeOK /\ TodoOK /\ DataOK /\ OutcomeOK

(***************************************************************************)
(* The inductive invariant of the pipeline holds in every state: the       *)
(* theorems below follow from it.                                          *)
(***************************************************************************)
THEOREM PipelineInvariant == Spec => []IInv
BY LifeInvariant, ProgramInvariant, DataInvariant, PTL DEF IInv

(***************************************************************************)
(* The variables of a pipeline have their types, and an outcome is there   *)
(* when it is due, and only then.                                          *)
(***************************************************************************)
THEOREM TypesAreRight == Spec => []TypeOK
<1>1. IInv => TypeOK
  <2> SUFFICES ASSUME IInv PROVE TypeOK
    OBVIOUS
  <2>1. scope \in Scopes
    BY DEF IInv, DataOK, TrailOK
  <2>2. scope.body \in {"stream", "taken"} /\ scope.local \in [DataTypes -> Origins \union {Absent}]
    BY <2>1 DEF Scopes
  <2>3. stage \in Stages /\ given.verbosity \in DOMAIN Severity
    BY DEF IInv, LifeOK, GivenOK, AccountOK
  <2>4. (error # NoError) = (stage = "failed")
    BY FailuresAreErrors DEF IInv, LifeOK, AccountOK
  <2>5. (sent # "none") = (stage = "forwarded") /\ (todo # <<>>) = (stage = "running")
    BY DEF IInv, OutcomeOK, TodoOK
  <2> QED
    BY <2>2, <2>3, <2>4, <2>5 DEF TypeOK
<1> QED
  BY <1>1, PipelineInvariant, PTL

(***************************************************************************)
(* Content-Type and Content-Length of the forwarded head fit the forwarded *)
(* body: a body that a map replaced has no length, and the type of its     *)
(* format; those of any other are the client's unless a hook or the map    *)
(* wrote them (codegen.rs, map_replace_or_keep).                           *)
(***************************************************************************)
THEOREM DescriptionsFit == Spec => []ForwardedBodyIsDescribed
<1>1. IInv => ForwardedBodyIsDescribed
  BY DEF IInv, OutcomeOK, Delivered, ForwardedBodyIsDescribed
<1> QED
  BY <1>1, PipelineInvariant, PTL

(***************************************************************************)
(* The body of the client has one reader: a hook that took it, the         *)
(* generated code that buffers it, or the proxy that streams it            *)
(* (pipeline.rs, RequestScope::take_body).                                 *)
(***************************************************************************)
THEOREM OneReaderOfTheBody == Spec => []ClientBodyHasOneReader
<1>1. IInv => ClientBodyHasOneReader
  <2> SUFFICES ASSUME IInv PROVE ClientBodyHasOneReader
    OBVIOUS
  <2>1. \A k \in DOMAIN trail : EntryOK(trail, k)
    BY DEF IInv, DataOK, TrailOK
  <2>2. stage = "forwarded" /\ ~Replaced =>
          ~HookTook /\ sent \in {"stream", Request.body.bytes}
    BY DEF IInv, OutcomeOK, Delivered, HookTook, HookTakes
  <2> QED
    BY <2>1, <2>2 DEF ClientBodyHasOneReader, EntryOK
<1> QED
  BY <1>1, PipelineInvariant, PTL

(***************************************************************************)
(* Only a route that declares a json or form body, or a map, buffers the   *)
(* body of a request, and never more of it than the limit (body reading in *)
(* codegen.rs).                                                            *)
(***************************************************************************)
THEOREM BuffersAreDeclared == Spec => []OnlyDeclaredBodiesAreBuffered
<1>1. IInv => OnlyDeclaredBodiesAreBuffered
  <2> SUFFICES ASSUME IInv PROVE OnlyDeclaredBodiesAreBuffered
    OBVIOUS
  <2>1. BodyOK(scope, trail, bytes)
    BY DEF IInv, DataOK
  <2>2. ASSUME Wrote(RouteTakes) PROVE DataInBody \/ (route.map # <<>> /\ route.data.kind # "form")
    <3>1. WroteIn(trail, RouteTakes)
      BY <2>2 DEF Wrote, WroteIn
    <3>2. Asks("read_body")
      BY <2>1, <3>1 DEF BodyOK
    <3>3. stage \in Live
      <4>1. stage \notin {"declared", "rejected", "ready"}
        BY <3>1, EmptyList DEF IInv, DataOK, FreshOK, WroteIn
      <4> QED
        BY <4>1 DEF IInv, LifeOK, AccountOK, Stages, Live
    <3>4. RouteTyped(route)
      BY <3>3, LiveRouteIsTyped DEF IInv
    <3>5. ~FormInQuery(route) /\ ~Streams(route)
      BY <3>2, <3>4, StepsAreTyped DEF Asks
    <3> QED
      BY <3>4, <3>5 DEF FormInQuery, Streams, DataInBody, RouteTyped
  <2>3. bytes # "none" => Request.body.len <= BodyLimit /\ ~Request.body.broken
    BY <2>1 DEF BodyOK
  <2>4. sent = "stream" => bytes = "none"
    BY DEF IInv, OutcomeOK, Delivered
  <2> QED
    BY <2>2, <2>3, <2>4 DEF OnlyDeclaredBodiesAreBuffered, RouteTakes
<1> QED
  BY <1>1, PipelineInvariant, PTL

(***************************************************************************)
(* A failure blames the right side: a 4xx is about something the client    *)
(* sent, a 5xx about something the application did (pipeline_runtime.rs,   *)
(* the status of each error).                                              *)
(***************************************************************************)
THEOREM BlameIsAlwaysFair == Spec => []BlameIsFair
<1>1. IInv => BlameIsFair
  <2> SUFFICES ASSUME IInv PROVE BlameIsFair
    OBVIOUS
  <2>1. CASE stage # "failed"
    <3>1. error = NoError
      BY <2>1 DEF IInv, LifeOK, AccountOK
    <3> QED
      BY <3>1 DEF BlameIsFair, NoError, ErrorOf
  <2>2. CASE stage = "failed"
    <3>1. BlamedIn(error, trail)
      BY <2>2 DEF IInv, OutcomeOK
    <3>2. \A w : Wrote(w) <=> WroteIn(trail, w)
      BY DEF Wrote, WroteIn
    <3>3. \A f : HookWrote(f) <=> HeadWroteIn(trail, f)
      BY DEF HookWrote, HeadWroteIn
    <3>4. Returned(error.code) <=> WroteIn(trail, <<"handler", "returned", error.code>>)
      BY <3>2 DEF Returned
    <3>5. HandlersBlamed(error.code, trail) <=> HandlersAtFault(error.code)
      BY <3>2 DEF HandlersBlamed, HandlersAtFault, MissesIn, HookTook, HookTakes
    <3>6. ClientBlamed(error.code, trail) <=> ClientAtFault(error.code)
      BY <3>3 DEF ClientBlamed, ClientAtFault
    <3> QED
      BY <3>1, <3>4, <3>5, <3>6 DEF BlamedIn, BlameIsFair
  <2> QED
    BY <2>1, <2>2
<1> QED
  BY <1>1, PipelineInvariant, PTL

(***************************************************************************)
(* Nothing invalid is forwarded or given to a map: the path, query and     *)
(* body that a route declares are valid as the client sent them, the data  *)
(* of a GET or HEAD form and the Content-Type of a form or of a mapped     *)
(* multipart body as the hooks left them (codegen.rs, build_body_phase).   *)
(***************************************************************************)
THEOREM NothingInvalidPasses == Spec => []OnlyValidRequestsAreForwarded
<1>1. IInv => OnlyValidRequestsAreForwarded
  <2> SUFFICES ASSUME IInv PROVE OnlyValidRequestsAreForwarded
    OBVIOUS
  <2>1. ASSUME Reaches("map_query") \/ Reaches("map_body")
        PROVE  DataIsAsDeclared /\ (DataInBody => Valid(bytes))
    BY <2>1, MapsGetWhatIsDeclared DEF IInv, Running, Reaches
  <2> QED
    BY <2>1 DEF IInv, OutcomeOK, Delivered, OnlyValidRequestsAreForwarded
<1> QED
  BY <1>1, PipelineInvariant, PTL

(***************************************************************************)
(* A parameter of a handler sees the latest value of its type: the last    *)
(* one set before it and not taken since, or the shared one if none was    *)
(* (RequestScope, get and take).                                           *)
(***************************************************************************)
THEOREM ParametersAreUpToDate == Spec => []ParametersSeeTheLatestValue
<1>1. IInv => ParametersSeeTheLatestValue
  <2> SUFFICES ASSUME IInv, NEW k \in DOMAIN trail
               PROVE  LET local == LastWrite(k, trail[k][2])
                          found == trail[k][3]
                      IN  /\ trail[k][1] \in {"Take", "Ref"} =>
                               found = IF local # Absent THEN local ELSE given.shared[trail[k][2]]
                          /\ trail[k][1] = "Mut" => found = local
    BY DEF ParametersSeeTheLatestValue
  <2>1. EntryOK(trail, k)
    BY DEF IInv, DataOK, TrailOK
  <2>2. LastWrite(k, trail[k][2]) = LastIn(trail, k, trail[k][2])
    BY DEF LastWrite, LastIn, Touched
  <2> QED
    BY <2>1, <2>2 DEF EntryOK
<1> QED
  BY <1>1, PipelineInvariant, PTL

=============================================================================
