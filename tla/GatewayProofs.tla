----------------------------- MODULE GatewayProofs ---------------------------
(***************************************************************************)
(* Proofs about Gateway, for every set of programs, calls, services,       *)
(* requests and responses that its assumption allows. The invariant has    *)
(* three parts: SetupOK says that the builder is what the calls made of it *)
(* so far, and the app one that build can make of it; SocketOK that the    *)
(* system calls made and still to make are those of bind_listener;         *)
(* TrafficOK that every request, in flight or sent on, was taken by its    *)
(* route, has the key that the route's strategy gives, goes to a backend   *)
(* of the route's pool, the one the jump hash picks, and by the path that  *)
(* the rewrite makes. Most of the work is in the recursive functions of    *)
(* the model: each is shown to be defined, and then to keep what it is     *)
(* needed for at every turn. For paths these are cutting a text in pieces, *)
(* compiling a template and rendering it; from what they come to follows   *)
(* that what proxy.rs and path_sticky.rs find in a path without its prefix *)
(* is what axum finds in the whole.                                        *)
(***************************************************************************)
EXTENDS Gateway, NumbersAndLists, FiniteSetTheorems

-----------------------------------------------------------------------------
(***************************************************************************)
(* The listener: bind_listener makes the calls that its configuration asks *)
(* for.                                                                    *)
(***************************************************************************)

(* The members of a concatenation are those of its parts. *)
LEMMA RangeOfConcat ==
  ASSUME NEW s, IsList(s), NEW t, IsList(t)
  PROVE  IsList(s \o t) /\ Range(s \o t) = Range(s) \union Range(t)
<1> DEFINE u == s \o t
<1>1. /\ IsList(u) /\ DOMAIN u = 1 .. Len(s) + Len(t)
      /\ \A k \in 1 .. Len(s) : u[k] = s[k]
      /\ \A k \in 1 .. Len(t) : u[Len(s) + k] = t[k]
  BY ConcatSeq
<1>2. Len(s) \in Nat /\ DOMAIN s = 1 .. Len(s) /\ Len(t) \in Nat /\ DOMAIN t = 1 .. Len(t)
  BY SeqFacts
<1> HIDE DEF u
<1>3. ASSUME NEW k \in DOMAIN u PROVE u[k] \in Range(s) \union Range(t)
  <2>1. CASE k <= Len(s)
    BY <1>1, <1>2, <2>1 DEF Range
  <2>2. CASE ~(k <= Len(s))
    <3>1. k - Len(s) \in DOMAIN t /\ k = Len(s) + (k - Len(s))
      BY <1>1, <1>2, <2>2
    <3>2. u[k] = t[k - Len(s)]
      BY <1>1, <1>2, <3>1
    <3> QED
      BY <3>1, <3>2 DEF Range
  <2> QED
    BY <2>1, <2>2
<1>4. ASSUME NEW k \in DOMAIN s PROVE s[k] \in Range(u)
  <2>1. k \in DOMAIN u /\ u[k] = s[k]
    BY <1>1, <1>2
  <2> QED
    BY <2>1 DEF Range
<1>5. ASSUME NEW k \in DOMAIN t PROVE t[k] \in Range(u)
  <2>1. Len(s) + k \in DOMAIN u /\ u[Len(s) + k] = t[k]
    BY <1>1, <1>2
  <2> QED
    BY <2>1 DEF Range
<1>6. Range(u) = Range(s) \union Range(t)
  BY <1>3, <1>4, <1>5 DEF Range
<1> QED
  BY <1>1, <1>6 DEF u

(* The member of a list of one. *)
LEMMA RangeOfOne ==
  ASSUME NEW x
  PROVE  IsList(<<x>>) /\ Range(<<x>>) = {x}
<1>1. <<x>> \in Seq({x})
  OBVIOUS
<1>2. Range(<<x>>) = {x}
  BY DEF Range
<1> QED
  BY <1>1, <1>2 DEF IsList

(* The empty list has none. *)
LEMMA RangeOfNone == IsList(<<>>) /\ Range(<<>>) = {}
<1>1. <<>> \in Seq({})
  OBVIOUS
<1>2. Range(<<>>) = {}
  BY DEF Range
<1> QED
  BY <1>1, <1>2 DEF IsList

(* The listener. *)

(* The calls on one option, among the calls of a list. *)
MadeIn(s, op) == {i \in DOMAIN s : s[i].op = op}

(* An option that was set, for good, before the binding. *)
InForce(s, option, value) ==
  /\ MadeIn(s, option) # {}
  /\ \A i \in MadeIn(s, option) : i < Max(MadeIn(s, "bind"))
  /\ s[Max(MadeIn(s, option))].value = value

(* What a socket must have been told, whatever came of it. *)
AsConfigured(s, config, family) ==
  /\ \A f \in SocketOptions : config[f] # <<>> =>
       (f = "ipv6_only" /\ family = "V4") \/ InForce(s, f, config[f][1])
  /\ config.reuse_address = <<>> => InForce(s, "reuse_address", OnUnix)
  /\ config.backlog # <<>> =>
       s[Max(MadeIn(s, "listen"))].value = Min({config.backlog[1], MaxI32})
  /\ InForce(s, "nonblocking", TRUE)

(* The greatest of one number. *)
LEMMA MaxOfOne ==
  ASSUME NEW n \in Nat
  PROVE  Max({n}) = n
BY GreatestMember

(* An option is in force if it is set, to one value, before bind. *)
LEMMA InForceIf ==
  ASSUME NEW s, IsList(s), NEW n \in Nat, MadeIn(s, "bind") = {n}, NEW option, NEW value,
         Syscall(option, value) \in Range(s),
         \A i \in DOMAIN s : s[i].op = option => i < n /\ s[i].value = value
  PROVE  InForce(s, option, value)
<1>1. Len(s) \in Nat /\ DOMAIN s = 1 .. Len(s)
  BY SeqFacts
<1>2. PICK k \in DOMAIN s : s[k] = Syscall(option, value)
  BY DEF Range
<1>3. k \in MadeIn(s, option)
  BY <1>2 DEF MadeIn, Syscall
<1>4. MadeIn(s, option) \subseteq 0 .. Len(s)
  BY <1>1 DEF MadeIn
<1>5. Max(MadeIn(s, option)) \in MadeIn(s, option)
  BY <1>1, <1>3, <1>4, GreatestMember
<1>6. Max(MadeIn(s, "bind")) = n
  BY MaxOfOne
<1> QED
  BY <1>3, <1>5, <1>6 DEF InForce, MadeIn

(* What a ServeConfig holds. *)
ConfigOK(config) ==
  /\ \A f \in ConfigFields : config[f] = <<>> \/ config[f] = <<config[f][1]>>
  /\ config.backlog # <<>> => config.backlog[1] \in Nat

(* The call that an option of the configuration asks for. *)
LEMMA RangeOfOption ==
  ASSUME NEW config, NEW f
  PROVE  /\ IsList(SetIfGiven(config, f))
         /\ Range(SetIfGiven(config, f)) =
              IF config[f] = <<>> THEN {} ELSE {Syscall(f, config[f][1])}
<1>1. CASE config[f] = <<>>
  BY <1>1, RangeOfNone DEF SetIfGiven
<1>2. CASE config[f] # <<>>
  BY <1>2, RangeOfOne DEF SetIfGiven
<1> QED
  BY <1>1, <1>2

(* What bind_listener calls before it binds, with options. *)
Options(family, config) ==
  <<Syscall("socket", family)>>
  \o (IF family = "V6" THEN SetIfGiven(config, "ipv6_only") ELSE <<>>)
  \o <<Syscall("reuse_address",
               IF config.reuse_address = <<>> THEN OnUnix ELSE config.reuse_address[1])>>
  \o SetIfGiven(config, "reuse_port")
  \o SetIfGiven(config, "recv_buffer_size")
  \o SetIfGiven(config, "send_buffer_size")

(* The calls that bind_listener makes whatever is configured. *)
Binding(family, config) ==
  <<Syscall("nonblocking", TRUE), Syscall("bind", family),
    Syscall("listen", ListenBacklog(config.backlog)), Syscall("from_std", TRUE)>>

(* The calls that it makes for options, and what they are made with. *)
Given(config, f) == IF config[f] = <<>> THEN {} ELSE {Syscall(f, config[f][1])}

(* The calls made before bind are those of the options. *)
LEMMA RangeOfOptions ==
  ASSUME NEW family, NEW config
  PROVE  /\ IsList(Options(family, config))
         /\ Range(Options(family, config)) =
              {Syscall("socket", family)}
              \union (IF family = "V6" THEN Given(config, "ipv6_only") ELSE {})
              \union {Syscall("reuse_address",
                        IF config.reuse_address = <<>> THEN OnUnix ELSE config.reuse_address[1])}
              \union Given(config, "reuse_port")
              \union Given(config, "recv_buffer_size")
              \union Given(config, "send_buffer_size")
<1> DEFINE x == Syscall("reuse_address",
                  IF config.reuse_address = <<>> THEN OnUnix ELSE config.reuse_address[1])
           only == IF family = "V6" THEN SetIfGiven(config, "ipv6_only") ELSE <<>>
           s1 == <<Syscall("socket", family)>>
           s2 == s1 \o only
           s3 == s2 \o <<x>>
           s4 == s3 \o SetIfGiven(config, "reuse_port")
           s5 == s4 \o SetIfGiven(config, "recv_buffer_size")
           s6 == s5 \o SetIfGiven(config, "send_buffer_size")
           r1 == {Syscall("socket", family)}
           r2 == r1 \union (IF family = "V6" THEN Given(config, "ipv6_only") ELSE {})
           r3 == r2 \union {x}
           r4 == r3 \union Given(config, "reuse_port")
           r5 == r4 \union Given(config, "recv_buffer_size")
           r6 == r5 \union Given(config, "send_buffer_size")
<1>1. IsList(only) /\ Range(only) = IF family = "V6" THEN Given(config, "ipv6_only") ELSE {}
  BY RangeOfOption, RangeOfNone DEF Given
<1>2. \A f : IsList(SetIfGiven(config, f)) /\ Range(SetIfGiven(config, f)) = Given(config, f)
  BY RangeOfOption DEF Given
<1>3. IsList(s1) /\ Range(s1) = r1
  BY RangeOfOne
<1>4. IsList(<<x>>) /\ Range(<<x>>) = {x}
  BY RangeOfOne
<1>5. Options(family, config) = s6
  BY DEF Options
<1> HIDE DEF x, only, s1
<1>6. IsList(s2) /\ Range(s2) = r2
  BY <1>1, <1>3, RangeOfConcat
<1> HIDE DEF s2, r2
<1>7. IsList(s3) /\ Range(s3) = r3
  BY <1>4, <1>6, RangeOfConcat
<1> HIDE DEF s3, r3
<1>8. IsList(s4) /\ Range(s4) = r4
  BY <1>2, <1>7, RangeOfConcat
<1> HIDE DEF s4, r4
<1>9. IsList(s5) /\ Range(s5) = r5
  BY <1>2, <1>8, RangeOfConcat
<1> HIDE DEF s5, r5
<1>10. IsList(s6) /\ Range(s6) = r6
  BY <1>2, <1>9, RangeOfConcat
<1> QED
  BY <1>5, <1>10 DEF r5, r4, r3, r2, r1, x

(* Nothing in front of the binding binds, listens or is non-blocking. *)
LEMMA OptionsOnly ==
  ASSUME NEW family, NEW config, NEW c \in Range(Options(family, config))
  PROVE  /\ c.op \in SocketOptions \union {"socket"}
         /\ c.op \in SocketOptions \ {"reuse_address"} =>
              config[c.op] # <<>> /\ c.value = config[c.op][1]
         /\ c.op = "reuse_address" =>
              c.value = IF config.reuse_address = <<>> THEN OnUnix ELSE config.reuse_address[1]
BY RangeOfOptions DEF Given, Syscall, SocketOptions

(* Every option that is given, and applies, is set before bind. *)
LEMMA OptionsAll ==
  ASSUME NEW family \in {"V4", "V6"}, NEW config
  PROVE  /\ \A f \in SocketOptions : config[f] # <<>> =>
              \/ f = "ipv6_only" /\ family = "V4"
              \/ Syscall(f, config[f][1]) \in Range(Options(family, config))
         /\ config.reuse_address = <<>> =>
              Syscall("reuse_address", OnUnix) \in Range(Options(family, config))
BY RangeOfOptions DEF Given, SocketOptions

(* A list of four members. *)
LEMMA ListOfFour ==
  ASSUME NEW w, NEW x, NEW y, NEW z
  PROVE  IsList(<<w, x, y, z>>) /\ Len(<<w, x, y, z>>) = 4
<1>1. <<w, x, y, z>> \in Seq({w, x, y, z})
  OBVIOUS
<1>2. IsList(<<w, x, y, z>>)
  BY <1>1, Zenon DEF IsList
<1> QED
  BY <1>2

(* A list of five members. *)
LEMMA ListOfFive ==
  ASSUME NEW v, NEW w, NEW x, NEW y, NEW z
  PROVE  IsList(<<v, w, x, y, z>>) /\ Len(<<v, w, x, y, z>>) = 5
<1>1. <<v, w, x, y, z>> \in Seq({v, w, x, y, z})
  OBVIOUS
<1>2. IsList(<<v, w, x, y, z>>)
  BY <1>1, Zenon DEF IsList
<1> QED
  BY <1>2

(* The custom path of serve.rs does what is configured. *)
LEMMA CustomBindIsConfigured ==
  ASSUME NEW family \in {"V4", "V6"}, NEW config, ConfigOK(config)
  PROVE  /\ IsList(CustomBind(family, config))
         /\ AsConfigured(CustomBind(family, config), config, family)
<1> DEFINE a == Options(family, config)
           b == Binding(family, config)
           s == a \o b
           n == Len(a) + 2
<1>1. CustomBind(family, config) = s
  BY DEF CustomBind, Options, Binding
<1>2. IsList(a) /\ Len(a) \in Nat /\ DOMAIN a = 1 .. Len(a)
  BY RangeOfOptions, SeqFacts
<1>3. /\ IsList(b) /\ Len(b) = 4
      /\ b[1] = Syscall("nonblocking", TRUE) /\ b[2] = Syscall("bind", family)
      /\ b[3] = Syscall("listen", ListenBacklog(config.backlog))
      /\ b[4] = Syscall("from_std", TRUE)
  <2>1. IsList(b) /\ Len(b) = 4
    BY ListOfFour, Zenon DEF Binding
  <2> QED
    BY <2>1 DEF Binding
<1>4. \A k \in 1 .. Len(a) : a[k] \in Range(a)
  BY <1>2 DEF Range
<1> HIDE DEF a, b
<1>5. /\ IsList(s) /\ DOMAIN s = 1 .. Len(a) + 4
      /\ \A k \in 1 .. Len(a) : s[k] = a[k]
      /\ \A k \in 1 .. 4 : s[Len(a) + k] = b[k]
  <2>1. IsList(a) /\ IsList(b)
    BY <1>2, <1>3
  <2>2. Joins(s, a, b)
    BY <2>1, ConcatJoins, Zenon
  <2> HIDE DEF s
  <2>3. DOMAIN s = 1 .. Len(s)
    BY <2>2, SeqFacts DEF Joins
  <2> QED
    BY <1>3, <2>2, <2>3 DEF Joins
<1>6. Range(s) = Range(a) \union Range(b)
  BY <1>2, <1>3, RangeOfConcat
<1>7. Syscall("nonblocking", TRUE) \in Range(s)
  <2>1. 1 \in DOMAIN b
    BY <1>3, SeqFacts
  <2> QED
    BY <1>3, <1>6, <2>1 DEF Range
<1> HIDE DEF s
<1>8. /\ s[Len(a) + 1] = Syscall("nonblocking", TRUE) /\ s[Len(a) + 2] = Syscall("bind", family)
      /\ s[Len(a) + 3] = Syscall("listen", ListenBacklog(config.backlog))
      /\ s[Len(a) + 4] = Syscall("from_std", TRUE)
  <2>1. 1 \in 1 .. 4 /\ 2 \in 1 .. 4 /\ 3 \in 1 .. 4 /\ 4 \in 1 .. 4
    OBVIOUS
  <2>2. /\ s[Len(a) + 1] = b[1] /\ s[Len(a) + 2] = b[2]
        /\ s[Len(a) + 3] = b[3] /\ s[Len(a) + 4] = b[4]
    BY <1>5, <2>1, Zenon
  <2> QED
    BY <1>3, <2>2, Zenon
<1>9. \A k \in DOMAIN s :
        k \in 1 .. Len(a) \/ k = Len(a) + 1 \/ k = n \/ k = Len(a) + 3 \/ k = Len(a) + 4
  BY <1>2, <1>5
<1>10. \A k \in DOMAIN s : s[k].op \in SocketOptions \union {"socket"} => k \in 1 .. Len(a)
  BY <1>8, <1>9 DEF Syscall, SocketOptions
<1>11. \A k \in 1 .. Len(a) : s[k] \in Range(Options(family, config))
  BY <1>4, <1>5 DEF a
<1>12. \A k \in 1 .. Len(a) : s[k].op \in SocketOptions \union {"socket"}
  BY <1>11, OptionsOnly
<1>13. n \in Nat /\ MadeIn(s, "bind") = {n}
  <2>1. n \in DOMAIN s /\ s[n].op = "bind"
    BY <1>2, <1>5, <1>8 DEF Syscall
  <2>2. \A k \in DOMAIN s : s[k].op = "bind" => k = n
    BY <1>8, <1>9, <1>12 DEF Syscall, SocketOptions
  <2> QED
    BY <1>2, <2>1, <2>2 DEF MadeIn
<1>14. \A k \in 1 .. Len(a) : k < n
  BY <1>2
<1>15. InForce(s, "nonblocking", TRUE)
  <2>1. \A k \in DOMAIN s : s[k].op = "nonblocking" => k < n /\ s[k].value = TRUE
    BY <1>2, <1>8, <1>9, <1>12 DEF Syscall, SocketOptions
  <2> QED
    BY <1>5, <1>7, <1>13, <2>1, InForceIf
<1>16. config.backlog # <<>> => s[Max(MadeIn(s, "listen"))].value = Min({config.backlog[1], MaxI32})
  <2>1. Len(a) + 3 \in DOMAIN s /\ s[Len(a) + 3].op = "listen"
    <3>1. Len(a) + 3 \in DOMAIN s
      BY <1>2, <1>5
    <3>2. s[Len(a) + 3].op = "listen"
      BY <1>8 DEF Syscall
    <3> QED
      BY <3>1, <3>2
  <2>2. ASSUME NEW k \in DOMAIN s, s[k].op = "listen" PROVE k = Len(a) + 3
    <3>1. k \notin 1 .. Len(a)
      BY <1>12, <2>2 DEF SocketOptions
    <3>2. k # Len(a) + 1 /\ k # Len(a) + 2 /\ k # Len(a) + 4
      BY <1>8, <2>2 DEF Syscall
    <3> QED
      BY <1>9, <3>1, <3>2
  <2>3. MadeIn(s, "listen") = {Len(a) + 3} /\ Len(a) + 3 \in Nat
    BY <1>2, <2>1, <2>2 DEF MadeIn
  <2>4. s[Max(MadeIn(s, "listen"))].value = ListenBacklog(config.backlog)
    BY <1>8, <2>3, MaxOfOne DEF Syscall
  <2>5. ASSUME config.backlog # <<>>
        PROVE  ListenBacklog(config.backlog) = Min({config.backlog[1], MaxI32})
    <3>1. config.backlog[1] \in Nat /\ MaxI32 \in Nat
      BY <2>5, ListenerAssumption DEF ConfigOK
    <3> DEFINE p == config.backlog[1]
    <3>2. ListenBacklog(config.backlog) = IF p <= MaxI32 THEN p ELSE MaxI32
      BY <2>5 DEF ListenBacklog
    <3> HIDE DEF p
    <3>3. Min({p, MaxI32}) = IF p <= MaxI32 THEN p ELSE MaxI32
      <4>1. p \in Nat /\ MaxI32 \in Nat
        BY <3>1 DEF p
      <4> QED
        BY <4>1 DEF Min
    <3> QED
      BY <3>2, <3>3 DEF p
  <2> QED
    BY <2>4, <2>5
<1>17. ASSUME NEW f \in SocketOptions, NEW value, Syscall(f, value) \in Range(a),
              \A c \in Range(a) : c.op = f => c.value = value
       PROVE  InForce(s, f, value)
  <2>1. \A k \in DOMAIN s : s[k].op = f => k < n /\ s[k].value = value
    BY <1>5, <1>4, <1>10, <1>14, <1>17
  <2>2. Syscall(f, value) \in Range(s)
    BY <1>6, <1>17 DEF s
  <2> QED
    BY <1>5, <1>13, <2>1, <2>2, InForceIf
<1>18. ASSUME NEW f \in SocketOptions, config[f] # <<>>, ~(f = "ipv6_only" /\ family = "V4")
       PROVE  InForce(s, f, config[f][1])
  <2>1. Syscall(f, config[f][1]) \in Range(a)
    BY <1>18, OptionsAll DEF a
  <2>2. \A c \in Range(a) : c.op = f => c.value = config[f][1]
    BY <1>18, OptionsOnly DEF a
  <2> QED
    BY <1>17, <2>1, <2>2
<1>19. ASSUME config.reuse_address = <<>> PROVE InForce(s, "reuse_address", OnUnix)
  <2>1. Syscall("reuse_address", OnUnix) \in Range(a)
    BY <1>19, OptionsAll DEF a
  <2>2. \A c \in Range(a) : c.op = "reuse_address" => c.value = OnUnix
    BY <1>19, OptionsOnly DEF a
  <2> QED
    BY <1>17, <2>1, <2>2 DEF SocketOptions
<1> QED
  BY <1>1, <1>5, <1>15, <1>16, <1>18, <1>19 DEF AsConfigured, s

(* Without any option the listener is tokio's. *)
LEMMA TokioBindIsConfigured ==
  ASSUME NEW family \in {"V4", "V6"}, NEW config, ~NeedsCustomBind(config)
  PROVE  IsList(TokioBind(family)) /\ AsConfigured(TokioBind(family), config, family)
<1> DEFINE s == TokioBind(family)
<1>1. s = <<Syscall("socket", family), Syscall("nonblocking", TRUE),
            Syscall("reuse_address", OnUnix), Syscall("bind", family), Syscall("listen", "tokio")>>
  BY DEF TokioBind
<1>2. /\ IsList(s) /\ DOMAIN s = 1 .. 5
      /\ s[1] = Syscall("socket", family) /\ s[2] = Syscall("nonblocking", TRUE)
      /\ s[3] = Syscall("reuse_address", OnUnix) /\ s[4] = Syscall("bind", family)
      /\ s[5] = Syscall("listen", "tokio")
  <2>1. IsList(s) /\ Len(s) = 5
    BY ListOfFive, Zenon DEF TokioBind
  <2> QED
    BY <1>1, <2>1
<1> HIDE DEF s
<1>3. \A k \in DOMAIN s : k \in {1, 2, 3, 4, 5}
  BY <1>2
<1>4. MadeIn(s, "bind") = {4}
  BY <1>2, <1>3 DEF MadeIn, Syscall
<1>5. InForce(s, "nonblocking", TRUE)
  <2>1. \A k \in DOMAIN s : s[k].op = "nonblocking" => k < 4 /\ s[k].value = TRUE
    BY <1>2, <1>3 DEF Syscall
  <2>2. 2 \in DOMAIN s /\ Syscall("nonblocking", TRUE) = s[2]
    BY <1>2
  <2>3. Syscall("nonblocking", TRUE) \in Range(s)
    BY <2>2, Zenon DEF Range
  <2> QED
    BY <1>2, <1>4, <2>3, <2>1, <2>2, InForceIf
<1>6. InForce(s, "reuse_address", OnUnix)
  <2>1. \A k \in DOMAIN s : s[k].op = "reuse_address" => k < 4 /\ s[k].value = OnUnix
    BY <1>2, <1>3 DEF Syscall
  <2>2. 3 \in DOMAIN s /\ Syscall("reuse_address", OnUnix) = s[3]
    BY <1>2
  <2>3. Syscall("reuse_address", OnUnix) \in Range(s)
    BY <2>2, Zenon DEF Range
  <2> QED
    BY <1>2, <1>4, <2>3, <2>1, <2>2, InForceIf
<1>7. /\ \A f \in SocketOptions : config[f] = <<>>
      /\ config.backlog = <<>>
  BY DEF NeedsCustomBind, ConfigFields, SocketOptions
<1> QED
  BY <1>2, <1>5, <1>6, <1>7 DEF AsConfigured, s

(* So does bind_listener, whichever path it takes. *)
LEMMA BindIsConfigured ==
  ASSUME NEW family \in {"V4", "V6"}, NEW config, ConfigOK(config)
  PROVE  /\ IsList(BindListener(family, config))
         /\ AsConfigured(BindListener(family, config), config, family)
BY CustomBindIsConfigured, TokioBindIsConfigured DEF BindListener

-----------------------------------------------------------------------------
(***************************************************************************)
(* The recursions of build: mounting a service, and all of them.           *)
(***************************************************************************)

(* What the recursive function inside MountRoutes is. *)
MountsRoutes(f, acc, b, routes, n) ==
  f = [k \in 0 .. n |->
         IF k = 0 THEN acc ELSE MountRoute(f[k - 1], b, routes, routes.routes[k])]

(* The recursion of MountRoutes defines a function. *)
LEMMA MountRoutesIsDefined ==
  ASSUME NEW acc, NEW b, NEW routes, NEW n \in Nat
  PROVE  \E f : MountsRoutes(f, acc, b, routes, n)
<1> DEFINE Good == {m \in Nat : \E f : MountsRoutes(f, acc, b, routes, m)}
<1>1. 0 \in Good
  <2>1. MountsRoutes([k \in 0 .. 0 |-> acc], acc, b, routes, 0)
    BY DEF MountsRoutes
  <2> QED
    BY <2>1
<1>2. ASSUME NEW m \in Nat, m \in Good PROVE m + 1 \in Good
  <2>1. PICK f : MountsRoutes(f, acc, b, routes, m)
    BY <1>2
  <2>2. f = [k \in 0 .. m |->
               IF k = 0 THEN acc ELSE MountRoute(f[k - 1], b, routes, routes.routes[k])]
    BY <2>1 DEF MountsRoutes
  <2> DEFINE h == [k \in 0 .. m + 1 |->
                     IF k = m + 1 THEN MountRoute(f[m], b, routes, routes.routes[m + 1]) ELSE f[k]]
  <2>3. \A k \in 0 .. m + 1 : h[k] =
          IF k = 0 THEN acc ELSE MountRoute(h[k - 1], b, routes, routes.routes[k])
    <3>1. SUFFICES ASSUME NEW k \in 0 .. m + 1
                   PROVE  h[k] =
                            IF k = 0 THEN acc ELSE MountRoute(h[k - 1], b, routes, routes.routes[k])
      OBVIOUS
    <3>2. CASE k = m + 1
      BY <3>2
    <3>3. CASE k # m + 1
      <4>1. k \in 0 .. m /\ h[k] = f[k] /\ (k # 0 => h[k - 1] = f[k - 1])
        BY <3>3
      <4>2. f[k] = IF k = 0 THEN acc ELSE MountRoute(f[k - 1], b, routes, routes.routes[k])
        BY <2>2, <4>1
      <4> QED
        BY <4>1, <4>2
    <3> QED
      BY <3>2, <3>3
  <2>4. MountsRoutes(h, acc, b, routes, m + 1)
    BY <2>3 DEF MountsRoutes
  <2> HIDE DEF h
  <2> QED
    BY <2>4
<1>3. \A m \in Nat : m \in Good => m + 1 \in Good
  BY <1>2
<1> HIDE DEF Good
<1>4. Nat \subseteq Good
  BY <1>1, <1>3, NoLeastBad
<1> QED
  BY <1>4 DEF Good

(* What f does along that recursion. *)
RunOfMountRoutes(f, acc, b, routes) ==
  /\ f[0] = acc
  /\ \A m \in Nat : m + 1 <= Len(routes.routes) =>
       f[m + 1] = MountRoute(f[m], b, routes, routes.routes[m + 1])
  /\ ~Stopped(acc) /\ routes.service \in DOMAIN b.backends =>
         MountRoutes(acc, b, routes) = f[Len(routes.routes)]

(* MountRoutes runs its recursion to the end. *)
LEMMA MountRoutesRuns ==
  ASSUME NEW acc, NEW b, NEW routes, Len(routes.routes) \in Nat
  PROVE  \E f : RunOfMountRoutes(f, acc, b, routes)
<1> DEFINE n == Len(routes.routes)
           f == CHOOSE g : MountsRoutes(g, acc, b, routes, n)
<1>1. ~Stopped(acc) /\ routes.service \in DOMAIN b.backends =>
         MountRoutes(acc, b, routes) = f[n]
  BY DEF MountRoutes, MountsRoutes
<1>2. n \in Nat
  OBVIOUS
<1>3. n = Len(routes.routes)
  OBVIOUS
<1> HIDE DEF n
<1>4. MountsRoutes(f, acc, b, routes, n)
  BY <1>2, MountRoutesIsDefined
<1> HIDE DEF f
<1>5. \A k \in 0 .. n : f[k] =
        IF k = 0 THEN acc ELSE MountRoute(f[k - 1], b, routes, routes.routes[k])
  BY <1>4 DEF MountsRoutes
<1>6. f[0] = acc
  BY <1>2, <1>5
<1>7. ASSUME NEW m \in Nat, m + 1 <= n
      PROVE  f[m + 1] = MountRoute(f[m], b, routes, routes.routes[m + 1])
  <2>1. m + 1 \in 0 .. n /\ m + 1 # 0 /\ (m + 1) - 1 = m
    BY <1>2, <1>7
  <2> QED
    BY <1>5, <2>1
<1>8. RunOfMountRoutes(f, acc, b, routes)
  BY <1>1, <1>3, <1>6, <1>7 DEF RunOfMountRoutes
<1> QED
  BY <1>8

(* What the recursive function inside MountAll is. *)
MountsAll(f, b, outcome, n) ==
  f = [k \in 0 .. n |->
         IF k = 0 THEN [table |-> <<>>, outcome |-> outcome]
         ELSE MountRoutes(f[k - 1], b, b.mounted[k])]

(* The recursion of MountAll defines a function. *)
LEMMA MountAllIsDefined ==
  ASSUME NEW b, NEW outcome, NEW n \in Nat
  PROVE  \E f : MountsAll(f, b, outcome, n)
<1> DEFINE Good == {m \in Nat : \E f : MountsAll(f, b, outcome, m)}
<1>1. 0 \in Good
  <2>1. MountsAll([k \in 0 .. 0 |-> [table |-> <<>>, outcome |-> outcome]], b, outcome, 0)
    BY DEF MountsAll
  <2> QED
    BY <2>1
<1>2. ASSUME NEW m \in Nat, m \in Good PROVE m + 1 \in Good
  <2>1. PICK f : MountsAll(f, b, outcome, m)
    BY <1>2
  <2>2. f = [k \in 0 .. m |->
               IF k = 0 THEN [table |-> <<>>, outcome |-> outcome]
               ELSE MountRoutes(f[k - 1], b, b.mounted[k])]
    BY <2>1 DEF MountsAll
  <2> DEFINE h == [k \in 0 .. m + 1 |->
                     IF k = m + 1 THEN MountRoutes(f[m], b, b.mounted[m + 1]) ELSE f[k]]
  <2>3. \A k \in 0 .. m + 1 : h[k] =
          IF k = 0 THEN [table |-> <<>>, outcome |-> outcome]
          ELSE MountRoutes(h[k - 1], b, b.mounted[k])
    <3>1. SUFFICES ASSUME NEW k \in 0 .. m + 1
                   PROVE  h[k] =
                            IF k = 0 THEN [table |-> <<>>, outcome |-> outcome]
                            ELSE MountRoutes(h[k - 1], b, b.mounted[k])
      OBVIOUS
    <3>2. CASE k = m + 1
      BY <3>2
    <3>3. CASE k # m + 1
      <4>1. k \in 0 .. m /\ h[k] = f[k] /\ (k # 0 => h[k - 1] = f[k - 1])
        BY <3>3
      <4>2. f[k] = IF k = 0 THEN [table |-> <<>>, outcome |-> outcome]
                   ELSE MountRoutes(f[k - 1], b, b.mounted[k])
        BY <2>2, <4>1
      <4> QED
        BY <4>1, <4>2
    <3> QED
      BY <3>2, <3>3
  <2>4. MountsAll(h, b, outcome, m + 1)
    BY <2>3 DEF MountsAll
  <2> HIDE DEF h
  <2> QED
    BY <2>4
<1>3. \A m \in Nat : m \in Good => m + 1 \in Good
  BY <1>2
<1> HIDE DEF Good
<1>4. Nat \subseteq Good
  BY <1>1, <1>3, NoLeastBad
<1> QED
  BY <1>4 DEF Good

(* What f does along that recursion. *)
RunOfMountAll(f, b, outcome) ==
  /\ f[0] = [table |-> <<>>, outcome |-> outcome]
  /\ \A m \in Nat : m + 1 <= Len(b.mounted) =>
       f[m + 1] = MountRoutes(f[m], b, b.mounted[m + 1])
  /\ MountAll(b, outcome) = f[Len(b.mounted)]

(* MountAll runs its recursion to the end. *)
LEMMA MountAllRuns ==
  ASSUME NEW b, NEW outcome, Len(b.mounted) \in Nat
  PROVE  \E f : RunOfMountAll(f, b, outcome)
<1> DEFINE n == Len(b.mounted)
           f == CHOOSE g : MountsAll(g, b, outcome, n)
<1>1. MountAll(b, outcome) = f[n]
  BY DEF MountAll, MountsAll
<1>2. n \in Nat
  OBVIOUS
<1>3. n = Len(b.mounted)
  OBVIOUS
<1> HIDE DEF n
<1>4. MountsAll(f, b, outcome, n)
  BY <1>2, MountAllIsDefined
<1> HIDE DEF f
<1>5. \A k \in 0 .. n : f[k] =
        IF k = 0 THEN [table |-> <<>>, outcome |-> outcome]
        ELSE MountRoutes(f[k - 1], b, b.mounted[k])
  BY <1>4 DEF MountsAll
<1>6. f[0] = [table |-> <<>>, outcome |-> outcome]
  BY <1>2, <1>5
<1>7. ASSUME NEW m \in Nat, m + 1 <= n
      PROVE  f[m + 1] = MountRoutes(f[m], b, b.mounted[m + 1])
  <2>1. m + 1 \in 0 .. n /\ m + 1 # 0 /\ (m + 1) - 1 = m
    BY <1>2, <1>7
  <2> QED
    BY <1>5, <2>1
<1>8. RunOfMountAll(f, b, outcome)
  BY <1>1, <1>3, <1>6, <1>7 DEF RunOfMountAll
<1> QED
  BY <1>8

-----------------------------------------------------------------------------
(***************************************************************************)
(* What mounting leaves: the first declarations, and why it stopped.       *)
(***************************************************************************)

(* The entry of the route table that a declaration becomes. *)
TableEntry(b, d) ==
  [service |-> d.service.service, route_path |-> d.route.path, prefix |-> d.service.prefix,
   rewrite |-> d.route.rewrite, pool |-> Pool(b.backends[d.service.service]),
   policy |-> ResolvePolicy(b, PolicyName(d))[1], method |-> d.route.method,
   full |-> FullPath(d), to |-> d.route.to]

(* The policy that a declaration names, if it names one, is registered. *)
Resolves(b, d) == ResolvePolicy(b, PolicyName(d)) # <<>>

(* The service of a declaration has backends. *)
Backed(b, d)   == d.service.service \in DOMAIN b.backends

(* axum does not take a declaration after those before it. *)
Clashes(ds, n) == Unmountable(ds[n]) \/ \E i \in 1 .. n - 1 : Collide(ds[i], ds[n])

(* The table so far is what the first declarations come to. *)
TableOK(table, b, ds) ==
  /\ IsList(table)
  /\ \A i \in 1 .. Len(table) :
       table[i] = TableEntry(b, ds[i]) /\ Backed(b, ds[i]) /\ Resolves(b, ds[i]) /\ ~Clashes(ds, i)

(* Mounting has stopped for a reason that the declarations give. *)
BackendMissing(o, b) ==
  /\ o.kind = "BackendNotRegistered" /\ o.about \notin DOMAIN b.backends
  /\ \E k \in DOMAIN b.mounted : b.mounted[k].service = o.about

(* A policy that a declaration names is not registered. *)
PolicyMissing(o, b, ds) ==
  /\ o.kind = "PolicyNotRegistered"
  /\ \E i \in 1 .. Len(ds) : PolicyName(ds[i])[1] = o.about /\ ~Resolves(b, ds[i])

(* A declaration that build does not refuse, but axum does. *)
PanicsAt(n, b, ds) == n <= Len(ds) /\ Clashes(ds, n) /\ Backed(b, ds[n]) /\ Resolves(b, ds[n])

(* Mounting has stopped for such a reason, or not at all. *)
StopOK(acc, b, ds) ==
  /\ acc.outcome.result \in {"built", "error", "panicked"}
  /\ acc.outcome.result = "error" =>
       BackendMissing(acc.outcome, b) \/ PolicyMissing(acc.outcome, b, ds)
  /\ acc.outcome.result = "panicked" => PanicsAt(Len(acc.table) + 1, b, ds)

(* c declarations are behind. *)
AccOK(acc, b, ds, c) ==
  /\ acc = [table |-> acc.table, outcome |-> acc.outcome]
  /\ TableOK(acc.table, b, ds) /\ StopOK(acc, b, ds)
  /\ acc.outcome.result = "built" => Len(acc.table) = c

(* One more declaration is mounted, or stops the mounting for a reason. *)
LEMMA MountRouteKeeps ==
  ASSUME NEW acc, NEW b, NEW ds, NEW c \in Nat, AccOK(acc, b, ds, c), Len(ds) \in Nat,
         c + 1 <= Len(ds), NEW routes, NEW rd, ds[c + 1] = [service |-> routes, route |-> rd],
         routes.service \in DOMAIN b.backends
  PROVE  AccOK(MountRoute(acc, b, routes, rd), b, ds, c + 1)
<1> DEFINE d == ds[c + 1]
           name == PolicyName(d)
           full == FullPath(d)
           meta == [service |-> routes.service, route_path |-> rd.path, prefix |-> routes.prefix,
                    rewrite |-> rd.rewrite, pool |-> Pool(b.backends[routes.service]),
                    policy |-> ResolvePolicy(b, name), method |-> rd.method, full |-> full,
                    to |-> rd.to]
           panics == \/ rd.rewrite.kind = "Static" /\ ~UriText(rd.rewrite.to)
                     \/ AxumPanics(acc.table, rd.method, full)
           entry == [meta EXCEPT !.policy = @[1]]
           next == MountRoute(acc, b, routes, rd)
<1>1. d.service = routes /\ d.route = rd
  OBVIOUS
<1>2. name = EffectivePolicy(routes, rd) /\ full = Join(routes.prefix, rd.path)
  BY <1>1 DEF PolicyName, EffectivePolicy, FullPath
<1>3. next = IF Stopped(acc) THEN acc
             ELSE IF ResolvePolicy(b, name) = <<>>
             THEN Stop(acc, "error", "PolicyNotRegistered", name[1])
             ELSE IF panics THEN Stop(acc, "panicked", "none", "none")
             ELSE [acc EXCEPT !.table = Append(@, entry)]
  BY <1>2 DEF MountRoute
<1>4. Backed(b, d)
  BY <1>1 DEF Backed
<1>5. CASE Stopped(acc)
  BY <1>3, <1>5 DEF Stopped, AccOK, StopOK
<1>6. ASSUME ~Stopped(acc) PROVE acc.outcome.result = "built" /\ Len(acc.table) = c
  BY <1>6 DEF Stopped, AccOK
<1>7. CASE ~Stopped(acc) /\ ResolvePolicy(b, name) = <<>>
  <2>1. next = [table |-> acc.table, outcome |-> Outcome("error", "PolicyNotRegistered", name[1])]
    BY <1>3, <1>7 DEF Stop, AccOK
  <2>2. PolicyMissing(next.outcome, b, ds)
    <3>1. c + 1 \in 1 .. Len(ds) /\ ~Resolves(b, ds[c + 1])
      BY <1>7 DEF Resolves
    <3> HIDE DEF next
    <3> QED
      BY <2>1, <3>1 DEF PolicyMissing, Outcome, name, d
  <2> QED
    BY <2>1, <2>2 DEF AccOK, StopOK, Outcome
<1>8. ASSUME ~Stopped(acc) PROVE panics <=> Clashes(ds, c + 1)
  <2>1. IsList(acc.table) /\ DOMAIN acc.table = 1 .. c /\ Len(acc.table) = c
    BY <1>6, <1>8, SeqFacts DEF AccOK, TableOK
  <2>2. ASSUME NEW i \in 1 .. c
        PROVE  acc.table[i].full = FullPath(ds[i]) /\ acc.table[i].method = ds[i].route.method
    <3>1. acc.table[i] = TableEntry(b, ds[i])
      BY <2>1 DEF AccOK, TableOK
    <3> QED
      BY <3>1 DEF TableEntry
  <2>3. ASSUME NEW i \in 1 .. c
        PROVE  Overlaps(acc.table[i], rd.method, full) <=> Collide(ds[i], d)
    BY <1>1, <2>2 DEF Overlaps, Collide
  <2>4. AxumPanics(acc.table, rd.method, full) <=>
          (full = <<>> \/ Head(full) # "/" \/ \E i \in 1 .. c : Collide(ds[i], d))
    BY <2>1, <2>3 DEF AxumPanics
  <2>5. Unmountable(d) <=> \/ full = <<>> \/ Head(full) # "/"
                           \/ rd.rewrite.kind = "Static" /\ ~UriText(rd.rewrite.to)
    BY <1>1 DEF Unmountable
  <2>6. Clashes(ds, c + 1) <=> Unmountable(d) \/ \E i \in 1 .. c : Collide(ds[i], d)
    BY DEF Clashes
  <2>7. panics <=> \/ rd.rewrite.kind = "Static" /\ ~UriText(rd.rewrite.to)
                   \/ AxumPanics(acc.table, rd.method, full)
    OBVIOUS
  <2> HIDE DEF panics, full, d
  <2> QED
    BY <2>4, <2>5, <2>6, <2>7
<1>9. CASE ~Stopped(acc) /\ ResolvePolicy(b, name) # <<>> /\ panics
  <2>1. next = [table |-> acc.table, outcome |-> Outcome("panicked", "none", "none")]
    BY <1>3, <1>9 DEF Stop, AccOK
  <2>2. PanicsAt(Len(acc.table) + 1, b, ds)
    BY <1>4, <1>6, <1>8, <1>9 DEF PanicsAt, Resolves
  <2> HIDE DEF next, panics
  <2>3. next.table = acc.table /\ next.outcome = Outcome("panicked", "none", "none")
    BY <2>1
  <2>4. next.outcome.result = "panicked"
    BY <2>3 DEF Outcome
  <2>5. StopOK(next, b, ds)
    BY <2>2, <2>3, <2>4 DEF StopOK
  <2>6. next = [table |-> next.table, outcome |-> next.outcome]
    BY <2>1, <2>3
  <2>7. TableOK(next.table, b, ds)
    BY <2>3 DEF AccOK
  <2>8. AccOK(next, b, ds, c + 1)
    BY <2>4, <2>5, <2>6, <2>7 DEF AccOK
  <2> QED
    BY <2>8 DEF next
<1>10. CASE ~Stopped(acc) /\ ResolvePolicy(b, name) # <<>> /\ ~panics
  <2>1. next = [table |-> Append(acc.table, entry), outcome |-> acc.outcome]
    BY <1>3, <1>10 DEF AccOK
  <2>2. entry = TableEntry(b, d)
    BY <1>1 DEF TableEntry
  <2> DEFINE new == Append(acc.table, entry)
  <2>3. /\ IsList(new) /\ Len(new) = c + 1
        /\ \A k \in 1 .. c : new[k] = acc.table[k]
        /\ new[c + 1] = entry
    <3>1. IsList(acc.table) /\ Len(acc.table) = c
      BY <1>6, <1>10 DEF AccOK, TableOK
    <3> HIDE DEF entry
    <3> QED
      BY <3>1, AppendSeq
  <2>4. Resolves(b, d) /\ ~Clashes(ds, c + 1)
    BY <1>8, <1>10 DEF Resolves
  <2> HIDE DEF new, entry, panics, next
  <2>5. ASSUME NEW i \in 1 .. c + 1
        PROVE  /\ new[i] = TableEntry(b, ds[i]) /\ Backed(b, ds[i])
               /\ Resolves(b, ds[i]) /\ ~Clashes(ds, i)
    <3>1. CASE i = c + 1
      BY <1>4, <2>2, <2>3, <2>4, <3>1
    <3>2. CASE i # c + 1
      <4>1. i \in 1 .. c /\ i \in 1 .. Len(acc.table)
        BY <1>6, <1>10, <3>2
      <4> QED
        BY <2>3, <4>1 DEF AccOK, TableOK
    <3> QED
      BY <3>1, <3>2
  <2>6. TableOK(new, b, ds)
    BY <2>3, <2>5 DEF TableOK
  <2>7. next = [table |-> new, outcome |-> acc.outcome]
    BY <2>1 DEF new
  <2>8. next.table = new /\ next.outcome = acc.outcome
    BY <2>7
  <2>9. acc.outcome.result = "built"
    BY <1>6, <1>10
  <2>10. StopOK(next, b, ds)
    BY <2>8, <2>9 DEF StopOK
  <2>11. next = [table |-> next.table, outcome |-> next.outcome]
    BY <2>7, <2>8
  <2>12. TableOK(next.table, b, ds) /\ Len(next.table) = c + 1
    BY <2>3, <2>6, <2>8
  <2>13. AccOK(next, b, ds, c + 1)
    BY <2>10, <2>11, <2>12 DEF AccOK
  <2> QED
    BY <2>13 DEF next
<1> HIDE DEF next, panics
<1> QED
  BY <1>5, <1>7, <1>9, <1>10 DEF next

(* Where the routes of one service stand among the declarations. *)
PlacedFrom(ds, routes, c) ==
  /\ IsList(routes.routes) /\ c + Len(routes.routes) <= Len(ds)
  /\ \A i \in 1 .. Len(routes.routes) :
       ds[c + i] = [service |-> routes, route |-> routes.routes[i]]

(* Stopping for a backend that is missing is for a reason. *)
LEMMA MountRoutesKeeps ==
  ASSUME NEW acc, NEW b, NEW ds, NEW c \in Nat, AccOK(acc, b, ds, c), Len(ds) \in Nat,
         NEW routes, \E k \in DOMAIN b.mounted : b.mounted[k] = routes,
         PlacedFrom(ds, routes, c)
  PROVE  AccOK(MountRoutes(acc, b, routes), b, ds, c + Len(routes.routes))
<1> DEFINE n == Len(routes.routes)
<1>1. n \in Nat
  BY SeqFacts DEF PlacedFrom
<1>2. PICK f : RunOfMountRoutes(f, acc, b, routes)
  BY <1>1, MountRoutesRuns
<1>9. /\ f[0] = acc
      /\ \A m \in Nat : m + 1 <= n =>
           f[m + 1] = MountRoute(f[m], b, routes, routes.routes[m + 1])
      /\ ~Stopped(acc) /\ routes.service \in DOMAIN b.backends =>
           MountRoutes(acc, b, routes) = f[n]
  BY <1>2 DEF RunOfMountRoutes
<1> DEFINE next == MountRoutes(acc, b, routes)
<1>3. CASE Stopped(acc)
  <2>1. next = acc
    BY <1>3 DEF MountRoutes
  <2> HIDE DEF next
  <2>2. AccOK(next, b, ds, c + n)
    BY <1>3, <2>1 DEF Stopped, AccOK
  <2> QED
    BY <2>2 DEF next
<1>4. CASE ~Stopped(acc) /\ routes.service \notin DOMAIN b.backends
  <2>1. next = [table |-> acc.table,
                outcome |-> Outcome("error", "BackendNotRegistered", routes.service)]
    BY <1>4 DEF MountRoutes, Stop, AccOK
  <2> HIDE DEF next
  <2>2. /\ next.table = acc.table
        /\ next.outcome = Outcome("error", "BackendNotRegistered", routes.service)
    BY <2>1
  <2>3. BackendMissing(next.outcome, b)
    BY <1>4, <2>2 DEF BackendMissing, Outcome
  <2>4. next.outcome.result = "error"
    BY <2>2 DEF Outcome
  <2>5. StopOK(next, b, ds)
    BY <2>3, <2>4 DEF StopOK
  <2>6. next = [table |-> next.table, outcome |-> next.outcome]
    BY <2>1, <2>2
  <2>7. TableOK(next.table, b, ds)
    BY <2>2 DEF AccOK
  <2>8. AccOK(next, b, ds, c + n)
    BY <2>4, <2>5, <2>6, <2>7 DEF AccOK
  <2> QED
    BY <2>8 DEF next
<1>5. CASE ~Stopped(acc) /\ routes.service \in DOMAIN b.backends
  <2>1. next = f[n]
    BY <1>9, <1>5
  <2> DEFINE Good == {m \in Nat : m <= n => AccOK(f[m], b, ds, c + m)}
  <2> HIDE DEF next, n
  <2>2. 0 \in Good
    <3>1. c + 0 = c
      OBVIOUS
    <3> QED
      BY <1>9, <3>1
  <2>3. ASSUME NEW m \in Nat, m \in Good PROVE m + 1 \in Good
    <3>1. SUFFICES ASSUME m + 1 <= n PROVE AccOK(f[m + 1], b, ds, c + (m + 1))
      OBVIOUS
    <3>2. AccOK(f[m], b, ds, c + m)
      BY <1>1, <2>3, <3>1
    <3>3. f[m + 1] = MountRoute(f[m], b, routes, routes.routes[m + 1])
      BY <1>9, <3>1
    <3>4. c + m \in Nat /\ (c + m) + 1 <= Len(ds) /\ (c + m) + 1 = c + (m + 1)
      BY <1>1, <3>1 DEF PlacedFrom, n
    <3>5. ds[(c + m) + 1] = [service |-> routes, route |-> routes.routes[m + 1]]
      BY <1>1, <3>1, <3>4 DEF PlacedFrom, n
    <3>6. AccOK(MountRoute(f[m], b, routes, routes.routes[m + 1]), b, ds, (c + m) + 1)
      BY <1>5, <3>2, <3>4, <3>5, MountRouteKeeps
    <3> QED
      BY <3>3, <3>4, <3>6
  <2>4. \A m \in Nat : m \in Good => m + 1 \in Good
    BY <2>3
  <2> HIDE DEF Good
  <2>5. Nat \subseteq Good
    BY <2>2, <2>4, NoLeastBad
  <2>6. AccOK(f[n], b, ds, c + n)
    BY <1>1, <2>5 DEF Good
  <2> QED
    BY <2>1, <2>6 DEF next, n
<1> QED
  BY <1>3, <1>4, <1>5

(* Where the declarations of each mounted service start. *)
Placed(ds, mounted, at) ==
  /\ at[0] = 0 /\ at[Len(mounted)] = Len(ds)
  /\ \A k \in 1 .. Len(mounted) :
       /\ at[k - 1] \in Nat /\ at[k] = at[k - 1] + Len(mounted[k].routes)
       /\ PlacedFrom(ds, mounted[k], at[k - 1])

(* Mounting every service, from a builder without bad URLs. *)
LEMMA MountAllKeeps ==
  ASSUME NEW b, IsList(b.mounted), NEW ds, Len(ds) \in Nat, NEW at, Placed(ds, b.mounted, at)
  PROVE  AccOK(MountAll(b, Outcome("built", "none", "none")), b, ds, Len(ds))
<1> DEFINE n == Len(b.mounted)
           built == Outcome("built", "none", "none")
           first == [table |-> <<>>, outcome |-> built]
<1>1. n \in Nat /\ DOMAIN b.mounted = 1 .. n
  BY SeqFacts
<1>7. PICK f : RunOfMountAll(f, b, built)
  BY <1>1, MountAllRuns
<1>2. /\ f[0] = first
      /\ \A m \in Nat : m + 1 <= n =>
           f[m + 1] = MountRoutes(f[m], b, b.mounted[m + 1])
      /\ MountAll(b, built) = f[n]
  BY <1>7 DEF RunOfMountAll
<1> DEFINE Good == {m \in Nat : m <= n => AccOK(f[m], b, ds, at[m])}
<1>3. 0 \in Good
  <2>1. IsList(<<>>) /\ Len(<<>>) = 0
    BY EmptySeq DEF IsList
  <2>2. TableOK(<<>>, b, ds)
    BY <2>1 DEF TableOK
  <2>3. first.table = <<>> /\ first.outcome = built /\ built.result = "built"
    BY DEF Outcome
  <2>4. StopOK(first, b, ds)
    BY <2>3 DEF StopOK
  <2>5. first = [table |-> first.table, outcome |-> first.outcome]
    BY <2>3
  <2> HIDE DEF first, built
  <2>6. AccOK(first, b, ds, 0)
    BY <2>1, <2>2, <2>3, <2>4, <2>5 DEF AccOK
  <2> QED
    BY <1>2, <2>6 DEF Placed
<1>4. ASSUME NEW m \in Nat, m \in Good PROVE m + 1 \in Good
  <2>1. SUFFICES ASSUME m + 1 <= n PROVE AccOK(f[m + 1], b, ds, at[m + 1])
    OBVIOUS
  <2>2. AccOK(f[m], b, ds, at[m])
    BY <1>1, <1>4, <2>1
  <2>3. m + 1 \in DOMAIN b.mounted /\ m + 1 \in 1 .. Len(b.mounted) /\ (m + 1) - 1 = m
    BY <1>1, <2>1
  <2>4. /\ at[m] \in Nat /\ at[m + 1] = at[m] + Len(b.mounted[m + 1].routes)
        /\ PlacedFrom(ds, b.mounted[m + 1], at[m])
    BY <2>3 DEF Placed
  <2>5. AccOK(MountRoutes(f[m], b, b.mounted[m + 1]), b, ds, at[m] + Len(b.mounted[m + 1].routes))
    BY <2>2, <2>3, <2>4, MountRoutesKeeps
  <2>6. f[m + 1] = MountRoutes(f[m], b, b.mounted[m + 1])
    BY <1>2, <2>1
  <2> QED
    BY <2>4, <2>5, <2>6
<1>5. \A m \in Nat : m \in Good => m + 1 \in Good
  BY <1>4
<1> HIDE DEF Good
<1>6. Nat \subseteq Good
  BY <1>3, <1>5, NoLeastBad
<1>8. AccOK(f[n], b, ds, at[n])
  BY <1>1, <1>6 DEF Good
<1> QED
  BY <1>2, <1>8 DEF Placed

(* A builder with a bad URL mounts nothing. *)
LEMMA MountAllStopped ==
  ASSUME NEW b, IsList(b.mounted), NEW outcome, outcome.result # "built"
  PROVE  MountAll(b, outcome) = [table |-> <<>>, outcome |-> outcome]
<1> DEFINE n == Len(b.mounted)
           first == [table |-> <<>>, outcome |-> outcome]
<1>1. n \in Nat
  BY SeqFacts
<1>7. PICK f : RunOfMountAll(f, b, outcome)
  BY <1>1, MountAllRuns
<1>2. /\ f[0] = first
      /\ \A m \in Nat : m + 1 <= n =>
           f[m + 1] = MountRoutes(f[m], b, b.mounted[m + 1])
      /\ MountAll(b, outcome) = f[n]
  BY <1>7 DEF RunOfMountAll
<1> DEFINE Good == {m \in Nat : m <= n => f[m] = first}
<1>3. 0 \in Good
  BY <1>2
<1>4. ASSUME NEW m \in Nat, m \in Good PROVE m + 1 \in Good
  <2>1. SUFFICES ASSUME m + 1 <= n PROVE f[m + 1] = first
    OBVIOUS
  <2>2. f[m] = first
    BY <1>1, <1>4, <2>1
  <2>3. f[m + 1] = MountRoutes(first, b, b.mounted[m + 1])
    BY <1>2, <2>1, <2>2
  <2>4. Stopped(first)
    BY DEF Stopped
  <2> HIDE DEF first
  <2> QED
    BY <2>3, <2>4 DEF MountRoutes
<1>5. \A m \in Nat : m \in Good => m + 1 \in Good
  BY <1>4
<1> HIDE DEF Good
<1>6. Nat \subseteq Good
  BY <1>3, <1>5, NoLeastBad
<1> QED
  BY <1>1, <1>2, <1>6 DEF Good

-----------------------------------------------------------------------------
(***************************************************************************)
(* The loop of jump_consistent_hash.                                       *)
(***************************************************************************)

(* The loop's variables are in their ranges. *)
LoopType(s) ==
  /\ s = [key |-> s.key, b |-> s.b, j |-> s.j]
  /\ s.key \in 0 .. Word - 1 /\ s.b \in Int /\ s.j \in Nat

(* key >> 33 is below 2^31. *)
LEMMA HighBitsBelowTop ==
  ASSUME NEW key \in 0 .. Word - 1
  PROVE  HighBits(key) \in 0 .. Top - 1
<1> DEFINE w == Word \div Top
<1>1. w \in Nat /\ Word = Top * w
  BY HashAssumption
<1> HIDE DEF w
<1>2. w # 0
  BY <1>1, HashAssumption
<1>3. key < w * Top
  BY <1>1, HashAssumption
<1>4. key \div w < Top
  BY <1>1, <1>2, <1>3, QuotientBelow, HashAssumption
<1>5. key \div w \in Nat
  BY <1>1, <1>2, Truncation
<1>6. QED
  BY <1>4, <1>5, HashAssumption DEF HighBits, w

(* The mixed key is a word again. *)
LEMMA MixedInWord ==
  ASSUME NEW key \in 0 .. Word - 1
  PROVE  Mixed(key) \in 0 .. Word - 1
<1>1. key * Multiplier + 1 \in Nat
  BY HashAssumption
<1>2. QED
  BY <1>1, HashAssumption DEF Mixed

(* One turn makes the old j the bucket, and draws a larger one. *)
LEMMA TurnAdvances ==
  ASSUME NEW s, LoopType(s)
  PROVE  /\ LoopType(JumpStep(s))
         /\ JumpStep(s).b = s.j
         /\ JumpStep(s).j > s.j
<1> DEFINE key == Mixed(s.key)
           d   == HighBits(key) + 1
           n   == (s.j + 1) * Top
           j   == n \div d
<1>1. key \in 0 .. Word - 1
  BY MixedInWord DEF LoopType
<1>2. d \in 1 .. Top
  BY <1>1, HighBitsBelowTop, HashAssumption
<1>3. JumpStep(s) = [key |-> key, b |-> s.j, j |-> j]
  BY DEF JumpStep
<1> HIDE DEF key, d
<1>4. n \in Nat /\ d * (s.j + 1) <= n
  BY <1>2, HashAssumption DEF LoopType
<1> HIDE DEF n
<1>5. d \in Nat \ {0} /\ s.j + 1 \in Nat
  BY <1>2, HashAssumption DEF LoopType
<1>6. j >= s.j + 1
  BY <1>4, <1>5, QuotientAtLeast
<1>7. j \in Nat
  BY <1>4, <1>5, Truncation
<1>8. QED
  BY <1>1, <1>3, <1>6, <1>7 DEF LoopType

(* What the recursive function inside JumpOf is. *)
RunsJumps(f, hash, buckets, n) ==
  f = [k \in 0 .. n |->
         IF k = 0 THEN NewJump(hash)
         ELSE IF Jumping(f[k - 1], buckets) THEN JumpStep(f[k - 1]) ELSE f[k - 1]]

(* The recursion of JumpOf defines a function. *)
LEMMA JumpsAreDefined ==
  ASSUME NEW hash, NEW buckets, NEW n \in Nat
  PROVE  \E f : RunsJumps(f, hash, buckets, n)
<1> DEFINE Good == {m \in Nat : \E f : RunsJumps(f, hash, buckets, m)}
<1>1. 0 \in Good
  <2>1. RunsJumps([k \in 0 .. 0 |-> NewJump(hash)], hash, buckets, 0)
    BY DEF RunsJumps
  <2> QED
    BY <2>1
<1>2. ASSUME NEW m \in Nat, m \in Good PROVE m + 1 \in Good
  <2>1. PICK f : RunsJumps(f, hash, buckets, m)
    BY <1>2
  <2>2. f = [k \in 0 .. m |->
               IF k = 0 THEN NewJump(hash)
               ELSE IF Jumping(f[k - 1], buckets) THEN JumpStep(f[k - 1]) ELSE f[k - 1]]
    BY <2>1 DEF RunsJumps
  <2> DEFINE h == [k \in 0 .. m + 1 |->
                     IF k = m + 1 THEN IF Jumping(f[m], buckets) THEN JumpStep(f[m]) ELSE f[m]
                     ELSE f[k]]
  <2>3. \A k \in 0 .. m + 1 : h[k] =
          IF k = 0 THEN NewJump(hash)
          ELSE IF Jumping(h[k - 1], buckets) THEN JumpStep(h[k - 1]) ELSE h[k - 1]
    <3>1. SUFFICES ASSUME NEW k \in 0 .. m + 1
                   PROVE  h[k] =
                            IF k = 0 THEN NewJump(hash)
                            ELSE IF Jumping(h[k - 1], buckets) THEN JumpStep(h[k - 1]) ELSE h[k - 1]
      OBVIOUS
    <3>2. CASE k = m + 1
      BY <3>2
    <3>3. CASE k # m + 1
      <4>1. k \in 0 .. m /\ h[k] = f[k] /\ (k # 0 => h[k - 1] = f[k - 1])
        BY <3>3
      <4>2. f[k] = IF k = 0 THEN NewJump(hash)
                   ELSE IF Jumping(f[k - 1], buckets) THEN JumpStep(f[k - 1]) ELSE f[k - 1]
        BY <2>2, <4>1
      <4> QED
        BY <4>1, <4>2
    <3> QED
      BY <3>2, <3>3
  <2>4. RunsJumps(h, hash, buckets, m + 1)
    BY <2>3 DEF RunsJumps
  <2> HIDE DEF h
  <2> QED
    BY <2>4
<1>3. \A m \in Nat : m \in Good => m + 1 \in Good
  BY <1>2
<1> HIDE DEF Good
<1>4. Nat \subseteq Good
  BY <1>1, <1>3, NoLeastBad
<1> QED
  BY <1>4 DEF Good

(* The loop with some number of backends, turn by turn. *)
JumpRun(hash, buckets) == CHOOSE f : RunsJumps(f, hash, buckets, buckets)

(* The jump hash is where the run ends. *)
LEMMA JumpOfIsTheRunsEnd ==
  ASSUME NEW hash, NEW buckets
  PROVE  JumpOf(hash, buckets) = JumpRun(hash, buckets)[buckets].b
BY DEF JumpOf, JumpRun, RunsJumps

(* What the loop does from turn to turn. *)
LEMMA JumpRuns ==
  ASSUME NEW hash, NEW buckets \in Nat
  PROVE  /\ JumpRun(hash, buckets)[0] = NewJump(hash)
         /\ \A m \in Nat : m + 1 <= buckets =>
              JumpRun(hash, buckets)[m + 1] =
                IF Jumping(JumpRun(hash, buckets)[m], buckets)
                THEN JumpStep(JumpRun(hash, buckets)[m]) ELSE JumpRun(hash, buckets)[m]
<1> DEFINE f == JumpRun(hash, buckets)
<1>1. RunsJumps(f, hash, buckets, buckets)
  BY JumpsAreDefined DEF JumpRun
<1> HIDE DEF f
<1>2. \A k \in 0 .. buckets :
        f[k] = IF k = 0 THEN NewJump(hash)
               ELSE IF Jumping(f[k - 1], buckets) THEN JumpStep(f[k - 1]) ELSE f[k - 1]
  BY <1>1 DEF RunsJumps
<1>3. f[0] = NewJump(hash)
  BY <1>2
<1>4. ASSUME NEW m \in Nat, m + 1 <= buckets
      PROVE  f[m + 1] = IF Jumping(f[m], buckets) THEN JumpStep(f[m]) ELSE f[m]
  <2>1. m + 1 \in 0 .. buckets /\ m + 1 # 0 /\ (m + 1) - 1 = m
    BY <1>4
  <2> QED
    BY <1>2, <2>1
<1> QED
  BY <1>3, <1>4 DEF f

(* A loop that has not made a turn yet is at its start. *)
Started(s) == LoopType(s) /\ s.b < s.j /\ s.b >= -1 /\ (s.b = -1 => s.j = 0)

(* A turn keeps that. *)
LEMMA TurnStarted ==
  ASSUME NEW s, Started(s)
  PROVE  Started(JumpStep(s)) /\ JumpStep(s).b = s.j /\ JumpStep(s).j > s.j
<1>1. LoopType(s)
  BY DEF Started
<1> DEFINE t == JumpStep(s)
<1>2. LoopType(t) /\ t.b = s.j /\ t.j > s.j
  BY <1>1, TurnAdvances
<1> HIDE DEF t
<1>3. s.j \in Nat
  BY <1>1 DEF LoopType
<1>4. Started(t)
  BY <1>2, <1>3 DEF Started
<1> QED
  BY <1>2, <1>4 DEF t

(* A new loop has not made a turn. *)
LEMMA NewJumpStarted ==
  ASSUME NEW key \in 0 .. Word - 1
  PROVE  Started(NewJump(key))
<1>1. NewJump(key) = [key |-> key, b |-> -1, j |-> 0]
  BY DEF NewJump
<1> DEFINE s == NewJump(key)
<1> HIDE DEF s
<1>2. s.key = key /\ s.b = -1 /\ s.j = 0 /\ s = [key |-> s.key, b |-> s.b, j |-> s.j]
  BY <1>1 DEF s
<1>3. Started(s)
  BY <1>2 DEF Started, LoopType
<1> QED
  BY <1>3 DEF s

(* Every turn of the run is a turn of the loop, or comes after its end.    *)
LEMMA RunAdvances ==
  ASSUME NEW hash \in 0 .. Word - 1, NEW n \in Nat, NEW k \in Nat, k <= n
  PROVE  /\ Started(JumpRun(hash, n)[k])
         /\ JumpRun(hash, n)[k].b < n
         /\ JumpRun(hash, n)[k].j >= k \/ JumpRun(hash, n)[k].j >= n
<1> DEFINE f == JumpRun(hash, n)
           Fine(m) == Started(f[m]) /\ f[m].b < n /\ (f[m].j >= m \/ f[m].j >= n)
           Good == {m \in Nat : m <= n => Fine(m)}
<1>1. f[0] = NewJump(hash)
  BY JumpRuns
<1>2. \A m \in Nat : m + 1 <= n =>
        f[m + 1] = IF Jumping(f[m], n) THEN JumpStep(f[m]) ELSE f[m]
  BY JumpRuns, Zenon
<1> HIDE DEF f
<1>3. 0 \in Good
  <2>1. Started(f[0])
    BY <1>1, NewJumpStarted
  <2>2. f[0].b = -1 /\ f[0].j = 0
    BY <1>1 DEF NewJump
  <2> QED
    BY <2>1, <2>2
<1>4. ASSUME NEW m \in Nat, m \in Good PROVE m + 1 \in Good
  <2>1. SUFFICES ASSUME m + 1 <= n PROVE Fine(m + 1)
    OBVIOUS
  <2>2. Fine(m) /\ f[m].j \in Nat
    BY <1>4, <2>1 DEF Started, LoopType
  <2>3. CASE Jumping(f[m], n)
    <3>1. f[m + 1] = JumpStep(f[m])
      BY <1>2, <2>1, <2>3
    <3>2. Started(f[m + 1]) /\ f[m + 1].b = f[m].j /\ f[m + 1].j > f[m].j
      BY <2>2, <3>1, TurnStarted
    <3>3. f[m + 1].j \in Nat /\ f[m].j < n
      BY <2>3, <3>2 DEF Started, LoopType, Jumping
    <3> QED
      BY <2>2, <3>2, <3>3
  <2>4. CASE ~Jumping(f[m], n)
    <3>1. f[m + 1] = f[m]
      BY <1>2, <2>1, <2>4
    <3>2. f[m].j >= n
      BY <2>2, <2>4 DEF Jumping
    <3> QED
      BY <2>2, <3>1, <3>2
  <2> QED
    BY <2>3, <2>4
<1>5. \A m \in Nat : m \in Good => m + 1 \in Good
  BY <1>4
<1>6. Nat \subseteq Good
  <2> HIDE DEF Good
  <2> QED
    BY <1>3, <1>5, NoLeastBad
<1> QED
  BY <1>6 DEF f

(* A run that has ended stays at its end. *)
LEMMA RunEnds ==
  ASSUME NEW hash \in 0 .. Word - 1, NEW n \in Nat, NEW k \in Nat, k <= n,
         JumpRun(hash, n)[k].j >= n
  PROVE  JumpOf(hash, n) = JumpRun(hash, n)[k].b
<1> DEFINE f == JumpRun(hash, n)
           Good == {m \in Nat : k + m <= n => f[k + m] = f[k]}
<1>1. \A m \in Nat : m + 1 <= n =>
        f[m + 1] = IF Jumping(f[m], n) THEN JumpStep(f[m]) ELSE f[m]
  BY JumpRuns, Zenon
<1>2. Started(f[k]) /\ JumpOf(hash, n) = f[n].b
  BY RunAdvances, JumpOfIsTheRunsEnd
<1>3. f[k].j >= n
  OBVIOUS
<1> HIDE DEF f
<1>4. 0 \in Good
  OBVIOUS
<1>5. ASSUME NEW m \in Nat, m \in Good PROVE m + 1 \in Good
  <2>1. SUFFICES ASSUME k + (m + 1) <= n PROVE f[k + (m + 1)] = f[k]
    OBVIOUS
  <2>2. f[k + m] = f[k]
    BY <1>5, <2>1
  <2>3. k + m \in Nat /\ (k + m) + 1 <= n /\ (k + m) + 1 = k + (m + 1)
    BY <2>1
  <2>4. ~Jumping(f[k], n)
    BY <1>2, <1>3 DEF Started, LoopType, Jumping
  <2>5. f[(k + m) + 1] = f[k]
    BY <1>1, <2>2, <2>3, <2>4
  <2> QED
    BY <2>3, <2>5
<1>6. \A m \in Nat : m \in Good => m + 1 \in Good
  BY <1>5
<1>7. Nat \subseteq Good
  <2> HIDE DEF Good
  <2> QED
    BY <1>4, <1>6, NoLeastBad
<1>8. n - k \in Nat /\ k + (n - k) = n
  OBVIOUS
<1>9. f[k + (n - k)] = f[k]
  BY <1>7, <1>8
<1> QED
  BY <1>2, <1>8, <1>9 DEF f

(* The loop over n backends, as the loop over one less sees it: they are   *)
(* one until the last backend is passed.                                   *)
LoopOK(s, hash, n) ==
  /\ Started(s) /\ s.b < n
  /\ s.b = n - 1 \/ \E k \in Nat : k <= n - 1 /\ s = JumpRun(hash, n - 1)[k]

(* A new loop is that of both. *)
LEMMA LoopStarts ==
  ASSUME NEW hash \in 0 .. Word - 1, NEW n \in Nat \ {0}
  PROVE  LoopOK(NewJump(hash), hash, n)
<1>1. Started(NewJump(hash)) /\ NewJump(hash).b = -1
  BY NewJumpStarted DEF NewJump
<1>2. n - 1 \in Nat
  OBVIOUS
<1>3. JumpRun(hash, n - 1)[0] = NewJump(hash)
  BY <1>2, JumpRuns
<1> QED
  BY <1>1, <1>2, <1>3 DEF LoopOK

(* A turn keeps it one, or passes the last backend. *)
LEMMA LoopTurns ==
  ASSUME NEW hash \in 0 .. Word - 1, NEW n \in Nat \ {0}, NEW s, LoopOK(s, hash, n),
         Jumping(s, n)
  PROVE  LoopOK(JumpStep(s), hash, n)
<1> DEFINE t == JumpStep(s)
<1>1. Started(s) /\ s.j \in Nat /\ s.b \in Int /\ s.j < n
  BY DEF LoopOK, Started, LoopType, Jumping
<1>2. Started(t) /\ t.b = s.j /\ t.j > s.j
  BY <1>1, TurnStarted
<1>3. t = JumpStep(s)
  OBVIOUS
<1> HIDE DEF t
<1>4. CASE s.j = n - 1
  <2>1. LoopOK(t, hash, n)
    BY <1>1, <1>2, <1>4 DEF LoopOK
  <2> QED
    BY <2>1 DEF t
<1>5. CASE s.j # n - 1
  <2>1. s.b # n - 1 /\ s.j < n - 1
    BY <1>1, <1>5 DEF Started
  <2>2. PICK k \in Nat : k <= n - 1 /\ s = JumpRun(hash, n - 1)[k]
    BY <2>1 DEF LoopOK
  <2>3. n - 1 \in Nat
    OBVIOUS
  <2>4. JumpRun(hash, n - 1)[k].j >= k \/ JumpRun(hash, n - 1)[k].j >= n - 1
    BY <2>2, <2>3, RunAdvances
  <2>5. k + 1 <= n - 1
    BY <1>1, <2>1, <2>2, <2>4
  <2>6. Jumping(s, n - 1)
    BY <2>1 DEF Jumping
  <2>7. JumpRun(hash, n - 1)[k + 1] = t
    BY <1>3, <2>2, <2>3, <2>5, <2>6, JumpRuns
  <2>8. k + 1 \in Nat
    OBVIOUS
  <2>9. LoopOK(t, hash, n)
    BY <1>1, <1>2, <2>5, <2>7, <2>8 DEF LoopOK
  <2> QED
    BY <2>9 DEF t
<1> QED
  BY <1>4, <1>5

(* A loop that ends has picked the last backend, or the one picked without *)
(* it.                                                                     *)
LEMMA LoopEnds ==
  ASSUME NEW hash \in 0 .. Word - 1, NEW n \in Nat \ {0}, NEW s, LoopOK(s, hash, n),
         ~Jumping(s, n)
  PROVE  s.b \in 0 .. n - 1 /\ s.b \in {n - 1, JumpOf(hash, n - 1)}
<1>1. Started(s) /\ s.j \in Nat /\ s.b \in Int /\ s.j >= n
  BY DEF LoopOK, Started, LoopType, Jumping
<1>2. s.b \in 0 .. n - 1
  BY <1>1 DEF LoopOK, Started
<1>3. CASE s.b = n - 1
  BY <1>2, <1>3
<1>4. CASE s.b # n - 1
  <2>1. PICK k \in Nat : k <= n - 1 /\ s = JumpRun(hash, n - 1)[k]
    BY <1>4 DEF LoopOK
  <2>2. n - 1 \in Nat /\ s.j >= n - 1
    BY <1>1
  <2>3. JumpOf(hash, n - 1) = s.b
    BY <2>1, <2>2, RunEnds
  <2> QED
    BY <1>2, <2>3
<1> QED
  BY <1>3, <1>4

(* A key goes to one of the backends; with one more at the end of the pool *)
(* it goes where it went, or to the new one (consistent_hash.rs).          *)
THEOREM AddingABackendMovesKeysToItOnly ==
  ASSUME NEW hash \in 0 .. Word - 1, NEW n \in Nat \ {0}
  PROVE  /\ JumpOf(hash, n) \in 0 .. n - 1
         /\ JumpOf(hash, n + 1) \in {n, JumpOf(hash, n)}
<1>1. ASSUME NEW m \in Nat \ {0}
      PROVE  JumpOf(hash, m) \in 0 .. m - 1 /\ JumpOf(hash, m) \in {m - 1, JumpOf(hash, m - 1)}
  <2> DEFINE f == JumpRun(hash, m)
             Good == {k \in Nat : k <= m => LoopOK(f[k], hash, m)}
  <2>1. f[0] = NewJump(hash)
    BY JumpRuns
  <2>2. \A k \in Nat : k + 1 <= m =>
          f[k + 1] = IF Jumping(f[k], m) THEN JumpStep(f[k]) ELSE f[k]
    BY JumpRuns, Zenon
  <2>3. Started(f[m]) /\ (f[m].j >= m \/ f[m].j >= m)
    BY RunAdvances
  <2>4. JumpOf(hash, m) = f[m].b
    BY JumpOfIsTheRunsEnd
  <2> HIDE DEF f
  <2>5. 0 \in Good
    BY <2>1, LoopStarts
  <2>6. ASSUME NEW k \in Nat, k \in Good PROVE k + 1 \in Good
    <3>1. SUFFICES ASSUME k + 1 <= m PROVE LoopOK(f[k + 1], hash, m)
      OBVIOUS
    <3>2. LoopOK(f[k], hash, m)
      BY <2>6, <3>1
    <3>3. CASE Jumping(f[k], m)
      BY <2>2, <3>1, <3>2, <3>3, LoopTurns
    <3>4. CASE ~Jumping(f[k], m)
      BY <2>2, <3>1, <3>2, <3>4
    <3> QED
      BY <3>3, <3>4
  <2>7. \A k \in Nat : k \in Good => k + 1 \in Good
    BY <2>6
  <2>8. Nat \subseteq Good
    <3> HIDE DEF Good
    <3> QED
      BY <2>5, <2>7, NoLeastBad
  <2>9. LoopOK(f[m], hash, m)
    BY <2>8
  <2>10. ~Jumping(f[m], m)
    BY <2>3 DEF Started, LoopType, Jumping
  <2> QED
    BY <2>4, <2>9, <2>10, LoopEnds
<1>2. n + 1 \in Nat \ {0} /\ (n + 1) - 1 = n
  OBVIOUS
<1>3. JumpOf(hash, n + 1) \in {(n + 1) - 1, JumpOf(hash, (n + 1) - 1)}
  BY <1>1, <1>2
<1> QED
  BY <1>1, <1>2, <1>3

(* The loop of jump_consistent_hash advances at every turn, whatever the   *)
(* key: no key can keep a request in `pick` for ever.                      *)
THEOREM TheLoopAdvances ==
  ASSUME NEW hash \in 0 .. Word - 1, NEW n \in Nat, NEW k \in Nat, k + 1 <= n,
         Jumping(JumpRun(hash, n)[k], n)
  PROVE  JumpRun(hash, n)[k + 1].j > JumpRun(hash, n)[k].j
<1>1. Started(JumpRun(hash, n)[k])
  BY RunAdvances
<1>2. JumpRun(hash, n)[k + 1] = JumpStep(JumpRun(hash, n)[k])
  BY JumpRuns
<1> QED
  BY <1>1, <1>2, TurnStarted

-----------------------------------------------------------------------------
(***************************************************************************)
(* The texts of paths: a recursive function of the path is run to its end, *)
(* and grows as the text does.                                             *)
(***************************************************************************)

(* What holds of the empty list, and of every list that is one longer,     *)
(* holds of all lists.                                                     *)
LEMMA ListInduction ==
  ASSUME NEW S, NEW Good, <<>> \in Good,
         \A s \in Seq(S) : \A e \in S : s \in Good => Append(s, e) \in Good
  PROVE  Seq(S) \subseteq Good
<1> DEFINE Long == {n \in Nat : \A s \in Seq(S) : Len(s) = n => s \in Good}
<1>1. 0 \in Long
  <2>1. ASSUME NEW s \in Seq(S), Len(s) = 0 PROVE s \in Good
    BY <2>1, EmptySeq
  <2> QED
    BY <2>1
<1>2. ASSUME NEW n \in Nat, n \in Long PROVE n + 1 \in Long
  <2>1. SUFFICES ASSUME NEW s \in Seq(S), Len(s) = n + 1 PROVE s \in Good
    OBVIOUS
  <2>2. s # <<>>
    BY <2>1, EmptySeq
  <2>3. PICK r \in Seq(S), e \in S : s = Append(r, e)
    BY <2>2, SequenceEmptyOrAppend
  <2>4. Len(r) = n
    BY <2>1, <2>3, AppendProperties, LenProperties
  <2> QED
    BY <1>2, <2>3, <2>4
<1>3. \A n \in Nat : n \in Long => n + 1 \in Long
  BY <1>2
<1> HIDE DEF Long
<1>4. Nat \subseteq Long
  BY <1>1, <1>3, NoLeastBad
<1> QED
  BY <1>4, LenProperties DEF Long

(* What the recursive function inside Pieces is. *)
Splits(f, text, n) ==
  f = [k \in 0 .. n |->
         IF k = 0 THEN <<<<>>>> ELSE PieceStep(f[k - 1], text[k])]

(* The recursion of Pieces defines a function. *)
LEMMA PiecesAreDefined ==
  ASSUME NEW text, NEW n \in Nat
  PROVE  \E f : Splits(f, text, n)
<1> DEFINE Good == {m \in Nat : \E f : Splits(f, text, m)}
<1>1. 0 \in Good
  <2>1. Splits([k \in 0 .. 0 |-> <<<<>>>>], text, 0)
    BY DEF Splits
  <2> QED
    BY <2>1
<1>2. ASSUME NEW m \in Nat, m \in Good PROVE m + 1 \in Good
  <2>1. PICK f : Splits(f, text, m)
    BY <1>2
  <2>2. f = [k \in 0 .. m |->
               IF k = 0 THEN <<<<>>>> ELSE PieceStep(f[k - 1], text[k])]
    BY <2>1 DEF Splits
  <2> DEFINE h == [k \in 0 .. m + 1 |->
                     IF k = m + 1 THEN PieceStep(f[m], text[m + 1]) ELSE f[k]]
  <2>3. \A k \in 0 .. m + 1 : h[k] =
          IF k = 0 THEN <<<<>>>> ELSE PieceStep(h[k - 1], text[k])
    <3>1. SUFFICES ASSUME NEW k \in 0 .. m + 1
                   PROVE  h[k] =
                            IF k = 0 THEN <<<<>>>> ELSE PieceStep(h[k - 1], text[k])
      OBVIOUS
    <3>2. CASE k = m + 1
      BY <3>2
    <3>3. CASE k # m + 1
      <4>1. k \in 0 .. m /\ h[k] = f[k] /\ (k # 0 => h[k - 1] = f[k - 1])
        BY <3>3
      <4>2. f[k] = IF k = 0 THEN <<<<>>>> ELSE PieceStep(f[k - 1], text[k])
        BY <2>2, <4>1
      <4> QED
        BY <4>1, <4>2
    <3> QED
      BY <3>2, <3>3
  <2>4. Splits(h, text, m + 1)
    BY <2>3 DEF Splits
  <2> HIDE DEF h
  <2> QED
    BY <2>4
<1>3. \A m \in Nat : m \in Good => m + 1 \in Good
  BY <1>2
<1> HIDE DEF Good
<1>4. Nat \subseteq Good
  BY <1>1, <1>3, NoLeastBad
<1> QED
  BY <1>4 DEF Good

(* What f does along that recursion. *)
RunOfPieces(f, text) ==
  /\ f[0] = <<<<>>>>
  /\ \A m \in Nat : m + 1 <= Len(text) =>
       f[m + 1] = PieceStep(f[m], text[m + 1])
  /\ Pieces(text) = f[Len(text)]

(* Pieces runs its recursion to the end. *)
LEMMA PiecesRun ==
  ASSUME NEW text, Len(text) \in Nat
  PROVE  \E f : RunOfPieces(f, text)
<1> DEFINE n == Len(text)
           f == CHOOSE g : Splits(g, text, n)
<1>1. Pieces(text) = f[n]
  BY DEF Pieces, Splits
<1>2. n \in Nat
  OBVIOUS
<1>3. n = Len(text)
  OBVIOUS
<1> HIDE DEF n
<1>4. Splits(f, text, n)
  BY <1>2, PiecesAreDefined
<1> HIDE DEF f
<1>5. \A k \in 0 .. n : f[k] = IF k = 0 THEN <<<<>>>> ELSE PieceStep(f[k - 1], text[k])
  BY <1>4 DEF Splits
<1>6. f[0] = <<<<>>>>
  <2>1. 0 \in 0 .. n
    BY <1>2
  <2> QED
    BY <1>5, <2>1, Zenon
<1>7. ASSUME NEW m \in Nat, m + 1 <= n
      PROVE  f[m + 1] = PieceStep(f[m], text[m + 1])
  <2>1. m + 1 \in 0 .. n /\ m + 1 # 0 /\ (m + 1) - 1 = m
    BY <1>2, <1>7
  <2> QED
    BY <1>5, <2>1
<1>8. RunOfPieces(f, text)
  BY <1>1, <1>3, <1>6, <1>7 DEF RunOfPieces
<1> QED
  BY <1>8

(* What the recursive function inside Flatten is. *)
Flattens(f, ss, n) ==
  f = [k \in 0 .. n |->
         IF k = 0 THEN <<>> ELSE f[k - 1] \o ss[k]]

(* The recursion of Flatten defines a function. *)
LEMMA FlattenIsDefined ==
  ASSUME NEW ss, NEW n \in Nat
  PROVE  \E f : Flattens(f, ss, n)
<1> DEFINE Good == {m \in Nat : \E f : Flattens(f, ss, m)}
<1>1. 0 \in Good
  <2>1. Flattens([k \in 0 .. 0 |-> <<>>], ss, 0)
    BY DEF Flattens
  <2> QED
    BY <2>1
<1>2. ASSUME NEW m \in Nat, m \in Good PROVE m + 1 \in Good
  <2>1. PICK f : Flattens(f, ss, m)
    BY <1>2
  <2>2. f = [k \in 0 .. m |->
               IF k = 0 THEN <<>> ELSE f[k - 1] \o ss[k]]
    BY <2>1 DEF Flattens
  <2> DEFINE h == [k \in 0 .. m + 1 |->
                     IF k = m + 1 THEN f[m] \o ss[m + 1] ELSE f[k]]
  <2>3. \A k \in 0 .. m + 1 : h[k] =
          IF k = 0 THEN <<>> ELSE h[k - 1] \o ss[k]
    <3>1. SUFFICES ASSUME NEW k \in 0 .. m + 1
                   PROVE  h[k] =
                            IF k = 0 THEN <<>> ELSE h[k - 1] \o ss[k]
      OBVIOUS
    <3>2. CASE k = m + 1
      <4>1. h[k] = f[m] \o ss[k]
        BY <3>2
      <4>2. k # 0 /\ k - 1 \in 0 .. m + 1 /\ k - 1 # m + 1 /\ k - 1 = m
        BY <3>2
      <4>3. h[k - 1] = f[m]
        BY <4>2
      <4> HIDE DEF h
      <4> QED
        BY <4>1, <4>2, <4>3
    <3>3. CASE k # m + 1
      <4>1. k \in 0 .. m /\ h[k] = f[k] /\ (k # 0 => h[k - 1] = f[k - 1])
        BY <3>3
      <4>2. f[k] = IF k = 0 THEN <<>> ELSE f[k - 1] \o ss[k]
        BY <2>2, <4>1
      <4> QED
        BY <4>1, <4>2
    <3> QED
      BY <3>2, <3>3
  <2>4. Flattens(h, ss, m + 1)
    BY <2>3 DEF Flattens
  <2> HIDE DEF h
  <2> QED
    BY <2>4
<1>3. \A m \in Nat : m \in Good => m + 1 \in Good
  BY <1>2
<1> HIDE DEF Good
<1>4. Nat \subseteq Good
  BY <1>1, <1>3, NoLeastBad
<1> QED
  BY <1>4 DEF Good

(* What f does along that recursion. *)
RunOfFlatten(f, ss) ==
  /\ f[0] = <<>>
  /\ \A m \in Nat : m + 1 <= Len(ss) =>
       f[m + 1] = f[m] \o ss[m + 1]
  /\ Flatten(ss) = f[Len(ss)]

(* Flatten runs its recursion to the end. *)
LEMMA FlattenRuns ==
  ASSUME NEW ss, Len(ss) \in Nat
  PROVE  \E f : RunOfFlatten(f, ss)
<1> DEFINE n == Len(ss)
           f == CHOOSE g : Flattens(g, ss, n)
<1>1. Flatten(ss) = f[n]
  BY DEF Flatten, Flattens
<1>2. n \in Nat
  OBVIOUS
<1>3. n = Len(ss)
  OBVIOUS
<1> HIDE DEF n
<1>4. Flattens(f, ss, n)
  BY <1>2, FlattenIsDefined
<1> HIDE DEF f
<1>5. \A k \in 0 .. n : f[k] = IF k = 0 THEN <<>> ELSE f[k - 1] \o ss[k]
  BY <1>4 DEF Flattens
<1>6. f[0] = <<>>
  <2>1. 0 \in 0 .. n
    BY <1>2
  <2> QED
    BY <1>5, <2>1, Zenon
<1>7. ASSUME NEW m \in Nat, m + 1 <= n
      PROVE  f[m + 1] = f[m] \o ss[m + 1]
  <2>1. m + 1 \in 0 .. n /\ m + 1 # 0 /\ (m + 1) - 1 = m
    BY <1>2, <1>7
  <2> QED
    BY <1>5, <2>1
<1>8. RunOfFlatten(f, ss)
  BY <1>1, <1>3, <1>6, <1>7 DEF RunOfFlatten
<1> QED
  BY <1>8

(* What the recursive function inside InOrder is. *)
ListsInOrder(f, S, n) ==
  f = [k \in 0 .. n |->
         IF k = 0 THEN <<>> ELSE IF k \in S THEN Append(f[k - 1], k) ELSE f[k - 1]]

(* The recursion of InOrder defines a function. *)
LEMMA InOrderIsDefined ==
  ASSUME NEW S, NEW n \in Nat
  PROVE  \E f : ListsInOrder(f, S, n)
<1> DEFINE Good == {m \in Nat : \E f : ListsInOrder(f, S, m)}
<1>1. 0 \in Good
  <2>1. ListsInOrder([k \in 0 .. 0 |-> <<>>], S, 0)
    BY DEF ListsInOrder
  <2> QED
    BY <2>1
<1>2. ASSUME NEW m \in Nat, m \in Good PROVE m + 1 \in Good
  <2>1. PICK f : ListsInOrder(f, S, m)
    BY <1>2
  <2>2. f = [k \in 0 .. m |->
               IF k = 0 THEN <<>> ELSE IF k \in S THEN Append(f[k - 1], k) ELSE f[k - 1]]
    BY <2>1 DEF ListsInOrder
  <2> DEFINE h == [k \in 0 .. m + 1 |->
                     IF k = m + 1 THEN IF m + 1 \in S THEN Append(f[m], m + 1) ELSE f[m] ELSE f[k]]
  <2>3. \A k \in 0 .. m + 1 : h[k] =
          IF k = 0 THEN <<>> ELSE IF k \in S THEN Append(h[k - 1], k) ELSE h[k - 1]
    <3>1. SUFFICES ASSUME NEW k \in 0 .. m + 1
                   PROVE  h[k] =
                            IF k = 0 THEN <<>>
                            ELSE IF k \in S THEN Append(h[k - 1], k) ELSE h[k - 1]
      OBVIOUS
    <3>2. CASE k = m + 1
      BY <3>2
    <3>3. CASE k # m + 1
      <4>1. k \in 0 .. m /\ h[k] = f[k] /\ (k # 0 => h[k - 1] = f[k - 1])
        BY <3>3
      <4>2. f[k] = IF k = 0 THEN <<>> ELSE IF k \in S THEN Append(f[k - 1], k) ELSE f[k - 1]
        BY <2>2, <4>1
      <4> QED
        BY <4>1, <4>2
    <3> QED
      BY <3>2, <3>3
  <2>4. ListsInOrder(h, S, m + 1)
    BY <2>3 DEF ListsInOrder
  <2> HIDE DEF h
  <2> QED
    BY <2>4
<1>3. \A m \in Nat : m \in Good => m + 1 \in Good
  BY <1>2
<1> HIDE DEF Good
<1>4. Nat \subseteq Good
  BY <1>1, <1>3, NoLeastBad
<1> QED
  BY <1>4 DEF Good

(* What f does along that recursion. *)
RunOfInOrder(f, S, n) ==
  /\ f[0] = <<>>
  /\ \A m \in Nat : m + 1 <= n =>
       f[m + 1] = IF m + 1 \in S THEN Append(f[m], m + 1) ELSE f[m]
  /\ InOrder(S, n) = f[n]

(* InOrder runs its recursion to the end. *)
LEMMA InOrderRuns ==
  ASSUME NEW S, NEW n \in Nat
  PROVE  \E f : RunOfInOrder(f, S, n)
<1> DEFINE f == CHOOSE g : ListsInOrder(g, S, n)
<1>1. InOrder(S, n) = f[n]
  BY DEF InOrder, ListsInOrder
<1>2. n \in Nat
  OBVIOUS
<1>4. ListsInOrder(f, S, n)
  BY <1>2, InOrderIsDefined
<1> HIDE DEF f
<1>5. \A k \in 0 .. n :
        f[k] = IF k = 0 THEN <<>>
               ELSE IF k \in S THEN Append(f[k - 1], k) ELSE f[k - 1]
  BY <1>4 DEF ListsInOrder
<1>6. f[0] = <<>>
  <2>1. 0 \in 0 .. n
    BY <1>2
  <2> QED
    BY <1>5, <2>1, Zenon
<1>7. ASSUME NEW m \in Nat, m + 1 <= n
      PROVE  f[m + 1] = IF m + 1 \in S THEN Append(f[m], m + 1) ELSE f[m]
  <2>1. m + 1 \in 0 .. n /\ m + 1 # 0 /\ (m + 1) - 1 = m
    BY <1>2, <1>7
  <2> QED
    BY <1>5, <2>1
<1>8. RunOfInOrder(f, S, n)
  BY <1>1, <1>6, <1>7 DEF RunOfInOrder
<1> QED
  BY <1>8

(* The pieces of nothing, and of a text that is one token longer. *)
LEMMA PiecesOfNothing == Pieces(<<>>) = <<<<>>>>
<1>1. Len(<<>>) = 0 /\ 0 \in Nat
  BY EmptySeq
<1>2. PICK f : RunOfPieces(f, <<>>)
  BY <1>1, PiecesRun
<1> QED
  BY <1>1, <1>2 DEF RunOfPieces

(* A token more is a step more. *)
LEMMA PiecesGrow ==
  ASSUME NEW S, NEW t \in Seq(S), NEW e \in S
  PROVE  Pieces(Append(t, e)) = PieceStep(Pieces(t), e)
<1> DEFINE n == Len(t)
           u == Append(t, e)
<1>1. /\ n \in Nat /\ Len(u) = n + 1 /\ u[n + 1] = e
      /\ \A k \in 1 .. n : u[k] = t[k]
  BY AppendProperties, LenProperties
<1>2. PICK f : RunOfPieces(f, t)
  BY <1>1, PiecesRun
<1>3. PICK g : RunOfPieces(g, u)
  <2>1. Len(u) \in Nat
    BY <1>1
  <2> QED
    BY <2>1, PiecesRun
<1> HIDE DEF n, u
<1>4. /\ f[0] = <<<<>>>> /\ Pieces(t) = f[n]
      /\ \A m \in Nat : m + 1 <= n => f[m + 1] = PieceStep(f[m], t[m + 1])
  BY <1>2 DEF RunOfPieces, n
<1>5. /\ g[0] = <<<<>>>> /\ Pieces(u) = g[n + 1]
      /\ \A m \in Nat : m + 1 <= n + 1 => g[m + 1] = PieceStep(g[m], u[m + 1])
  BY <1>1, <1>3 DEF RunOfPieces
<1> DEFINE Good == {m \in Nat : m <= n => f[m] = g[m]}
<1>6. 0 \in Good
  BY <1>4, <1>5
<1>7. ASSUME NEW m \in Nat, m \in Good PROVE m + 1 \in Good
  <2>1. SUFFICES ASSUME m + 1 <= n PROVE f[m + 1] = g[m + 1]
    OBVIOUS
  <2>2. f[m] = g[m] /\ u[m + 1] = t[m + 1] /\ m + 1 <= n + 1
    BY <1>1, <1>7, <2>1
  <2>3. f[m + 1] = PieceStep(f[m], t[m + 1]) /\ g[m + 1] = PieceStep(g[m], u[m + 1])
    BY <1>4, <1>5, <2>1, <2>2
  <2> QED
    BY <2>2, <2>3
<1>8. \A m \in Nat : m \in Good => m + 1 \in Good
  BY <1>7
<1> HIDE DEF Good
<1>9. Nat \subseteq Good
  BY <1>6, <1>8, NoLeastBad
<1>10. f[n] = g[n]
  BY <1>1, <1>9 DEF Good
<1>11. g[n + 1] = PieceStep(g[n], e)
  BY <1>1, <1>5
<1> QED
  BY <1>4, <1>5, <1>10, <1>11 DEF u

(* What flattening nothing, and one list more, comes to. *)
LEMMA FlattenNothing == Flatten(<<>>) = <<>>
<1>1. Len(<<>>) = 0 /\ 0 \in Nat
  BY EmptySeq
<1>2. PICK f : RunOfFlatten(f, <<>>)
  BY <1>1, FlattenRuns
<1> QED
  BY <1>1, <1>2 DEF RunOfFlatten

(* And of one that is one list longer. *)
LEMMA FlattenGrows ==
  ASSUME NEW S, NEW t \in Seq(S), NEW e \in S
  PROVE  Flatten(Append(t, e)) = Flatten(t) \o e
<1> DEFINE n == Len(t)
           u == Append(t, e)
<1>1. /\ n \in Nat /\ Len(u) = n + 1 /\ u[n + 1] = e
      /\ \A k \in 1 .. n : u[k] = t[k]
  BY AppendProperties, LenProperties
<1>2. PICK f : RunOfFlatten(f, t)
  BY <1>1, FlattenRuns
<1>3. PICK g : RunOfFlatten(g, u)
  <2>1. Len(u) \in Nat
    BY <1>1
  <2> QED
    BY <2>1, FlattenRuns
<1> HIDE DEF n, u
<1>4. /\ f[0] = <<>> /\ Flatten(t) = f[n]
      /\ \A m \in Nat : m + 1 <= n => f[m + 1] = f[m] \o t[m + 1]
  BY <1>2 DEF RunOfFlatten, n
<1>5. /\ g[0] = <<>> /\ Flatten(u) = g[n + 1]
      /\ \A m \in Nat : m + 1 <= n + 1 => g[m + 1] = g[m] \o u[m + 1]
  BY <1>1, <1>3 DEF RunOfFlatten
<1> DEFINE Good == {m \in Nat : m <= n => f[m] = g[m]}
<1>6. 0 \in Good
  BY <1>4, <1>5
<1>7. ASSUME NEW m \in Nat, m \in Good PROVE m + 1 \in Good
  <2>1. SUFFICES ASSUME m + 1 <= n PROVE f[m + 1] = g[m + 1]
    OBVIOUS
  <2>2. f[m] = g[m] /\ u[m + 1] = t[m + 1] /\ m + 1 <= n + 1
    BY <1>1, <1>7, <2>1
  <2>3. f[m + 1] = f[m] \o t[m + 1] /\ g[m + 1] = g[m] \o u[m + 1]
    BY <1>4, <1>5, <2>1, <2>2
  <2> QED
    BY <2>2, <2>3
<1>8. \A m \in Nat : m \in Good => m + 1 \in Good
  BY <1>7
<1> HIDE DEF Good
<1>9. Nat \subseteq Good
  BY <1>6, <1>8, NoLeastBad
<1>10. f[n] = g[n]
  BY <1>1, <1>9 DEF Good
<1>11. g[n + 1] = g[n] \o e
  <2>1. n \in Nat /\ n + 1 <= n + 1 /\ u[n + 1] = e
    BY <1>1
  <2>2. g[n + 1] = g[n] \o u[n + 1]
    BY <1>5, <2>1
  <2> QED
    BY <2>1, <2>2
<1> QED
  BY <1>4, <1>5, <1>10, <1>11 DEF u

(* The numbers up to none, and up to one more. *)
LEMMA InOrderGrows ==
  ASSUME NEW S, NEW n \in Nat
  PROVE  /\ InOrder(S, 0) = <<>>
         /\ InOrder(S, n + 1) = IF n + 1 \in S THEN Append(InOrder(S, n), n + 1) ELSE InOrder(S, n)
<1>1. PICK f : RunOfInOrder(f, S, n)
  BY InOrderRuns
<1>2. n + 1 \in Nat
  OBVIOUS
<1>3. PICK g : RunOfInOrder(g, S, n + 1)
  BY <1>2, InOrderRuns
<1>4. PICK h : RunOfInOrder(h, S, 0)
  BY InOrderRuns
<1>5. /\ f[0] = <<>> /\ InOrder(S, n) = f[n]
      /\ \A m \in Nat : m + 1 <= n => f[m + 1] = IF m + 1 \in S THEN Append(f[m], m + 1) ELSE f[m]
  BY <1>1 DEF RunOfInOrder
<1>6. /\ g[0] = <<>> /\ InOrder(S, n + 1) = g[n + 1]
      /\ \A m \in Nat : m + 1 <= n + 1 =>
           g[m + 1] = IF m + 1 \in S THEN Append(g[m], m + 1) ELSE g[m]
  BY <1>3 DEF RunOfInOrder
<1> DEFINE Good == {m \in Nat : m <= n => f[m] = g[m]}
<1>7. 0 \in Good
  BY <1>5, <1>6
<1>8. ASSUME NEW m \in Nat, m \in Good PROVE m + 1 \in Good
  <2>1. SUFFICES ASSUME m + 1 <= n PROVE f[m + 1] = g[m + 1]
    OBVIOUS
  <2>2. f[m] = g[m] /\ m + 1 <= n + 1
    BY <1>8, <2>1
  <2>3. /\ f[m + 1] = IF m + 1 \in S THEN Append(f[m], m + 1) ELSE f[m]
        /\ g[m + 1] = IF m + 1 \in S THEN Append(g[m], m + 1) ELSE g[m]
    BY <1>5, <1>6, <2>1, <2>2
  <2> QED
    BY <2>2, <2>3
<1>9. \A m \in Nat : m \in Good => m + 1 \in Good
  BY <1>8
<1> HIDE DEF Good
<1>10. Nat \subseteq Good
  BY <1>7, <1>9, NoLeastBad
<1>11. f[n] = g[n]
  BY <1>10 DEF Good
<1>12. g[n + 1] = IF n + 1 \in S THEN Append(g[n], n + 1) ELSE g[n]
  BY <1>6
<1>13. InOrder(S, 0) = <<>>
  BY <1>4 DEF RunOfInOrder
<1> QED
  BY <1>5, <1>6, <1>11, <1>12, <1>13

(* What one more token does to the pieces. *)
Stepped(qs, ps, e) ==
  /\ e = "/" => /\ Len(qs) = Len(ps) + 1 /\ qs[Len(ps) + 1] = <<>>
                /\ \A k \in 1 .. Len(ps) : qs[k] = ps[k]
  /\ e # "/" => /\ Len(qs) = Len(ps) /\ qs[Len(ps)] = Append(ps[Len(ps)], e)
                /\ \A k \in 1 .. Len(ps) - 1 : qs[k] = ps[k]

(* It is what that step makes of them. *)
LEMMA PieceStepIs ==
  ASSUME NEW S, NEW ps \in Seq(Seq(S)), Len(ps) >= 1, NEW e \in S
  PROVE  PieceStep(ps, e) \in Seq(Seq(S)) /\ Stepped(PieceStep(ps, e), ps, e)
<1> DEFINE n == Len(ps)
           T == Seq(S)
<1>1. n \in Nat /\ n >= 1 /\ \A k \in 1 .. n : ps[k] \in T
  BY LenProperties, ElementOfSeq
<1>2. CASE e = "/"
  <2>1. <<>> \in T
    BY EmptySeq
  <2>2. PieceStep(ps, e) = Append(ps, <<>>)
    BY <1>2 DEF PieceStep
  <2> DEFINE q == Append(ps, <<>>)
  <2> HIDE DEF T
  <2>3. /\ q \in Seq(T) /\ Len(q) = Len(ps) + 1 /\ q[Len(ps) + 1] = <<>>
        /\ \A i \in 1 .. Len(ps) : q[i] = ps[i]
    <3>1. ps \in Seq(T)
      BY DEF T
    <3> QED
      BY <2>1, <3>1, AppendProperties
  <2> HIDE DEF q
  <2>4. Stepped(q, ps, e)
    BY <1>2, <2>3 DEF Stepped
  <2> QED
    BY <2>2, <2>3, <2>4 DEF T, q
<1>3. CASE e # "/"
  <2> DEFINE a == SubSeq(ps, 1, n - 1)
             b == Append(ps[n], e)
  <2>1. PieceStep(ps, e) = Append(a, b)
    BY <1>3 DEF PieceStep, Front, Last
  <2>2. b \in T
    BY <1>1, AppendProperties
  <2> HIDE DEF b
  <2>3. a \in Seq(T) /\ Len(a) = n - 1 /\ \A i \in 1 .. n - 1 : a[i] = ps[i]
    <3>1. 1 \in Int /\ n - 1 \in Int /\ \A i \in 1 .. n - 1 : ps[i] \in T
      BY <1>1
    <3> HIDE DEF T, n
    <3>2. /\ a \in Seq(T)
          /\ Len(a) = IF 1 <= n - 1 THEN (n - 1) - 1 + 1 ELSE 0
          /\ \A i \in 1 .. (n - 1) - 1 + 1 : a[i] = ps[1 + i - 1]
      BY <3>1, SubSeqProperties
    <3>3. Len(a) = n - 1
      BY <1>1, <3>2
    <3>4. ASSUME NEW i \in 1 .. n - 1 PROVE a[i] = ps[i]
      <4>1. i \in 1 .. (n - 1) - 1 + 1 /\ 1 + i - 1 = i
        BY <1>1
      <4>2. a[i] = ps[1 + i - 1]
        BY <3>2, <4>1
      <4> QED
        BY <4>1, <4>2
    <3> QED
      BY <3>2, <3>3, <3>4
  <2> HIDE DEF a
  <2> DEFINE q == Append(a, b)
  <2>4. q \in Seq(T) /\ Len(q) = n /\ q[n] = b /\ \A i \in 1 .. n - 1 : q[i] = a[i]
    <3>1. /\ q \in Seq(T) /\ Len(q) = Len(a) + 1 /\ q[Len(a) + 1] = b
          /\ \A i \in 1 .. Len(a) : q[i] = a[i]
      BY <2>2, <2>3, AppendProperties
    <3> QED
      BY <1>1, <2>3, <3>1
  <2> HIDE DEF q
  <2>5. Stepped(q, ps, e)
    BY <1>3, <2>3, <2>4 DEF Stepped, b, n
  <2> QED
    BY <2>1, <2>4, <2>5 DEF q
<1> QED
  BY <1>2, <1>3

(* The pieces of a text are texts of the same tokens, and at least one. *)
LEMMA PiecesType ==
  ASSUME NEW S, NEW t \in Seq(S)
  PROVE  Pieces(t) \in Seq(Seq(S)) /\ Len(Pieces(t)) \in Nat /\ Len(Pieces(t)) >= 1
<1> DEFINE Good == {s \in Seq(S) : Pieces(s) \in Seq(Seq(S)) /\ Len(Pieces(s)) >= 1}
<1>1. <<>> \in Good
  <2>1. <<>> \in Seq(S)
    BY EmptySeq
  <2> DEFINE T == Seq(S)
             x == <<>>
             p == Pieces(<<>>)
  <2>2. x \in T
    BY <2>1
  <2> HIDE DEF T, x
  <2>3. <<x>> \in Seq(T) /\ Len(<<x>>) = 1
    BY <2>2
  <2>4. p = <<x>>
    BY PiecesOfNothing DEF x
  <2> HIDE DEF p
  <2>5. p \in Seq(T) /\ Len(p) = 1
    BY <2>3, <2>4, Zenon
  <2>6. Len(p) >= 1
    BY <2>5
  <2> QED
    BY <2>1, <2>5, <2>6, Zenon DEF T, p
<1>2. ASSUME NEW s \in Seq(S), s \in Good, NEW e \in S PROVE Append(s, e) \in Good
  <2>1. PieceStep(Pieces(s), e) \in Seq(Seq(S)) /\ Stepped(PieceStep(Pieces(s), e), Pieces(s), e)
    BY <1>2, PieceStepIs
  <2>2. Len(PieceStep(Pieces(s), e)) >= 1
    <3>1. Len(Pieces(s)) \in Nat /\ Len(Pieces(s)) >= 1
      BY <1>2, LenProperties
    <3> QED
      BY <2>1, <3>1 DEF Stepped
  <2>3. Append(s, e) \in Seq(S) /\ Pieces(Append(s, e)) = PieceStep(Pieces(s), e)
    BY PiecesGrow, AppendProperties
  <2> QED
    BY <2>1, <2>2, <2>3
<1> HIDE DEF Good
<1>3. Seq(S) \subseteq Good
  BY <1>1, <1>2, ListInduction
<1>4. t \in Good
  BY <1>3
<1> QED
  BY <1>4, LenProperties DEF Good

-----------------------------------------------------------------------------
(***************************************************************************)
(* Texts in pieces: behind a prefix, and behind a slash.                   *)
(***************************************************************************)

(* A text of no tokens has one piece, of none. *)
LEMMA PiecesOfNone ==
  ASSUME NEW t, t = <<>>
  PROVE  Len(Pieces(t)) = 1 /\ Pieces(t)[1] = <<>>
<1> DEFINE x == <<>>
           p == Pieces(t)
<1>1. p = <<x>>
  BY PiecesOfNothing
<1> HIDE DEF x, p
<1>2. Len(p) = 1 /\ p[1] = x
  BY <1>1
<1> QED
  BY <1>2 DEF x, p

(* One more token steps the pieces. *)
LEMMA PiecesStep ==
  ASSUME NEW S, NEW t \in Seq(S), NEW e \in S
  PROVE  /\ Stepped(Pieces(Append(t, e)), Pieces(t), e)
         /\ Len(Pieces(t)) \in Nat /\ Len(Pieces(t)) >= 1
         /\ Len(Pieces(Append(t, e))) \in Nat /\ Len(Pieces(Append(t, e))) >= 1
<1>1. Append(t, e) \in Seq(S)
  BY AppendProperties
<1>2. Pieces(t) \in Seq(Seq(S)) /\ Len(Pieces(t)) >= 1 /\ Len(Pieces(t)) \in Nat
  BY PiecesType
<1>3. Len(Pieces(Append(t, e))) \in Nat /\ Len(Pieces(Append(t, e))) >= 1
  BY <1>1, PiecesType
<1>4. Stepped(PieceStep(Pieces(t), e), Pieces(t), e)
  BY <1>2, PieceStepIs
<1> QED
  BY <1>2, <1>3, <1>4, PiecesGrow

(* Appending to the second of two lists appends to both. *)
LEMMA ConcatAppend ==
  ASSUME NEW S, NEW s \in Seq(S), NEW t \in Seq(S), NEW e \in S
  PROVE  s \o Append(t, e) = Append(s \o t, e)
<1>1. <<e>> \in Seq(S) /\ s \o t \in Seq(S)
  BY ConcatProperties
<1>2. Append(t, e) = t \o <<e>> /\ Append(s \o t, e) = (s \o t) \o <<e>>
  BY <1>1, AppendIsConcat
<1> QED
  BY <1>1, <1>2, ConcatAssociative

(* The pieces of a text and of another, that starts with a slash, are the  *)
(* pieces of both together.                                                *)
Glued(c, a, b) ==
  /\ Len(c) = Len(a) + Len(b) - 1
  /\ \A k \in 1 .. Len(a) : c[k] = a[k]
  /\ \A k \in 2 .. Len(b) : c[Len(a) + k - 1] = b[k]

(* A step at the end of both keeps them so. *)
LEMMA GluedStep ==
  ASSUME NEW a, NEW b, NEW c, NEW bb, NEW cc, NEW e,
         Len(a) \in Nat, Len(a) >= 1, Len(b) \in Nat, Len(b) >= 1, Glued(c, a, b),
         e = "/" \/ Len(b) >= 2, Stepped(bb, b, e), Stepped(cc, c, e)
  PROVE  Glued(cc, a, bb)
<1> DEFINE m == Len(a)
           n == Len(b)
<1>1. /\ m \in Nat /\ n \in Nat /\ m >= 1 /\ n >= 1 /\ Len(c) = m + n - 1
      /\ \A k \in 1 .. m : c[k] = a[k]
      /\ \A k \in 2 .. n : c[m + k - 1] = b[k]
  BY DEF Glued
<1> HIDE DEF m, n
<1>2. CASE e = "/"
  <2>1. /\ Len(bb) = n + 1 /\ bb[n + 1] = <<>> /\ \A k \in 1 .. n : bb[k] = b[k]
    BY <1>2 DEF Stepped, n
  <2>2. /\ Len(cc) = m + n /\ cc[m + n] = <<>> /\ \A k \in 1 .. m + n - 1 : cc[k] = c[k]
    <3>1. /\ Len(cc) = (m + n - 1) + 1 /\ cc[(m + n - 1) + 1] = <<>>
          /\ \A k \in 1 .. m + n - 1 : cc[k] = c[k]
      BY <1>1, <1>2 DEF Stepped
    <3>2. (m + n - 1) + 1 = m + n
      BY <1>1
    <3> QED
      BY <3>1, <3>2
  <2>3. \A k \in 1 .. m : cc[k] = a[k]
    BY <1>1, <2>2
  <2>4. ASSUME NEW k \in 2 .. n + 1 PROVE cc[m + k - 1] = bb[k]
    <3>1. CASE k = n + 1
      <4>1. m + k - 1 = m + n
        BY <1>1, <3>1
      <4> QED
        BY <2>1, <2>2, <3>1, <4>1
    <3>2. CASE k # n + 1
      <4>1. k \in 2 .. n /\ k \in 1 .. n /\ m + k - 1 \in 1 .. m + n - 1
        BY <1>1, <3>2
      <4> QED
        BY <1>1, <2>1, <2>2, <4>1
    <3> QED
      BY <3>1, <3>2
  <2>5. Len(cc) = m + (n + 1) - 1
    BY <1>1, <2>2
  <2> QED
    BY <2>1, <2>3, <2>4, <2>5 DEF Glued, m
<1>3. CASE e # "/"
  <2>1. n >= 2 /\ n \in 2 .. n /\ m + n - 1 \in Nat
    BY <1>1, <1>3 DEF n
  <2>2. /\ Len(bb) = n /\ bb[n] = Append(b[n], e) /\ \A k \in 1 .. n - 1 : bb[k] = b[k]
    BY <1>3 DEF Stepped, n
  <2>3. /\ Len(cc) = m + n - 1 /\ cc[m + n - 1] = Append(c[m + n - 1], e)
        /\ \A k \in 1 .. (m + n - 1) - 1 : cc[k] = c[k]
    BY <1>1, <1>3 DEF Stepped
  <2>4. ASSUME NEW k \in 1 .. m PROVE cc[k] = a[k]
    <3>1. k \in 1 .. (m + n - 1) - 1
      BY <1>1, <2>1
    <3> QED
      BY <1>1, <2>3, <3>1
  <2>5. ASSUME NEW k \in 2 .. n PROVE cc[m + k - 1] = bb[k]
    <3>1. CASE k = n
      <4>1. c[m + n - 1] = b[n]
        BY <1>1, <2>1
      <4> QED
        BY <2>2, <2>3, <3>1, <4>1
    <3>2. CASE k # n
      <4>1. k \in 1 .. n - 1 /\ m + k - 1 \in 1 .. (m + n - 1) - 1
        BY <1>1, <3>2
      <4> QED
        BY <1>1, <2>2, <2>3, <4>1
    <3> QED
      BY <3>1, <3>2
  <2> QED
    BY <2>2, <2>3, <2>4, <2>5 DEF Glued, m
<1> QED
  BY <1>2, <1>3

(* The pieces of a text and one behind it that starts with a slash are so. *)
LEMMA PiecesJoin ==
  ASSUME NEW S, NEW p \in Seq(S), NEW b \in Seq(S), b # <<>>, b[1] = "/"
  PROVE  /\ Len(Pieces(b)) \in Nat /\ Len(Pieces(b)) >= 2 /\ Pieces(b)[1] = <<>>
         /\ Glued(Pieces(p \o b), Pieces(p), Pieces(b))
<1> DEFINE Fine(t) == /\ Pieces(t)[1] = <<>> /\ (t # <<>> => Len(Pieces(t)) >= 2)
                      /\ Glued(Pieces(p \o t), Pieces(p), Pieces(t))
           Good == {t \in Seq(S) : t = <<>> \/ t[1] = "/" => Fine(t)}
<1>1. Len(Pieces(p)) \in Nat /\ Len(Pieces(p)) >= 1
  BY PiecesType
<1>2. <<>> \in Good
  <2>1. ASSUME NEW t, t = <<>> PROVE t \in Seq(S) /\ Fine(t)
    <3>1. t \in Seq(S) /\ p \o t = p
      BY <2>1, EmptySeq, ConcatEmptySeq
    <3>2. Len(Pieces(t)) = 1 /\ Pieces(t)[1] = <<>>
      BY <2>1, PiecesOfNone
    <3>3. Glued(Pieces(p), Pieces(p), Pieces(t))
      BY <1>1, <3>2 DEF Glued
    <3> QED
      BY <2>1, <3>1, <3>2, <3>3
  <2> HIDE DEF Fine
  <2> QED
    BY <2>1
<1>3. ASSUME NEW t \in Seq(S), t \in Good, NEW e \in S PROVE Append(t, e) \in Good
  <2> DEFINE u == Append(t, e)
  <2>1. /\ u \in Seq(S) /\ u # <<>> /\ Len(u) = Len(t) + 1 /\ u[Len(t) + 1] = e
        /\ \A k \in 1 .. Len(t) : u[k] = t[k]
    BY AppendProperties
  <2>2. /\ Stepped(Pieces(u), Pieces(t), e)
        /\ Len(Pieces(t)) \in Nat /\ Len(Pieces(t)) >= 1
    BY PiecesStep
  <2>3. Stepped(Pieces(p \o u), Pieces(p \o t), e)
    <3>1. p \o t \in Seq(S) /\ p \o u = Append(p \o t, e)
      BY ConcatAppend, ConcatProperties
    <3> QED
      BY <3>1, PiecesStep
  <2> HIDE DEF u, Fine
  <2>4. SUFFICES ASSUME u[1] = "/" PROVE Fine(u)
    BY <2>1, Zenon DEF u
  <2>5. t = <<>> \/ t[1] = "/"
    <3>1. ASSUME t # <<>> PROVE 1 \in 1 .. Len(t)
      BY <3>1, EmptySeq
    <3> QED
      BY <2>1, <2>4, <3>1
  <2>6. Fine(t)
    BY <1>3, <2>5
  <2>7. e = "/" \/ Len(Pieces(t)) >= 2
    <3>1. t = <<>> => e = "/"
      BY <2>1, <2>4, EmptySeq
    <3> QED
      BY <2>6, <3>1 DEF Fine
  <2>8. Glued(Pieces(p \o u), Pieces(p), Pieces(u))
    BY <1>1, <2>2, <2>3, <2>6, <2>7, GluedStep DEF Fine
  <2>9. Pieces(u)[1] = <<>> /\ Len(Pieces(u)) >= 2
    <3> DEFINE q == Pieces(u)
               r == Pieces(t)
               x == <<>>
    <3>1. Stepped(q, r, e) /\ Len(r) \in Nat /\ Len(r) >= 1 /\ r[1] = x
      BY <2>2, <2>6 DEF Fine
    <3>2. e = "/" \/ Len(r) >= 2
      BY <2>7
    <3> HIDE DEF q, r, x
    <3>3. q[1] = x /\ Len(q) >= 2
      BY <3>1, <3>2 DEF Stepped
    <3> QED
      BY <3>3 DEF q, x
  <2> QED
    BY <2>8, <2>9 DEF Fine
<1> HIDE DEF Good
<1>4. Seq(S) \subseteq Good
  BY <1>2, <1>3, ListInduction
<1>5. b \in Good
  BY <1>4
<1> QED
  BY <1>5, PiecesType DEF Good

(* The pieces behind a slash are those without it. *)
Shifted(c, a) ==
  Len(c) = Len(a) + 1 /\ c[1] = <<>> /\ \A k \in 1 .. Len(a) : c[k + 1] = a[k]

(* A step at the end of both keeps them so. *)
LEMMA ShiftedStep ==
  ASSUME NEW a, NEW c, NEW aa, NEW cc, NEW e, Len(a) \in Nat, Len(a) >= 1,
         Shifted(c, a), Stepped(aa, a, e), Stepped(cc, c, e)
  PROVE  Shifted(cc, aa)
<1> DEFINE n == Len(a)
           x == <<>>
<1>1. /\ n \in Nat /\ n >= 1 /\ Len(c) = n + 1 /\ c[1] = x
      /\ \A k \in 1 .. n : c[k + 1] = a[k]
  BY DEF Shifted
<1>2. CASE e = "/"
  <2>1. Len(aa) = n + 1 /\ aa[n + 1] = x /\ \A k \in 1 .. n : aa[k] = a[k]
    BY <1>2 DEF Stepped
  <2>2. Len(cc) = n + 2 /\ cc[n + 2] = x /\ \A k \in 1 .. n + 1 : cc[k] = c[k]
    <3>1. Len(cc) = (n + 1) + 1 /\ cc[(n + 1) + 1] = x /\ \A k \in 1 .. n + 1 : cc[k] = c[k]
      BY <1>1, <1>2 DEF Stepped
    <3>2. (n + 1) + 1 = n + 2
      BY <1>1
    <3> QED
      BY <3>1, <3>2
  <2> HIDE DEF n, x
  <2>3. cc[1] = x
    BY <1>1, <2>2
  <2>4. ASSUME NEW k \in 1 .. n + 1 PROVE cc[k + 1] = aa[k]
    <3>1. CASE k = n + 1
      BY <1>1, <2>1, <2>2, <3>1
    <3>2. CASE k # n + 1
      <4>1. k \in 1 .. n /\ k + 1 \in 1 .. n + 1
        BY <1>1, <3>2
      <4> QED
        BY <1>1, <2>1, <2>2, <4>1
    <3> QED
      BY <3>1, <3>2
  <2>5. Len(cc) = (n + 1) + 1
    BY <1>1, <2>2
  <2> QED
    BY <2>1, <2>3, <2>4, <2>5 DEF Shifted, x
<1>3. CASE e # "/"
  <2>1. Len(aa) = n /\ aa[n] = Append(a[n], e) /\ \A k \in 1 .. n - 1 : aa[k] = a[k]
    BY <1>3 DEF Stepped
  <2>2. Len(cc) = n + 1 /\ cc[n + 1] = Append(c[n + 1], e) /\ \A k \in 1 .. n : cc[k] = c[k]
    <3>1. /\ Len(cc) = n + 1 /\ cc[n + 1] = Append(c[n + 1], e)
          /\ \A k \in 1 .. (n + 1) - 1 : cc[k] = c[k]
      BY <1>1, <1>3 DEF Stepped
    <3>2. (n + 1) - 1 = n
      BY <1>1
    <3> QED
      BY <3>1, <3>2
  <2> HIDE DEF n, x
  <2>3. cc[1] = x
    <3>1. 1 \in 1 .. n
      BY <1>1
    <3> QED
      BY <1>1, <2>2, <3>1
  <2>4. ASSUME NEW k \in 1 .. n PROVE cc[k + 1] = aa[k]
    <3>1. CASE k = n
      <4>1. c[n + 1] = a[n]
        BY <1>1
      <4> QED
        BY <2>1, <2>2, <3>1, <4>1
    <3>2. CASE k # n
      <4>1. k \in 1 .. n - 1 /\ k + 1 \in 1 .. n
        BY <1>1, <3>2
      <4> QED
        BY <1>1, <2>1, <2>2, <4>1
    <3> QED
      BY <3>1, <3>2
  <2> QED
    BY <2>1, <2>2, <2>3, <2>4 DEF Shifted, x
<1> QED
  BY <1>2, <1>3

(* A slash in front puts an empty piece in front. *)
LEMMA PiecesRooted ==
  ASSUME NEW S, "/" \in S, NEW t \in Seq(S)
  PROVE  Shifted(Pieces(<<"/">> \o t), Pieces(t))
<1> DEFINE r == <<"/">>
           Good == {s \in Seq(S) : Shifted(Pieces(r \o s), Pieces(s))}
<1>1. r \in Seq(S) /\ \A x : x = <<>> => x \in Seq(S) /\ r = Append(x, "/") /\ r \o x = r
  <2>1. r \in Seq(S)
    OBVIOUS
  <2>2. <<>> \in Seq(S) /\ r = Append(<<>>, "/")
    BY EmptySeq
  <2>3. r \o <<>> = r
    BY <2>1, ConcatEmptySeq
  <2> QED
    BY <2>1, <2>2, <2>3
<1>2. ASSUME NEW x, x = <<>> PROVE x \in Good
  <2>1. x \in Seq(S) /\ r = Append(x, "/") /\ r \o x = r
    BY <1>1, <1>2
  <2> DEFINE p == Pieces(x)
             q == Pieces(r)
             z == <<>>
  <2>2. Len(p) = 1 /\ p[1] = z
    BY <1>2, PiecesOfNone
  <2>3. Stepped(q, p, "/")
    BY <2>1, PiecesStep
  <2> HIDE DEF p, q, r
  <2>4. Len(q) = 2 /\ q[2] = z /\ q[1] = p[1]
    BY <2>2, <2>3 DEF Stepped
  <2>5. Shifted(q, p)
    BY <2>2, <2>4 DEF Shifted
  <2> QED
    BY <2>1, <2>5 DEF p, q
<1>3. ASSUME NEW s \in Seq(S), s \in Good, NEW e \in S PROVE Append(s, e) \in Good
  <2> DEFINE u == Append(s, e)
  <2>1. u \in Seq(S) /\ r \o u = Append(r \o s, e) /\ r \o s \in Seq(S)
    BY <1>1, ConcatAppend, ConcatProperties, AppendProperties
  <2>2. Stepped(Pieces(u), Pieces(s), e) /\ Len(Pieces(s)) \in Nat /\ Len(Pieces(s)) >= 1
    BY PiecesStep
  <2> HIDE DEF r
  <2>3. Stepped(Pieces(r \o u), Pieces(r \o s), e)
    BY <2>1, PiecesStep
  <2>4. Shifted(Pieces(r \o s), Pieces(s))
    BY <1>3
  <2> HIDE DEF u
  <2>5. Shifted(Pieces(r \o u), Pieces(u))
    BY <2>2, <2>3, <2>4, ShiftedStep
  <2> QED
    BY <2>1, <2>5 DEF u
<1> HIDE DEF Good
<1>4. Seq(S) \subseteq Good
  <2>1. <<>> \in Good
    BY <1>2
  <2> QED
    BY <1>3, <2>1, ListInduction
<1> QED
  BY <1>4 DEF Good

(* A text with a token in it does not have the pieces of none, and shows   *)
(* in its pieces what its last token is.                                   *)
LEMMA SteppedApart ==
  ASSUME NEW S, NEW p \in Seq(Seq(S)), NEW q \in Seq(Seq(S)), NEW r, NEW d \in S, NEW e \in S,
         Len(p) >= 1, Len(q) >= 1, Stepped(r, p, d), Stepped(r, q, e)
  PROVE  d = e /\ p = q
<1> DEFINE T == Seq(S)
           m == Len(p)
           n == Len(q)
           x == <<>>
<1>1. m \in Nat /\ n \in Nat /\ m >= 1 /\ n >= 1 /\ p[m] \in T /\ q[n] \in T
  BY LenProperties, ElementOfSeq
<1>2. \A s \in T : \A c \in S : Append(s, c) # x
  <2>1. ASSUME NEW s \in T, NEW c \in S PROVE Append(s, c) # x
    BY AppendProperties
  <2> QED
    BY <2>1
<1>3. /\ d = "/" => Len(r) = m + 1 /\ r[m + 1] = x /\ \A k \in 1 .. m : r[k] = p[k]
      /\ d # "/" => Len(r) = m /\ r[m] = Append(p[m], d) /\ \A k \in 1 .. m - 1 : r[k] = p[k]
  BY DEF Stepped
<1>4. /\ e = "/" => Len(r) = n + 1 /\ r[n + 1] = x /\ \A k \in 1 .. n : r[k] = q[k]
      /\ e # "/" => Len(r) = n /\ r[n] = Append(q[n], e) /\ \A k \in 1 .. n - 1 : r[k] = q[k]
  BY DEF Stepped
<1>5. \A s, t \in T : Append(s, d) = Append(t, e) => s = t /\ d = e
  BY AppendInjective
<1> HIDE DEF T, x, m, n
<1>6. CASE d = "/" /\ e = "/"
  <2>1. m = n /\ \A k \in 1 .. m : p[k] = q[k]
    BY <1>1, <1>3, <1>4, <1>6
  <2>2. p \in Seq(T) /\ q \in Seq(T) /\ Len(p) = Len(q) /\ \A k \in 1 .. Len(p) : p[k] = q[k]
    BY <2>1 DEF T, m, n
  <2> QED
    BY <1>6, <2>2, SeqEqual
<1>7. CASE d # "/" /\ e # "/"
  <2>1. m = n /\ Append(p[m], d) = Append(q[n], e) /\ \A k \in 1 .. m - 1 : p[k] = q[k]
    BY <1>1, <1>3, <1>4, <1>7
  <2>2. d = e /\ p[m] = q[m]
    BY <1>1, <1>5, <2>1
  <2>3. \A k \in 1 .. m : k = m \/ k \in 1 .. m - 1
    BY <1>1
  <2>4. p \in Seq(T) /\ q \in Seq(T) /\ Len(p) = Len(q) /\ \A k \in 1 .. Len(p) : p[k] = q[k]
    BY <2>1, <2>2, <2>3 DEF T, m, n
  <2> QED
    BY <2>2, <2>4, SeqEqual
<1>8. CASE d = "/" /\ e # "/"
  <2>1. r[n] = x /\ r[n] = Append(q[n], e)
    BY <1>3, <1>4, <1>8
  <2> QED
    BY <1>1, <1>2, <2>1
<1>9. CASE d # "/" /\ e = "/"
  <2>1. r[m] = x /\ r[m] = Append(p[m], d)
    BY <1>3, <1>4, <1>9
  <2> QED
    BY <1>1, <1>2, <2>1
<1> QED
  BY <1>6, <1>7, <1>8, <1>9

(* The pieces of a text are of one piece that is empty only for no text.   *)
LEMMA PiecesOfSome ==
  ASSUME NEW S, NEW t \in Seq(S), t # <<>>
  PROVE  Len(Pieces(t)) = 1 => Pieces(t)[1] # <<>>
<1>1. PICK s \in Seq(S), e \in S : t = Append(s, e)
  BY SequenceEmptyOrAppend
<1> DEFINE p == Pieces(s)
           q == Pieces(t)
           x == <<>>
<1>2. Stepped(q, p, e) /\ Len(p) \in Nat /\ Len(p) >= 1
  BY <1>1, PiecesStep
<1>3. p \in Seq(Seq(S))
  BY PiecesType
<1>4. p[1] \in Seq(S)
  BY <1>2, <1>3, ElementOfSeq
<1>5. Append(p[1], e) # x
  BY <1>4, AppendProperties
<1> HIDE DEF p, q, x
<1>6. Len(q) = 1 => q[1] # x
  BY <1>2, <1>5 DEF Stepped
<1> QED
  BY <1>6 DEF q, x

(* Two texts of the same pieces are one. *)
LEMMA SamePieces ==
  ASSUME NEW S, NEW s \in Seq(S), NEW t \in Seq(S), Pieces(s) = Pieces(t)
  PROVE  s = t
<1> DEFINE Good == {u \in Seq(S) : \A v \in Seq(S) : Pieces(u) = Pieces(v) => u = v}
<1>1. <<>> \in Good
  <2>1. ASSUME NEW u, u = <<>> PROVE u \in Good
    <3>1. u \in Seq(S)
      BY <2>1, EmptySeq
    <3>2. Len(Pieces(u)) = 1 /\ Pieces(u)[1] = <<>>
      BY <2>1, PiecesOfNone
    <3>3. ASSUME NEW v \in Seq(S), Pieces(u) = Pieces(v) PROVE u = v
      <4>1. v = <<>>
        BY <3>2, <3>3, PiecesOfSome
      <4> QED
        BY <2>1, <4>1
    <3> QED
      BY <3>1, <3>3
  <2> HIDE DEF Good
  <2> QED
    BY <2>1
<1>2. ASSUME NEW u \in Seq(S), u \in Good, NEW e \in S PROVE Append(u, e) \in Good
  <2> DEFINE w == Append(u, e)
  <2>1. w \in Seq(S) /\ w # <<>>
    BY AppendProperties
  <2>2. ASSUME NEW v \in Seq(S), Pieces(w) = Pieces(v) PROVE w = v
    <3>1. v # <<>>
      <4>1. ASSUME v = <<>> PROVE FALSE
        <5>1. Len(Pieces(v)) = 1 /\ Pieces(v)[1] = <<>>
          BY <4>1, PiecesOfNone
        <5> HIDE DEF w
        <5> QED
          BY <2>1, <2>2, <5>1, PiecesOfSome
      <4> QED
        BY <4>1
    <3>2. PICK x \in Seq(S), d \in S : v = Append(x, d)
      BY <3>1, SequenceEmptyOrAppend
    <3>3. Stepped(Pieces(w), Pieces(u), e) /\ Stepped(Pieces(v), Pieces(x), d)
      BY <3>2, PiecesStep
    <3>4. /\ Pieces(u) \in Seq(Seq(S)) /\ Len(Pieces(u)) >= 1
          /\ Pieces(x) \in Seq(Seq(S)) /\ Len(Pieces(x)) >= 1
      BY PiecesType
    <3>5. Stepped(Pieces(w), Pieces(x), d)
      BY <2>2, <3>3
    <3>6. e = d /\ Pieces(u) = Pieces(x)
      BY <3>3, <3>4, <3>5, SteppedApart
    <3>7. u = x
      BY <1>2, <3>6
    <3> QED
      BY <3>2, <3>6, <3>7
  <2> HIDE DEF w
  <2> QED
    BY <2>1, <2>2 DEF w
<1> HIDE DEF Good
<1>3. Seq(S) \subseteq Good
  BY <1>1, <1>2, ListInduction
<1> QED
  BY <1>3 DEF Good

(* A text whose first pieces are all of another's starts with that text,   *)
(* and goes on behind a slash.                                             *)
LEMMA PiecesSplit ==
  ASSUME NEW S, "/" \in S, NEW p \in Seq(S), NEW t \in Seq(S), Len(Pieces(p)) < Len(Pieces(t)),
         \A k \in 1 .. Len(Pieces(p)) : Pieces(t)[k] = Pieces(p)[k]
  PROVE  \E b \in Seq(S) : t = p \o b /\ b # <<>> /\ b[1] = "/"
<1> DEFINE m == Len(Pieces(p))
           Begun(u) == m < Len(Pieces(u)) /\ \A k \in 1 .. m : Pieces(u)[k] = Pieces(p)[k]
           Goes(u) == \E b \in Seq(S) : u = p \o b /\ b # <<>> /\ b[1] = "/"
           Good == {u \in Seq(S) : Begun(u) => Goes(u)}
<1>1. m \in Nat /\ m >= 1 /\ Pieces(p) \in Seq(Seq(S))
  BY PiecesType
<1>2. <<>> \in Good
  <2>1. ASSUME NEW u, u = <<>> PROVE u \in Seq(S) /\ ~Begun(u)
    <3>1. u \in Seq(S) /\ Len(Pieces(u)) = 1
      BY <2>1, EmptySeq, PiecesOfNone
    <3> QED
      BY <1>1, <3>1
  <2> HIDE DEF Begun, Goes
  <2> QED
    BY <2>1
<1>3. ASSUME NEW u \in Seq(S), u \in Good, NEW e \in S PROVE Append(u, e) \in Good
  <2> DEFINE w == Append(u, e)
  <2>1. w \in Seq(S)
    BY AppendProperties
  <2>2. /\ Stepped(Pieces(w), Pieces(u), e)
        /\ Len(Pieces(u)) \in Nat /\ Len(Pieces(u)) >= 1
    BY PiecesStep
  <2> HIDE DEF w, Begun, Goes
  <2>3. SUFFICES ASSUME Begun(w) PROVE Goes(w)
    BY <2>1, Zenon DEF w
  <2>4. ASSUME Begun(u) PROVE Goes(w)
    <3>1. Goes(u)
      BY <1>3, <2>4
    <3>2. PICK b \in Seq(S) : u = p \o b /\ b # <<>> /\ b[1] = "/"
      BY <3>1 DEF Goes
    <3>3. w = p \o Append(b, e)
      <4>1. w = Append(p \o b, e)
        BY <3>2 DEF w
      <4>2. p \o Append(b, e) = Append(p \o b, e)
        BY ConcatAppend
      <4> QED
        BY <4>1, <4>2
    <3>4. /\ Append(b, e) \in Seq(S) /\ Append(b, e) # <<>> /\ Append(b, e)[1] = "/"
      <4>1. 1 \in 1 .. Len(b)
        BY <3>2, EmptySeq
      <4> DEFINE c == Append(b, e)
      <4>2. c \in Seq(S) /\ c # <<>> /\ c[1] = b[1]
        BY <4>1, AppendProperties
      <4> HIDE DEF c
      <4> QED
        BY <3>2, <4>2 DEF c
    <3> QED
      BY <3>3, <3>4 DEF Goes
  <2> DEFINE q == Pieces(w)
             r == Pieces(u)
             z == Pieces(p)
  <2>5. m < Len(q) /\ \A k \in 1 .. m : q[k] = z[k]
    BY <2>3 DEF Begun
  <2>6. Begun(u) <=> m < Len(r) /\ \A k \in 1 .. m : r[k] = z[k]
    BY DEF Begun
  <2>7. Stepped(q, r, e) /\ Len(r) \in Nat /\ Len(r) >= 1 /\ r \in Seq(Seq(S))
    BY <2>2, PiecesType
  <2>8. r = z => u = p
    BY SamePieces
  <2>9. z \in Seq(Seq(S)) /\ Len(z) = m
    BY <1>1
  <2> HIDE DEF q, r, z, m
  <2>10. CASE e # "/"
    <3>1. m < Len(r) /\ \A k \in 1 .. m : r[k] = z[k]
      BY <1>1, <2>5, <2>7, <2>10 DEF Stepped
    <3> QED
      BY <2>4, <2>6, <3>1
  <2>11. CASE e = "/" /\ m < Len(r)
    <3>1. \A k \in 1 .. m : r[k] = z[k]
      BY <1>1, <2>5, <2>7, <2>11 DEF Stepped
    <3> QED
      BY <2>4, <2>6, <2>11, <3>1
  <2>12. CASE e = "/" /\ ~(m < Len(r))
    <3>1. m = Len(r) /\ \A k \in 1 .. m : r[k] = z[k]
      BY <1>1, <2>5, <2>7, <2>12 DEF Stepped
    <3>2. r = z
      BY <2>7, <2>9, <3>1, SeqEqual
    <3>3. u = p
      BY <2>8, <3>2
    <3> DEFINE b == <<e>>
    <3>4. w = p \o b
      BY <3>3, AppendIsConcat DEF w
    <3>5. b \in Seq(S) /\ b # <<>> /\ b[1] = "/"
      BY <2>12
    <3> HIDE DEF b
    <3> QED
      BY <3>4, <3>5 DEF Goes
  <2> QED
    BY <2>10, <2>11, <2>12
<1> HIDE DEF Good
<1>4. Seq(S) \subseteq Good
  BY <1>2, <1>3, ListInduction
<1> QED
  BY <1>4 DEF Good

(* No two slashes in a row. *)
Single(t) == \A i \in 1 .. Len(t) - 1 : t[i] # "/" \/ t[i + 1] # "/"

(* Only the first and the last piece of such a text can be empty. *)
LEMMA SinglePieces ==
  ASSUME NEW S, NEW t \in Seq(S), Single(t)
  PROVE  \A k \in 2 .. Len(Pieces(t)) - 1 : Pieces(t)[k] # <<>>
<1> DEFINE Fine(u) == LET q == Pieces(u) IN
             /\ \A k \in 2 .. Len(q) - 1 : q[k] # <<>>
             /\ Len(q) >= 2 /\ q[Len(q)] = <<>> => u # <<>> /\ u[Len(u)] = "/"
           Good == {u \in Seq(S) : Single(u) => Fine(u)}
<1>1. <<>> \in Good
  <2>1. ASSUME NEW u, u = <<>> PROVE u \in Seq(S) /\ Fine(u)
    <3>1. u \in Seq(S) /\ Len(Pieces(u)) = 1
      BY <2>1, EmptySeq, PiecesOfNone
    <3> QED
      BY <3>1
  <2> HIDE DEF Fine
  <2> QED
    BY <2>1
<1>2. ASSUME NEW u \in Seq(S), u \in Good, NEW e \in S PROVE Append(u, e) \in Good
  <2> DEFINE w == Append(u, e)
             q == Pieces(w)
             r == Pieces(u)
             x == <<>>
             n == Len(r)
  <2>1. /\ w \in Seq(S) /\ w # <<>> /\ Len(w) = Len(u) + 1 /\ w[Len(u) + 1] = e
        /\ \A k \in 1 .. Len(u) : w[k] = u[k]
        /\ Len(u) \in Nat
    BY AppendProperties, LenProperties
  <2>2. Stepped(q, r, e) /\ n \in Nat /\ n >= 1 /\ r \in Seq(Seq(S))
    BY PiecesStep, PiecesType
  <2> HIDE DEF w, Fine
  <2>3. SUFFICES ASSUME Single(w) PROVE Fine(w)
    BY <2>1, Zenon DEF w
  <2>4. Single(u)
    <3>1. SUFFICES ASSUME NEW i \in 1 .. Len(u) - 1 PROVE u[i] # "/" \/ u[i + 1] # "/"
      BY DEF Single
    <3>2. i \in 1 .. Len(u) /\ i + 1 \in 1 .. Len(u) /\ i \in 1 .. Len(w) - 1
      BY <2>1
    <3> QED
      BY <2>1, <2>3, <3>2 DEF Single
  <2>5. Fine(u)
    BY <1>2, <2>4
  <2>6. /\ \A k \in 2 .. n - 1 : r[k] # x
        /\ n >= 2 /\ r[n] = x => u # x /\ u[Len(u)] = "/"
    BY <2>5 DEF Fine
  <2>7. Fine(w) <=> /\ \A k \in 2 .. Len(q) - 1 : q[k] # x
                    /\ Len(q) >= 2 /\ q[Len(q)] = x => w # x /\ w[Len(w)] = "/"
    BY DEF Fine
  <2>8. CASE e = "/"
    <3>1. Len(q) = n + 1 /\ \A k \in 1 .. n : q[k] = r[k]
      BY <2>2, <2>8 DEF Stepped
    <3>2. w # x /\ w[Len(w)] = "/"
      BY <2>1, <2>8
    <3>3. n >= 2 => r[n] # x
      <4>1. SUFFICES ASSUME u # x, u[Len(u)] = "/" PROVE FALSE
        BY <2>6
      <4>2. Len(u) \in 1 .. Len(w) - 1 /\ w[Len(u)] = "/" /\ w[Len(u) + 1] = "/"
        <5>1. Len(u) \in Nat \ {0}
          BY <4>1, EmptySeq
        <5> QED
          BY <2>1, <2>8, <4>1, <5>1
      <4> QED
        BY <2>3, <4>2 DEF Single
    <3> HIDE DEF q, r, n, x
    <3>4. ASSUME NEW k \in 2 .. Len(q) - 1 PROVE q[k] # x
      <4>1. k \in 2 .. n /\ k \in 1 .. n
        BY <2>2, <3>1
      <4>2. CASE k = n
        BY <3>1, <3>3, <4>1, <4>2
      <4>3. CASE k # n
        <5>1. k \in 2 .. n - 1
          BY <2>2, <4>1, <4>3
        <5> QED
          BY <2>6, <3>1, <4>1, <5>1
      <4> QED
        BY <4>2, <4>3
    <3> QED
      BY <2>7, <3>2, <3>4
  <2>9. CASE e # "/"
    <3>1. Len(q) = n /\ q[n] = Append(r[n], e) /\ \A k \in 1 .. n - 1 : q[k] = r[k]
      BY <2>2, <2>9 DEF Stepped
    <3>2. q[n] # x
      <4>1. n \in 1 .. Len(r)
        BY <2>2
      <4>2. r[n] \in Seq(S)
        BY <2>2, <4>1, ElementOfSeq
      <4> QED
        BY <3>1, <4>2, AppendProperties
    <3> HIDE DEF q, r, n, x
    <3>3. ASSUME NEW k \in 2 .. Len(q) - 1 PROVE q[k] # x
      <4>1. k \in 2 .. n - 1 /\ k \in 1 .. n - 1
        BY <2>2, <3>1
      <4> QED
        BY <2>6, <3>1, <4>1
    <3> QED
      BY <2>7, <3>1, <3>2, <3>3
  <2> QED
    BY <2>8, <2>9
<1> HIDE DEF Good
<1>3. Seq(S) \subseteq Good
  BY <1>1, <1>2, ListInduction
<1>4. Fine(t)
  BY <1>3 DEF Good
<1> QED
  BY <1>4

-----------------------------------------------------------------------------
(***************************************************************************)
(* What a prefix and a route match: the rest of a path, behind the prefix, *)
(* has the segments of the route.                                          *)
(***************************************************************************)

(* The least of some numbers. *)
LEMMA FirstIs ==
  ASSUME NEW S, S \subseteq Nat, S # {}
  PROVE  First(S) \in S /\ \A n \in S : First(S) <= n
<1>1. \E n \in S : \A m \in S : n <= m
  BY LeastMember
<1> QED
  BY <1>1 DEF First, Min

(* Of one number. *)
LEMMA FirstOfOne ==
  ASSUME NEW n \in Nat
  PROVE  First({n}) = n
BY FirstIs

(* The numbers of S up to n, as InOrder lists them. *)
Ordered(at, S, n) ==
  /\ at \in Seq(Nat)
  /\ \A j \in 1 .. Len(at) : at[j] \in S /\ at[j] \in 1 .. n
  /\ \A i, j \in 1 .. Len(at) : i < j => at[i] < at[j]
  /\ \A k \in 1 .. n : k \in S => \E j \in 1 .. Len(at) : at[j] = k

(* InOrder lists them so. *)
LEMMA InOrderIs ==
  ASSUME NEW S, NEW n \in Nat
  PROVE  Ordered(InOrder(S, n), S, n)
<1> DEFINE Good == {m \in Nat : Ordered(InOrder(S, m), S, m)}
<1>1. 0 \in Good
  <2>1. ASSUME NEW x, x = <<>> PROVE Ordered(x, S, 0)
    <3>1. x \in Seq(Nat) /\ Len(x) = 0
      BY <2>1, EmptySeq
    <3> QED
      BY <3>1 DEF Ordered
  <2>2. InOrder(S, 0) = <<>>
    BY InOrderGrows
  <2> QED
    BY <2>1, <2>2
<1>2. ASSUME NEW m \in Nat, m \in Good PROVE m + 1 \in Good
  <2> DEFINE a == InOrder(S, m)
             b == InOrder(S, m + 1)
  <2>1. b = IF m + 1 \in S THEN Append(a, m + 1) ELSE a
    BY InOrderGrows
  <2>2. Ordered(a, S, m)
    BY <1>2
  <2> HIDE DEF a, b
  <2>3. /\ a \in Seq(Nat) /\ Len(a) \in Nat
        /\ \A j \in 1 .. Len(a) : a[j] \in S /\ a[j] \in 1 .. m
        /\ \A i, j \in 1 .. Len(a) : i < j => a[i] < a[j]
        /\ \A k \in 1 .. m : k \in S => \E j \in 1 .. Len(a) : a[j] = k
    BY <2>2, LenProperties DEF Ordered
  <2>4. CASE m + 1 \notin S
    <3>1. \A k \in 1 .. m + 1 : k \in S => k \in 1 .. m
      BY <2>4
    <3>2. \A k \in 1 .. m : k \in 1 .. m + 1
      OBVIOUS
    <3>3. b = a
      BY <2>1, <2>4
    <3>4. Ordered(a, S, m + 1)
      BY <2>3, <3>1, <3>2 DEF Ordered
    <3> QED
      BY <3>3, <3>4 DEF b
  <2>5. CASE m + 1 \in S
    <3> DEFINE c == Append(a, m + 1)
               l == Len(a)
    <3>1. c \in Seq(Nat) /\ Len(c) = l + 1 /\ c[l + 1] = m + 1 /\ \A j \in 1 .. l : c[j] = a[j]
      <4>1. m + 1 \in Nat
        OBVIOUS
      <4> QED
        BY <2>3, <4>1, AppendProperties
    <3> HIDE DEF c
    <3>2. ASSUME NEW j \in 1 .. l + 1 PROVE c[j] \in S /\ c[j] \in 1 .. m + 1
      <4>1. CASE j = l + 1
        BY <2>5, <3>1, <4>1
      <4>2. CASE j # l + 1
        <5>1. j \in 1 .. l
          BY <2>3, <4>2
        <5>2. c[j] = a[j] /\ a[j] \in S /\ a[j] \in 1 .. m
          BY <2>3, <3>1, <5>1
        <5> QED
          BY <5>2
      <4> QED
        BY <4>1, <4>2
    <3>3. ASSUME NEW i \in 1 .. l + 1, NEW j \in 1 .. l + 1, i < j PROVE c[i] < c[j]
      <4>1. i \in 1 .. l /\ c[i] = a[i] /\ a[i] \in 1 .. m
        BY <2>3, <3>1, <3>3
      <4>2. CASE j = l + 1
        BY <3>1, <4>1, <4>2
      <4>3. CASE j # l + 1
        <5>1. j \in 1 .. l
          BY <2>3, <4>3
        <5> QED
          BY <2>3, <3>1, <3>3, <4>1, <5>1
      <4> QED
        BY <4>2, <4>3
    <3>4. ASSUME NEW k \in 1 .. m + 1, k \in S PROVE \E j \in 1 .. l + 1 : c[j] = k
      <4>1. CASE k = m + 1
        <5>1. l + 1 \in 1 .. l + 1 /\ c[l + 1] = k
          BY <2>3, <3>1, <4>1
        <5> QED
          BY <5>1
      <4>2. CASE k # m + 1
        <5>1. PICK j \in 1 .. l : a[j] = k
          BY <2>3, <3>4, <4>2
        <5>2. j \in 1 .. l + 1 /\ c[j] = k
          BY <2>3, <3>1, <5>1
        <5> QED
          BY <5>2
      <4> QED
        BY <4>1, <4>2
    <3>5. Ordered(c, S, m + 1)
      BY <3>1, <3>2, <3>3, <3>4 DEF Ordered
    <3> QED
      <4>1. b = c
        BY <2>1, <2>5 DEF c
      <4>2. Ordered(b, S, m + 1)
        BY <3>5, <4>1
      <4> QED
        BY <4>2 DEF b
  <2> QED
    BY <2>4, <2>5
<1>3. \A m \in Nat : m \in Good => m + 1 \in Good
  BY <1>2
<1> HIDE DEF Good
<1>4. Nat \subseteq Good
  BY <1>1, <1>3, NoLeastBad
<1> QED
  BY <1>4 DEF Good

(* All numbers moved up by one. *)
LEMMA InOrderShift ==
  ASSUME NEW S, NEW T, NEW b \in Nat, 1 \notin T, \A k \in 1 .. b : k + 1 \in T <=> k \in S
  PROVE  /\ Len(InOrder(T, b + 1)) = Len(InOrder(S, b))
         /\ \A j \in 1 .. Len(InOrder(S, b)) : InOrder(T, b + 1)[j] = InOrder(S, b)[j] + 1
<1> DEFINE Same(x, y) == Len(x) = Len(y) /\ \A j \in 1 .. Len(y) : x[j] = y[j] + 1
           Good == {m \in Nat : m <= b => Same(InOrder(T, m + 1), InOrder(S, m))}
<1>1. 0 \in Good
  <2>1. InOrder(T, 0 + 1) = InOrder(T, 0)
    BY InOrderGrows
  <2>2. ASSUME NEW x, x = <<>> PROVE Same(x, x)
    <3>1. Len(x) = 0
      BY <2>2, EmptySeq
    <3> QED
      BY <3>1
  <2>3. InOrder(T, 0) = <<>> /\ InOrder(S, 0) = <<>>
    BY InOrderGrows
  <2> HIDE DEF Same
  <2> QED
    BY <2>1, <2>2, <2>3
<1>2. ASSUME NEW m \in Nat, m \in Good PROVE m + 1 \in Good
  <2> DEFINE c == InOrder(T, m + 1)
             cc == InOrder(T, (m + 1) + 1)
             a == InOrder(S, m)
             aa == InOrder(S, m + 1)
  <2>1. SUFFICES ASSUME m + 1 <= b PROVE Same(cc, aa)
    OBVIOUS
  <2>2. Same(c, a)
    BY <1>2, <2>1
  <2>3. /\ cc = IF (m + 1) + 1 \in T THEN Append(c, (m + 1) + 1) ELSE c
        /\ aa = IF m + 1 \in S THEN Append(a, m + 1) ELSE a
    <3>1. m + 1 \in Nat
      OBVIOUS
    <3> QED
      BY <3>1, InOrderGrows
  <2>4. (m + 1) + 1 \in T <=> m + 1 \in S
    <3>1. m + 1 \in 1 .. b
      BY <2>1
    <3> QED
      BY <3>1
  <2>5. a \in Seq(Nat) /\ c \in Seq(Nat) /\ Len(a) \in Nat
    <3>1. m + 1 \in Nat
      OBVIOUS
    <3> QED
      BY <3>1, InOrderIs, LenProperties DEF Ordered
  <2> HIDE DEF a, c, aa, cc
  <2>6. CASE m + 1 \in S
    <3> DEFINE p == Append(c, (m + 1) + 1)
               q == Append(a, m + 1)
               l == Len(a)
    <3>1. m + 1 \in Nat /\ (m + 1) + 1 \in Nat /\ Len(c) = l
      BY <2>2
    <3>2. Len(p) = l + 1 /\ p[l + 1] = (m + 1) + 1 /\ \A j \in 1 .. l : p[j] = c[j]
      BY <2>5, <3>1, AppendProperties
    <3>3. Len(q) = l + 1 /\ q[l + 1] = m + 1 /\ \A j \in 1 .. l : q[j] = a[j]
      BY <2>5, <3>1, AppendProperties
    <3>4. cc = p /\ aa = q
      BY <2>3, <2>4, <2>6
    <3> HIDE DEF p, q
    <3>5. ASSUME NEW j \in 1 .. l + 1 PROVE p[j] = q[j] + 1
      <4>1. CASE j = l + 1
        BY <3>2, <3>3, <4>1
      <4>2. CASE j # l + 1
        <5>1. j \in 1 .. l
          BY <2>5, <4>2
        <5> QED
          BY <2>2, <3>2, <3>3, <5>1
      <4> QED
        BY <4>1, <4>2
    <3> QED
      BY <3>2, <3>3, <3>4, <3>5
  <2>7. CASE m + 1 \notin S
    BY <2>2, <2>3, <2>4, <2>7
  <2> QED
    BY <2>6, <2>7
<1>3. \A m \in Nat : m \in Good => m + 1 \in Good
  BY <1>2
<1> HIDE DEF Good
<1>4. Nat \subseteq Good
  BY <1>1, <1>3, NoLeastBad
<1> QED
  BY <1>4 DEF Good

(* All numbers but the first. *)
LEMMA InOrderRun ==
  ASSUME NEW n \in Nat, NEW b \in Nat, b >= 1, n = b \/ n = b + 1
  PROVE  /\ Len(InOrder(2 .. b, n)) = b - 1
         /\ \A j \in 1 .. b - 1 : InOrder(2 .. b, n)[j] = j + 1
<1> DEFINE S == 2 .. b
           Is(x, m) == Len(x) = m - 1 /\ \A j \in 1 .. m - 1 : x[j] = j + 1
           Good == {m \in Nat : m + 1 <= b => Is(InOrder(S, m + 1), m + 1)}
<1>1. 0 \in Good
  <2>1. InOrder(S, 0 + 1) = InOrder(S, 0) /\ InOrder(S, 0) = <<>>
    BY InOrderGrows
  <2>2. ASSUME NEW x, x = <<>> PROVE Is(x, 0 + 1)
    <3>1. Len(x) = 0
      BY <2>2, EmptySeq
    <3> QED
      BY <3>1
  <2> HIDE DEF Is
  <2> QED
    BY <2>1, <2>2
<1>2. ASSUME NEW m \in Nat, m \in Good PROVE m + 1 \in Good
  <2> DEFINE a == InOrder(S, m + 1)
             aa == InOrder(S, (m + 1) + 1)
             p == Append(a, (m + 1) + 1)
  <2>1. SUFFICES ASSUME (m + 1) + 1 <= b PROVE Is(aa, (m + 1) + 1)
    OBVIOUS
  <2>2. Is(a, m + 1)
    BY <1>2, <2>1
  <2>3. aa = p
    <3>1. m + 1 \in Nat /\ (m + 1) + 1 \in S
      BY <2>1
    <3> HIDE DEF S
    <3> QED
      BY <3>1, InOrderGrows
  <2>4. a \in Seq(Nat) /\ Len(a) = m
    <3>1. m + 1 \in Nat
      OBVIOUS
    <3> QED
      BY <2>2, <3>1, InOrderIs DEF Ordered
  <2>5. Len(p) = m + 1 /\ p[m + 1] = (m + 1) + 1 /\ \A j \in 1 .. m : p[j] = a[j]
    <3>1. (m + 1) + 1 \in Nat
      OBVIOUS
    <3> HIDE DEF a
    <3> QED
      BY <2>4, <3>1, AppendProperties
  <2> HIDE DEF a, aa, p
  <2> QED
    BY <2>2, <2>3, <2>5
<1>3. \A m \in Nat : m \in Good => m + 1 \in Good
  BY <1>2
<1> HIDE DEF Good
<1>4. Nat \subseteq Good
  BY <1>1, <1>3, NoLeastBad
<1>5. Is(InOrder(S, b), b)
  <2>1. b - 1 \in Nat /\ (b - 1) + 1 = b
    OBVIOUS
  <2>2. b - 1 \in Good
    BY <1>4, <2>1
  <2> QED
    BY <2>1, <2>2 DEF Good
<1>6. InOrder(S, b + 1) = InOrder(S, b)
  <2>1. b + 1 \notin S
    OBVIOUS
  <2> HIDE DEF S
  <2> QED
    BY <2>1, InOrderGrows
<1> QED
  BY <1>5, <1>6

(* What is chosen of a list. *)
LEMMA ChosenIs ==
  ASSUME NEW T, NEW s \in Seq(T), NEW S
  PROVE  /\ Chosen(s, S) \in Seq(T)
         /\ Ordered(InOrder(S, Len(s)), S, Len(s))
         /\ Len(Chosen(s, S)) = Len(InOrder(S, Len(s)))
         /\ \A j \in 1 .. Len(InOrder(S, Len(s))) : Chosen(s, S)[j] = s[InOrder(S, Len(s))[j]]
<1> DEFINE at == InOrder(S, Len(s))
           c == [j \in 1 .. Len(at) |-> s[at[j]]]
<1>1. Len(s) \in Nat
  BY LenProperties
<1>2. Ordered(at, S, Len(s))
  BY <1>1, InOrderIs
<1> HIDE DEF at
<1>3. Len(at) \in Nat /\ DOMAIN at = 1 .. Len(at)
  BY <1>2, LenProperties DEF Ordered
<1>4. Chosen(s, S) = c
  BY <1>3 DEF Chosen, at
<1>5. \A j \in 1 .. Len(at) : s[at[j]] \in T
  BY <1>2, ElementOfSeq DEF Ordered
<1>6. c \in Seq(T) /\ Len(c) = Len(at)
  BY <1>3, <1>5
<1> QED
  BY <1>2, <1>4, <1>6 DEF at

(* The places of the segments among the pieces. *)
SegmentsAt(ps) == {k \in DOMAIN ps : ps[k] # <<>>}

(* A slash in front changes no segment. *)
LEMMA SegmentsRooted ==
  ASSUME NEW S, "/" \in S, NEW t \in Seq(S)
  PROVE  Segments(<<"/">> \o t) = Segments(t)
<1> DEFINE u == <<"/">> \o t
           a == Pieces(t)
           c == Pieces(u)
           A == SegmentsAt(a)
           C == SegmentsAt(c)
           n == Len(a)
<1>1. u \in Seq(S)
  BY ConcatProperties
<1>2. Shifted(c, a)
  BY PiecesRooted
<1>3. /\ a \in Seq(Seq(S)) /\ n \in Nat /\ c \in Seq(Seq(S)) /\ Len(c) = n + 1
      /\ DOMAIN a = 1 .. n /\ DOMAIN c = 1 .. n + 1
  <2>1. a \in Seq(Seq(S)) /\ c \in Seq(Seq(S)) /\ n \in Nat
    BY <1>1, PiecesType
  <2> HIDE DEF u
  <2>2. Len(c) = n + 1
    BY <1>2 DEF Shifted
  <2> HIDE DEF a, c
  <2> QED
    BY <2>1, <2>2, LenProperties
<1>4. Segments(u) = Chosen(c, C) /\ Segments(t) = Chosen(a, A)
  BY DEF Segments, SegmentsAt
<1>5. 1 \notin C /\ \A k \in 1 .. n : k + 1 \in C <=> k \in A
  <2> HIDE DEF u, a, c, n
  <2>1. c[1] = <<>> /\ \A k \in 1 .. n : c[k + 1] = a[k]
    BY <1>2 DEF Shifted, n
  <2>2. ASSUME NEW k \in 1 .. n PROVE k + 1 \in DOMAIN c /\ k \in DOMAIN a
    BY <1>3
  <2> QED
    BY <2>1, <2>2 DEF SegmentsAt
<1> DEFINE x == InOrder(A, n)
           y == InOrder(C, n + 1)
<1> HIDE DEF u, a, c, A, C
<1>6. Len(y) = Len(x) /\ \A j \in 1 .. Len(x) : y[j] = x[j] + 1
  BY <1>3, <1>5, InOrderShift
<1>7. /\ Chosen(a, A) \in Seq(Seq(S)) /\ Ordered(x, A, n) /\ Len(Chosen(a, A)) = Len(x)
      /\ \A j \in 1 .. Len(x) : Chosen(a, A)[j] = a[x[j]]
  BY <1>3, ChosenIs
<1>8. /\ Chosen(c, C) \in Seq(Seq(S)) /\ Len(Chosen(c, C)) = Len(y)
      /\ \A j \in 1 .. Len(y) : Chosen(c, C)[j] = c[y[j]]
  BY <1>3, ChosenIs
<1> HIDE DEF x, y
<1>9. ASSUME NEW j \in 1 .. Len(x) PROVE Chosen(c, C)[j] = Chosen(a, A)[j]
  <2>1. x[j] \in 1 .. n
    BY <1>7 DEF Ordered
  <2>2. c[x[j] + 1] = a[x[j]]
    BY <1>2, <2>1 DEF Shifted, n
  <2> QED
    BY <1>6, <1>7, <1>8, <2>2
<1>10. Chosen(c, C) = Chosen(a, A)
  BY <1>6, <1>7, <1>8, <1>9, SeqEqual
<1> QED
  BY <1>4, <1>10 DEF u

(* The pieces of a route and of the path that it matches, behind its       *)
(* prefix.                                                                 *)
Aligned(ps, qs) ==
  /\ Len(qs) = Len(ps) /\ Len(ps) >= 2 /\ ps[1] = <<>> /\ qs[1] = <<>>
  /\ \A k \in 2 .. Len(ps) : IF IsParam(ps[k]) THEN qs[k] # <<>> ELSE ps[k] = qs[k]

(* A piece that is empty is no parameter. *)
LEMMA NothingIsNoParam ==
  ASSUME NEW x, x = <<>>
  PROVE  ~IsParam(x)
<1>1. Len(x) = 0
  BY EmptySeq
<1> QED
  BY <1>1 DEF IsParam

(* What the parameters of a name in a route come after a prefix without.   *)
LEMMA NamedBehind ==
  ASSUME NEW f, NEW ps, NEW rs, IsList(f), IsList(ps), IsList(rs),
         Glued(f, ps, rs), Len(ps) >= 1, Len(rs) >= 2, ~IsParam(rs[1]),
         \A k \in 1 .. Len(ps) : ~IsParam(ps[k]), NEW name, Named(rs, name) # {}
  PROVE  /\ First(Named(rs, name)) \in 2 .. Len(rs)
         /\ First(Named(f, name)) = Len(ps) + First(Named(rs, name)) - 1
<1> DEFINE m == Len(ps)
           n == Len(rs)
           A == Named(rs, name)
           F == Named(f, name)
           Is(x) == IsParam(x) /\ ParamName(x) = name
<1>1. /\ m \in Nat /\ n \in Nat /\ DOMAIN rs = 1 .. n
      /\ DOMAIN f = 1 .. m + n - 1
  BY SeqFacts DEF Glued
<1>2. /\ \A k \in 1 .. m : f[k] = ps[k]
      /\ \A k \in 2 .. n : f[m + k - 1] = rs[k]
  BY DEF Glued
<1>3. A = {k \in 1 .. n : Is(rs[k])} /\ F = {k \in 1 .. m + n - 1 : Is(f[k])}
  BY <1>1 DEF Named, ParamsIn
<1>4. ~Is(rs[1]) /\ \A k \in 1 .. m : ~Is(ps[k])
  OBVIOUS
<1> HIDE DEF A, F, Is, m, n
<1> DEFINE j == First(A)
<1>5. j \in A /\ \A k \in A : j <= k
  <2>1. A # {}
    BY DEF A
  <2>2. A \subseteq Nat
    BY <1>1, <1>3
  <2> QED
    BY <2>1, <2>2, FirstIs
<1>6. j \in 2 .. n
  BY <1>1, <1>3, <1>4, <1>5
<1> HIDE DEF j
<1>7. m + j - 1 \in F
  <2>1. f[m + j - 1] = rs[j] /\ Is(rs[j]) /\ m + j - 1 \in 1 .. m + n - 1
    BY <1>1, <1>2, <1>3, <1>5, <1>6
  <2> QED
    BY <1>3, <2>1
<1>8. ASSUME NEW i \in F PROVE m + j - 1 <= i
  <2>1. i \in 1 .. m + n - 1 /\ Is(f[i])
    BY <1>3, <1>8
  <2>2. i \notin 1 .. m
    BY <1>2, <1>4, <2>1
  <2>3. i - m + 1 \in 2 .. n /\ m + (i - m + 1) - 1 = i
    BY <1>1, <2>1, <2>2
  <2>4. rs[i - m + 1] = f[i]
    BY <1>2, <2>3
  <2>5. i - m + 1 \in A
    BY <1>1, <1>3, <2>1, <2>3, <2>4
  <2>6. j <= i - m + 1
    BY <1>5, <2>5
  <2> QED
    BY <1>1, <1>6, <2>1, <2>6
<1>9. First(F) = m + j - 1
  <2>0. 1 .. m + n - 1 \subseteq Nat
    BY <1>1
  <2>1. F \subseteq Nat /\ F # {}
    BY <1>3, <1>7, <2>0
  <2>2. First(F) \in F /\ \A i \in F : First(F) <= i
    BY <2>1, FirstIs
  <2> HIDE DEF F
  <2>3. First(F) \in Nat /\ m + j - 1 \in Nat
    <3>1. First(F) \in Nat
      BY <2>1, <2>2
    <3>2. m >= 1 /\ n >= 2
      BY DEF m, n
    <3> QED
      BY <1>1, <1>6, <3>1, <3>2
  <2>4. First(F) <= m + j - 1 /\ m + j - 1 <= First(F)
    BY <1>7, <1>8, <2>2
  <2> QED
    BY <2>3, <2>4
<1> QED
  BY <1>6, <1>9 DEF j, A, F, m, n

(* A path that a route matches is its prefix and a rest that matches what  *)
(* the route is without it; and what it captures, it captures there.       *)
IsRest(b, p, r, path) ==
  /\ path = p \o b /\ b # <<>> /\ b[1] = "/" /\ Aligned(Pieces(r), Pieces(b))
  /\ \A name : Named(Pieces(r), name) # {} =>
       Captured(p \o r, path, name) = Pieces(b)[First(Named(Pieces(r), name))]

(* A path that a literal prefix and a route match has such a rest. *)
LEMMA MatchedRest ==
  ASSUME NEW S, "/" \in S, NEW p \in Seq(S), NEW r \in Seq(S), r # <<>>, r[1] = "/",
         \A k \in 1 .. Len(Pieces(p)) : ~IsParam(Pieces(p)[k]),
         NEW path \in Seq(S), PathMatches(p \o r, path)
  PROVE  \E b \in Seq(S) : IsRest(b, p, r, path)
<1> DEFINE f == Pieces(p \o r)
           ps == Pieces(p)
           rs == Pieces(r)
           gs == Pieces(path)
           m == Len(ps)
           n == Len(rs)
<1>1. p \o r \in Seq(S)
  BY ConcatProperties
<1>2. /\ f \in Seq(Seq(S)) /\ ps \in Seq(Seq(S)) /\ rs \in Seq(Seq(S)) /\ gs \in Seq(Seq(S))
      /\ m \in Nat /\ m >= 1
  BY <1>1, PiecesType
<1>3. n \in Nat /\ n >= 2 /\ rs[1] = <<>> /\ Glued(f, ps, rs)
  BY PiecesJoin
<1>4. /\ Len(f) = Len(gs)
      /\ \A k \in DOMAIN f : IF IsParam(f[k]) THEN gs[k] # <<>> ELSE f[k] = gs[k]
  BY DEF PathMatches
<1>5. \A k \in 1 .. m : ~IsParam(ps[k])
  OBVIOUS
<1>7. \A name : Captured(p \o r, path, name) = gs[First(Named(f, name))]
  BY DEF Captured
<1> HIDE DEF f, rs
<1>8. DOMAIN f = 1 .. m + n - 1 /\ Len(gs) = m + n - 1
  BY <1>2, <1>3, <1>4, LenProperties DEF Glued
<1>9. ASSUME NEW k \in 1 .. m PROVE gs[k] = ps[k]
  <2>1. k \in DOMAIN f
    BY <1>2, <1>3, <1>8
  <2>2. f[k] = ps[k]
    BY <1>3 DEF Glued
  <2>3. ~IsParam(ps[k])
    BY <1>5
  <2> QED
    BY <1>4, <2>1, <2>2, <2>3
<1>10. m < Len(gs)
  BY <1>2, <1>3, <1>8
<1>11. PICK b \in Seq(S) : path = p \o b /\ b # <<>> /\ b[1] = "/"
  BY <1>9, <1>10, PiecesSplit
<1> DEFINE bs == Pieces(b)
<1>12. Len(bs) \in Nat /\ bs[1] = <<>> /\ Glued(gs, ps, bs)
  BY <1>11, PiecesJoin
<1> HIDE DEF gs, ps, m, n, bs
<1>13. Len(bs) = n
  BY <1>2, <1>3, <1>8, <1>12 DEF Glued, m
<1>14. ASSUME NEW k \in 2 .. n
       PROVE  /\ m + k - 1 \in 1 .. m + n - 1
              /\ f[m + k - 1] = rs[k] /\ gs[m + k - 1] = bs[k]
  <2>1. m + k - 1 \in 1 .. m + n - 1
    BY <1>2, <1>3
  <2>2. f[m + k - 1] = rs[k]
    BY <1>3 DEF Glued, m, n
  <2>3. gs[m + k - 1] = bs[k]
    BY <1>12, <1>13 DEF Glued, m
  <2> QED
    BY <2>1, <2>2, <2>3
<1>15. Aligned(rs, bs)
  <2>1. ASSUME NEW k \in 2 .. n PROVE IF IsParam(rs[k]) THEN bs[k] # <<>> ELSE rs[k] = bs[k]
    BY <1>4, <1>8, <1>14
  <2> QED
    BY <1>3, <1>12, <1>13, <2>1 DEF Aligned, n
<1>16. ASSUME NEW name, Named(rs, name) # {}
       PROVE  Captured(p \o r, path, name) = bs[First(Named(rs, name))]
  <2> DEFINE j == First(Named(rs, name))
  <2>0. /\ Len(ps) >= 1 /\ Len(rs) >= 2 /\ \A k \in 1 .. Len(ps) : ~IsParam(ps[k])
        /\ IsList(f) /\ IsList(ps) /\ IsList(rs)
    BY <1>2, <1>3, <1>5 DEF m, n, IsList
  <2>3. ~IsParam(rs[1])
    BY <1>3, NothingIsNoParam
  <2>1. j \in 2 .. Len(rs) /\ First(Named(f, name)) = Len(ps) + j - 1
    BY <1>3, <1>16, <2>0, <2>3, NamedBehind
  <2> HIDE DEF j
  <2>2. gs[m + j - 1] = bs[j]
    BY <1>14, <2>1 DEF n
  <2>4. Captured(p \o r, path, name) = gs[m + j - 1]
    BY <1>7, <2>1 DEF m
  <2> QED
    BY <2>2, <2>4 DEF j
<1> QED
  BY <1>11, <1>15, <1>16 DEF rs, bs, IsRest

(* What Segments chooses of aligned pieces are the same places. *)
LEMMA AlignedSegments ==
  ASSUME NEW S, NEW ps \in Seq(Seq(S)), NEW qs \in Seq(Seq(S)), Aligned(ps, qs)
  PROVE  SegmentsAt(qs) = SegmentsAt(ps)
<1> DEFINE n == Len(ps)
<1>1. n \in Nat /\ DOMAIN ps = 1 .. n /\ DOMAIN qs = 1 .. n
  BY LenProperties DEF Aligned
<1>2. ASSUME NEW k \in 1 .. n PROVE ps[k] = <<>> <=> qs[k] = <<>>
  <2>1. CASE k = 1
    BY <2>1 DEF Aligned
  <2>2. CASE k # 1
    <3>1. k \in 2 .. n
      BY <1>1, <2>2
    <3>2. IF IsParam(ps[k]) THEN qs[k] # <<>> ELSE ps[k] = qs[k]
      BY <3>1 DEF Aligned
    <3>3. ps[k] = <<>> => ~IsParam(ps[k])
      BY NothingIsNoParam
    <3> QED
      BY <3>2, <3>3
  <2> QED
    BY <2>1, <2>2
<1> QED
  BY <1>1, <1>2 DEF SegmentsAt

(* The first segment of a name stands where the first piece of it does. *)
LEMMA NamedSegment ==
  ASSUME NEW S, NEW ps \in Seq(Seq(S)), NEW name, Named(ps, name) # {},
         NEW c, c = Chosen(ps, SegmentsAt(ps)), NEW at, at = InOrder(SegmentsAt(ps), Len(ps))
  PROVE  /\ First(Named(c, name)) \in 1 .. Len(at)
         /\ at[First(Named(c, name))] = First(Named(ps, name))
<1> DEFINE n == Len(ps)
           C == SegmentsAt(ps)
           A == Named(ps, name)
           B == Named(c, name)
           Is(x) == IsParam(x) /\ ParamName(x) = name
<1>1. n \in Nat /\ DOMAIN ps = 1 .. n
  BY LenProperties
<1>2. /\ c \in Seq(Seq(S)) /\ Ordered(at, C, n) /\ Len(c) = Len(at)
      /\ \A j \in 1 .. Len(at) : c[j] = ps[at[j]]
  BY ChosenIs
<1>3. Len(at) \in Nat /\ DOMAIN c = 1 .. Len(at)
  BY <1>2, LenProperties DEF Ordered
<1>4. A = {k \in 1 .. n : Is(ps[k])} /\ B = {j \in 1 .. Len(at) : Is(c[j])}
  BY <1>1, <1>3 DEF Named, ParamsIn
<1>5. \A k \in 1 .. n : Is(ps[k]) => k \in C
  BY <1>1, NothingIsNoParam DEF SegmentsAt
<1> HIDE DEF A, B, Is, C, n
<1> DEFINE k == First(A)
<1>6. k \in A /\ \A i \in A : k <= i
  <2>0. A # {}
    BY DEF A
  <2>1. A \subseteq Nat /\ A # {}
    BY <1>1, <1>4, <2>0
  <2> QED
    BY <2>1, FirstIs
<1> HIDE DEF k
<1>7. PICK j \in 1 .. Len(at) : at[j] = k
  BY <1>2, <1>4, <1>5, <1>6 DEF Ordered
<1>8. j \in B
  BY <1>2, <1>4, <1>6, <1>7
<1>9. ASSUME NEW i \in B PROVE j <= i
  <2>1. i \in 1 .. Len(at) /\ Is(ps[at[i]]) /\ at[i] \in 1 .. n
    BY <1>2, <1>4, <1>9 DEF Ordered
  <2>2. at[j] <= at[i]
    BY <1>4, <1>6, <1>7, <2>1
  <2>3. i < j => at[i] < at[j]
    BY <1>2, <1>7, <2>1 DEF Ordered
  <2>4. at[j] \in Nat /\ at[i] \in Nat /\ i \in Nat /\ j \in Nat
    <3>1. at[j] \in 1 .. n
      BY <1>2, <1>7 DEF Ordered
    <3> QED
      BY <1>1, <1>3, <1>7, <2>1, <3>1
  <2>5. ~(i < j)
    BY <2>2, <2>3, <2>4
  <2> QED
    BY <2>4, <2>5
<1>10. First(B) = j
  <2>1. B \subseteq Nat /\ B # {}
    BY <1>3, <1>4, <1>8
  <2>2. First(B) \in B /\ \A i \in B : First(B) <= i
    BY <2>1, FirstIs
  <2>3. First(B) \in Nat /\ j \in Nat /\ First(B) <= j /\ j <= First(B)
    BY <1>3, <1>8, <1>9, <2>1, <2>2
  <2> QED
    BY <2>3
<1> QED
  BY <1>7, <1>10 DEF A, B, k

(* What join puts behind the prefix, for a prefix that does not end in "/".*)
Rooted(path) == IF path # <<>> /\ Head(path) = "/" THEN path ELSE <<"/">> \o path

(* It starts with a slash, and has the segments and parameters of the path. *)
LEMMA RootedIs ==
  ASSUME NEW S, "/" \in S, NEW path \in Seq(S)
  PROVE  /\ Rooted(path) \in Seq(S) /\ Rooted(path) # <<>> /\ Rooted(path)[1] = "/"
         /\ Segments(Rooted(path)) = Segments(path)
         /\ \A name : Named(Pieces(path), name) # {} => Named(Pieces(Rooted(path)), name) # {}
<1>1. CASE path # <<>> /\ Head(path) = "/"
  BY <1>1, HeadTailProperties DEF Rooted
<1>2. CASE ~(path # <<>> /\ Head(path) = "/")
  <2> DEFINE r == <<"/">> \o path
             ps == Pieces(path)
             rs == Pieces(r)
  <2>1. Rooted(path) = r
    BY <1>2 DEF Rooted
  <2>2. r \in Seq(S) /\ Len(r) = Len(path) + 1 /\ r[1] = "/"
    BY ConcatProperties
  <2>3. r # <<>>
    BY <2>2, LenProperties, EmptySeq
  <2>4. Segments(r) = Segments(path)
    BY SegmentsRooted
  <2>5. Shifted(rs, ps) /\ rs \in Seq(Seq(S)) /\ ps \in Seq(Seq(S))
    BY <2>2, PiecesRooted, PiecesType
  <2> HIDE DEF rs, ps
  <2>6. DOMAIN ps = 1 .. Len(ps) /\ DOMAIN rs = 1 .. Len(ps) + 1 /\ Len(ps) \in Nat
    BY <2>5, LenProperties DEF Shifted
  <2>7. ASSUME NEW name, Named(ps, name) # {} PROVE Named(rs, name) # {}
    <3>1. PICK k \in DOMAIN ps : IsParam(ps[k]) /\ ParamName(ps[k]) = name
      BY <2>7 DEF Named, ParamsIn
    <3>2. k + 1 \in DOMAIN rs /\ k \in 1 .. Len(ps)
      BY <2>6
    <3>3. rs[k + 1] = ps[k]
      BY <2>5, <3>2 DEF Shifted
    <3> QED
      BY <3>1, <3>2, <3>3 DEF Named, ParamsIn
  <2> QED
    BY <2>1, <2>2, <2>3, <2>4, <2>7 DEF rs, ps
<1> QED
  BY <1>1, <1>2

(* A prefix that is literal and does not end in "/". *)
Literally(prefix) ==
  prefix # <<>> => prefix[Len(prefix)] # "/" /\ \A i \in DOMAIN prefix : prefix[i] # "{"

(* Joining puts it behind a prefix as it is. *)
LEMMA JoinIs ==
  ASSUME NEW S, NEW prefix \in Seq(S), Literally(prefix), NEW path
  PROVE  Join(prefix, path) = prefix \o Rooted(path)
<1> DEFINE n == Len(prefix)
           D == {i \in DOMAIN prefix : prefix[i] # "/"} \union {0}
<1>1. n \in Nat /\ DOMAIN prefix = 1 .. n
  BY LenProperties
<1>2. Max(D) = n
  <2>1. D \subseteq 0 .. n /\ D # {}
    BY <1>1
  <2>2. n \in D
    <3>1. CASE n = 0
      BY <3>1
    <3>2. CASE n # 0
      <4>1. prefix # <<>> /\ n \in DOMAIN prefix
        BY <1>1, <3>2, EmptySeq
      <4>2. prefix[n] # "/"
        BY <4>1 DEF Literally
      <4> QED
        BY <4>1, <4>2
    <3> QED
      BY <3>1, <3>2
  <2> HIDE DEF D
  <2>3. Max(D) \in D /\ n <= Max(D)
    BY <1>1, <2>1, <2>2, GreatestMember
  <2> HIDE DEF n
  <2>4. Max(D) \in 0 .. n
    BY <2>1, <2>3
  <2> QED
    BY <1>1, <2>3, <2>4
<1>3. TrimSlashes(prefix) = prefix
  BY <1>2, SubSeqFull DEF TrimSlashes
<1> QED
  BY <1>3 DEF Join, Rooted

(* No piece of it is a parameter. *)
LEMMA LiteralPieces ==
  ASSUME NEW S, NEW prefix \in Seq(S), Literally(prefix)
  PROVE  \A k \in 1 .. Len(Pieces(prefix)) : ~IsParam(Pieces(prefix)[k])
<1> DEFINE T == S \ {"{"}
           ps == Pieces(prefix)
<1>1. prefix \in Seq(T)
  <2>1. Len(prefix) \in Nat /\ DOMAIN prefix = 1 .. Len(prefix)
    BY LenProperties
  <2>2. ASSUME NEW i \in 1 .. Len(prefix) PROVE prefix[i] \in T
    <3>1. prefix # <<>>
      BY <2>1, EmptySeq
    <3> QED
      BY <2>1, <3>1, ElementOfSeq DEF Literally
  <2> QED
    <3>1. prefix \in [1 .. Len(prefix) -> S]
      BY LenProperties
    <3>2. prefix \in [1 .. Len(prefix) -> T]
      BY <2>2, <3>1
    <3> HIDE DEF T
    <3> QED
      BY <2>1, <3>2
<1>2. ps \in Seq(Seq(T))
  BY <1>1, PiecesType
<1> HIDE DEF ps
<1>3. ASSUME NEW k \in 1 .. Len(ps) PROVE ~IsParam(ps[k])
  <2> DEFINE x == ps[k]
  <2>1. x \in Seq(T)
    <3> HIDE DEF T
    <3> QED
      BY <1>2, ElementOfSeq
  <2> HIDE DEF x
  <2>2. CASE x = <<>>
    BY <2>2, NothingIsNoParam DEF x
  <2>3. CASE x # <<>>
    <3>1. Head(x) \in T
      BY <2>1, <2>3, HeadTailProperties
    <3> QED
      BY <3>1 DEF IsParam, x
  <2> QED
    BY <2>2, <2>3
<1> QED
  BY <1>3 DEF ps

(* What is left of a path behind its prefix. *)
LEMMA BehindPrefix ==
  ASSUME NEW S, NEW p \in Seq(S), NEW b \in Seq(S), b # <<>>
  PROVE  IsPrefix(p, p \o b) /\ Without(p, p \o b) = b
<1> DEFINE t == p \o b
           m == Len(p)
           n == Len(b)
<1>1. /\ t \in Seq(S) /\ Len(t) = m + n
      /\ \A i \in 1 .. m : t[i] = p[i]
      /\ \A i \in 1 .. n : t[m + i] = b[i]
  BY ConcatProperties
<1>2. m \in Nat /\ n \in Nat /\ n >= 1 /\ DOMAIN t = 1 .. m + n
  BY <1>1, LenProperties, EmptySeq
<1> HIDE DEF t
<1> DEFINE u == SubSeq(t, 1, m)
           v == SubSeq(t, m + 1, m + n)
<1>3. \A i \in 1 .. m + n : t[i] \in S
  BY <1>1, <1>2, ElementOfSeq
<1> HIDE DEF m, n
<1>4. u \in Seq(S) /\ Len(u) = m /\ \A i \in 1 .. m : u[i] = t[i]
  <2>1. /\ u \in Seq(S) /\ Len(u) = IF 1 <= m THEN m - 1 + 1 ELSE 0
        /\ \A i \in 1 .. m - 1 + 1 : u[i] = t[1 + i - 1]
    <3>1. \A i \in 1 .. m : t[i] \in S
      BY <1>2, <1>3
    <3> QED
      BY <1>2, <3>1, SubSeqProperties
  <2> HIDE DEF u
  <2> QED
    BY <1>2, <2>1
<1>5. v \in Seq(S) /\ Len(v) = n /\ \A i \in 1 .. n : v[i] = t[m + i]
  <2>1. /\ v \in Seq(S) /\ Len(v) = IF m + 1 <= m + n THEN m + n - (m + 1) + 1 ELSE 0
        /\ \A i \in 1 .. m + n - (m + 1) + 1 : v[i] = t[m + 1 + i - 1]
    <3>1. \A i \in m + 1 .. m + n : t[i] \in S
      BY <1>2, <1>3
    <3> QED
      BY <1>2, <3>1, SubSeqProperties
  <2> HIDE DEF v
  <2> QED
    BY <1>2, <2>1
<1> HIDE DEF u, v
<1>6. u = p
  BY <1>1, <1>4, SeqEqual DEF m
<1>7. v = b
  BY <1>1, <1>5, SeqEqual DEF n
<1>8. SubSeq(p, 1, Len(p)) = p
  BY SubSeqFull
<1> QED
  BY <1>1, <1>2, <1>6, <1>7, <1>8 DEF t, u, v, m, IsPrefix, Without

(* path_sticky.rs extracts the segment that the router matched. *)
LEMMA KeyIsCaptured ==
  ASSUME NEW S, "/" \in S, NEW p \in Seq(S), Literally(p), NEW route \in Seq(S),
         NEW path \in Seq(S), PathMatches(Join(p, route), path), NEW name \in ParamNames(route)
  PROVE  ExtractParam(route, p, path, name) = Captured(Join(p, route), path, name)
<1> DEFINE r == Rooted(route)
           rs == Pieces(r)
<1>1. /\ r \in Seq(S) /\ r # <<>> /\ r[1] = "/" /\ Segments(r) = Segments(route)
      /\ Named(rs, name) # {}
  <2>1. Named(Pieces(route), name) # {}
    BY DEF ParamNames, Named
  <2> QED
    BY <2>1, RootedIs
<1>2. Join(p, route) = p \o r
  BY JoinIs
<1>3. \A k \in 1 .. Len(Pieces(p)) : ~IsParam(Pieces(p)[k])
  BY LiteralPieces
<1> HIDE DEF r
<1>13. PathMatches(p \o r, path)
  BY <1>2
<1> HIDE DEF rs
<1>14. PICK b \in Seq(S) : IsRest(b, p, r, path)
  BY <1>1, <1>3, <1>13, MatchedRest
<1>4. /\ path = p \o b /\ b # <<>> /\ b[1] = "/" /\ Aligned(rs, Pieces(b))
      /\ Captured(p \o r, path, name) = Pieces(b)[First(Named(rs, name))]
  BY <1>1, <1>14 DEF IsRest, rs
<1> DEFINE bs == Pieces(b)
           C == SegmentsAt(rs)
           c == Chosen(rs, C)
           at == InOrder(C, Len(rs))
           j == First(Named(c, name))
<1>5. rs \in Seq(Seq(S)) /\ bs \in Seq(Seq(S))
  BY <1>1, PiecesType DEF rs
<1>6. SegmentsAt(bs) = C /\ Len(bs) = Len(rs)
  BY <1>4, <1>5, AlignedSegments DEF Aligned
<1>7. Segments(route) = c /\ Segments(b) = Chosen(bs, C)
  BY <1>1, <1>6 DEF Segments, SegmentsAt, rs
<1> HIDE DEF C, rs, bs
<1>8. j \in 1 .. Len(at) /\ at[j] = First(Named(rs, name))
  BY <1>1, <1>5, NamedSegment DEF C
<1> HIDE DEF c, j
<1>9. /\ Chosen(bs, C) \in Seq(Seq(S)) /\ Len(Chosen(bs, C)) = Len(at)
      /\ Chosen(bs, C)[j] = bs[at[j]]
  <2> DEFINE T == Seq(S)
  <2> HIDE DEF T
  <2>1. bs \in Seq(T)
    BY <1>5 DEF T
  <2>2. /\ Chosen(bs, C) \in Seq(T) /\ Len(Chosen(bs, C)) = Len(at)
        /\ \A k \in 1 .. Len(at) : Chosen(bs, C)[k] = bs[at[k]]
    <3>1. InOrder(C, Len(bs)) = at
      BY <1>6
    <3> HIDE DEF at
    <3> QED
      BY <2>1, <3>1, ChosenIs
  <2> QED
    BY <1>8, <2>2 DEF T
<1>10. j \in DOMAIN Segments(b)
  BY <1>7, <1>8, <1>9, LenProperties
<1>11. IsPrefix(p, path) /\ Without(p, path) = b
  BY <1>4, BehindPrefix
<1>12. ExtractParam(route, p, path, name) = Segments(b)[j]
  BY <1>7, <1>10, <1>11 DEF ExtractParam, j
<1> QED
  BY <1>2, <1>4, <1>7, <1>8, <1>9, <1>12 DEF bs

-----------------------------------------------------------------------------
(***************************************************************************)
(* Templates: what proxy.rs renders of a template is what `to` comes to,   *)
(* token by token.                                                         *)
(***************************************************************************)

(* What the recursive function inside RewriteTarget is. *)
Targets(f, to, names, n) ==
  f = [k \in 0 .. n |->
         IF k = 0 THEN NoTarget ELSE TargetStep(f[k - 1], to[k], names)]

(* The recursion of RewriteTarget defines a function. *)
LEMMA TargetIsDefined ==
  ASSUME NEW to, NEW names, NEW n \in Nat
  PROVE  \E f : Targets(f, to, names, n)
<1> DEFINE Good == {m \in Nat : \E f : Targets(f, to, names, m)}
<1>1. 0 \in Good
  <2>1. Targets([k \in 0 .. 0 |-> NoTarget], to, names, 0)
    BY DEF Targets
  <2> QED
    BY <2>1
<1>2. ASSUME NEW m \in Nat, m \in Good PROVE m + 1 \in Good
  <2>1. PICK f : Targets(f, to, names, m)
    BY <1>2
  <2>2. f = [k \in 0 .. m |->
               IF k = 0 THEN NoTarget ELSE TargetStep(f[k - 1], to[k], names)]
    BY <2>1 DEF Targets
  <2> DEFINE h == [k \in 0 .. m + 1 |->
                     IF k = m + 1 THEN TargetStep(f[m], to[m + 1], names) ELSE f[k]]
  <2>3. \A k \in 0 .. m + 1 : h[k] =
          IF k = 0 THEN NoTarget ELSE TargetStep(h[k - 1], to[k], names)
    <3>1. SUFFICES ASSUME NEW k \in 0 .. m + 1
                   PROVE  h[k] =
                            IF k = 0 THEN NoTarget ELSE TargetStep(h[k - 1], to[k], names)
      OBVIOUS
    <3>2. CASE k = m + 1
      BY <3>2
    <3>3. CASE k # m + 1
      <4>1. k \in 0 .. m /\ h[k] = f[k] /\ (k # 0 => h[k - 1] = f[k - 1])
        BY <3>3
      <4>2. f[k] = IF k = 0 THEN NoTarget ELSE TargetStep(f[k - 1], to[k], names)
        BY <2>2, <4>1
      <4> QED
        BY <4>1, <4>2
    <3> QED
      BY <3>2, <3>3
  <2>4. Targets(h, to, names, m + 1)
    BY <2>3 DEF Targets
  <2> HIDE DEF h
  <2> QED
    BY <2>4
<1>3. \A m \in Nat : m \in Good => m + 1 \in Good
  BY <1>2
<1> HIDE DEF Good
<1>4. Nat \subseteq Good
  BY <1>1, <1>3, NoLeastBad
<1> QED
  BY <1>4 DEF Good

(* What f does along that recursion. *)
RunOfTarget(f, to, names) ==
  /\ f[0] = NoTarget
  /\ \A m \in Nat : m + 1 <= Len(to) =>
       f[m + 1] = TargetStep(f[m], to[m + 1], names)
  /\ RewriteTarget(to, names) = f[Len(to)]

(* RewriteTarget runs its recursion to the end. *)
LEMMA TargetRuns ==
  ASSUME NEW to, NEW names, Len(to) \in Nat
  PROVE  \E f : RunOfTarget(f, to, names)
<1> DEFINE n == Len(to)
           f == CHOOSE g : Targets(g, to, names, n)
<1>1. RewriteTarget(to, names) = f[n]
  BY DEF RewriteTarget, Targets
<1>2. n \in Nat
  OBVIOUS
<1>3. n = Len(to)
  OBVIOUS
<1> HIDE DEF n
<1>4. Targets(f, to, names, n)
  BY <1>2, TargetIsDefined
<1> HIDE DEF f
<1>5. \A k \in 0 .. n : f[k] = IF k = 0 THEN NoTarget ELSE TargetStep(f[k - 1], to[k], names)
  BY <1>4 DEF Targets
<1>6. f[0] = NoTarget
  <2>1. 0 \in 0 .. n
    BY <1>2
  <2> QED
    BY <1>5, <2>1, Zenon
<1>7. ASSUME NEW m \in Nat, m + 1 <= n
      PROVE  f[m + 1] = TargetStep(f[m], to[m + 1], names)
  <2>1. m + 1 \in 0 .. n /\ m + 1 # 0 /\ (m + 1) - 1 = m
    BY <1>2, <1>7
  <2> QED
    BY <1>5, <2>1
<1>8. RunOfTarget(f, to, names)
  BY <1>1, <1>3, <1>6, <1>7 DEF RunOfTarget
<1> QED
  BY <1>8

(* The target of nothing, and of a text that is one token longer. *)
LEMMA TargetOfNothing ==
  ASSUME NEW names
  PROVE  RewriteTarget(<<>>, names) = NoTarget
<1>1. Len(<<>>) = 0 /\ 0 \in Nat
  BY EmptySeq
<1>2. PICK f : RunOfTarget(f, <<>>, names)
  BY <1>1, TargetRuns
<1> QED
  BY <1>1, <1>2 DEF RunOfTarget

(* A token more is a step more. *)
LEMMA TargetGrows ==
  ASSUME NEW S, NEW t \in Seq(S), NEW e \in S, NEW names
  PROVE  RewriteTarget(Append(t, e), names) = TargetStep(RewriteTarget(t, names), e, names)
<1> DEFINE n == Len(t)
           u == Append(t, e)
<1>1. /\ n \in Nat /\ Len(u) = n + 1 /\ u[n + 1] = e
      /\ \A k \in 1 .. n : u[k] = t[k]
  BY AppendProperties, LenProperties
<1>2. PICK f : RunOfTarget(f, t, names)
  BY <1>1, TargetRuns
<1>3. PICK g : RunOfTarget(g, u, names)
  <2>1. Len(u) \in Nat
    BY <1>1
  <2> QED
    BY <2>1, TargetRuns
<1> HIDE DEF n, u
<1>4. /\ f[0] = NoTarget /\ RewriteTarget(t, names) = f[n]
      /\ \A m \in Nat : m + 1 <= n => f[m + 1] = TargetStep(f[m], t[m + 1], names)
  BY <1>2 DEF RunOfTarget, n
<1>5. /\ g[0] = NoTarget /\ RewriteTarget(u, names) = g[n + 1]
      /\ \A m \in Nat : m + 1 <= n + 1 => g[m + 1] = TargetStep(g[m], u[m + 1], names)
  BY <1>1, <1>3 DEF RunOfTarget
<1> DEFINE Good == {m \in Nat : m <= n => f[m] = g[m]}
<1>6. 0 \in Good
  BY <1>4, <1>5
<1>7. ASSUME NEW m \in Nat, m \in Good PROVE m + 1 \in Good
  <2>1. SUFFICES ASSUME m + 1 <= n PROVE f[m + 1] = g[m + 1]
    OBVIOUS
  <2>2. f[m] = g[m] /\ u[m + 1] = t[m + 1] /\ m + 1 <= n + 1
    BY <1>1, <1>7, <2>1
  <2>3. f[m + 1] = TargetStep(f[m], t[m + 1], names) /\ g[m + 1] = TargetStep(g[m], u[m + 1], names)
    BY <1>4, <1>5, <2>1, <2>2
  <2> QED
    BY <2>2, <2>3
<1>8. \A m \in Nat : m \in Good => m + 1 \in Good
  BY <1>7
<1> HIDE DEF Good
<1>9. Nat \subseteq Good
  BY <1>6, <1>8, NoLeastBad
<1>10. f[n] = g[n]
  BY <1>1, <1>9 DEF Good
<1>11. g[n + 1] = TargetStep(g[n], e, names)
  BY <1>1, <1>5
<1> QED
  BY <1>4, <1>5, <1>10, <1>11 DEF u

(* The first so many members of a list, and all but the last. *)
LEMMA FirstOfList ==
  ASSUME NEW T, NEW s \in Seq(T), NEW n \in Nat, n <= Len(s)
  PROVE  /\ SubSeq(s, 1, n) \in Seq(T) /\ Len(SubSeq(s, 1, n)) = n
         /\ \A i \in 1 .. n : SubSeq(s, 1, n)[i] = s[i]
<1> DEFINE u == SubSeq(s, 1, n)
<1>1. \A i \in 1 .. n : s[i] \in T
  BY LenProperties, ElementOfSeq
<1>2. /\ u \in Seq(T) /\ Len(u) = IF 1 <= n THEN n - 1 + 1 ELSE 0
      /\ \A i \in 1 .. n - 1 + 1 : u[i] = s[1 + i - 1]
  BY <1>1, SubSeqProperties
<1> HIDE DEF u
<1> QED
  BY <1>2 DEF u

(* The segments of a route, and the raw segments of a path that it matches.*)
LEMMA RawIs ==
  ASSUME NEW S, "/" \in S, NEW r \in Seq(S), Single(r), NEW b \in Seq(S), b # <<>>, b[1] = "/",
         Aligned(Pieces(r), Pieces(b)), NEW src, src = Segments(r), NEW raw, raw = RawSegments(b)
  PROVE  /\ src \in Seq(Seq(S)) /\ raw \in Seq(Seq(S)) /\ Len(raw) = Len(src)
         /\ \A j \in 1 .. Len(src) : /\ j + 1 \in 2 .. Len(Pieces(r))
                                     /\ src[j] = Pieces(r)[j + 1] /\ raw[j] = Pieces(b)[j + 1]
         /\ \A k \in 1 .. Len(Pieces(r)) : Pieces(r)[k] # <<>> => k - 1 \in 1 .. Len(src)
<1> DEFINE T == Seq(S)
           rs == Pieces(r)
           bs == Pieces(b)
           n == Len(rs)
           a == Tail(b)
           cs == Pieces(a)
           x == <<>>
           m == IF rs[n] = x THEN n - 1 ELSE n
<1>1. rs \in Seq(T) /\ bs \in Seq(T) /\ n \in Nat
  BY PiecesType
<1>2. /\ Len(bs) = n /\ n >= 2 /\ rs[1] = x /\ bs[1] = x
      /\ \A k \in 2 .. n : IF IsParam(rs[k]) THEN bs[k] # x ELSE rs[k] = bs[k]
  BY DEF Aligned
<1>3. \A k \in 2 .. n - 1 : rs[k] # x
  BY SinglePieces
<1>4. a \in Seq(S) /\ b = <<"/">> \o a
  <2>1. a \in Seq(S) /\ Len(a) = Len(b) - 1 /\ \A i \in 1 .. Len(a) : a[i] = b[i + 1]
    BY HeadTailProperties, TailSeq DEF IsList
  <2> DEFINE c == <<"/">> \o a
  <2> HIDE DEF a
  <2>2. /\ c \in Seq(S) /\ Len(c) = Len(a) + 1 /\ c[1] = "/"
        /\ \A i \in 2 .. Len(a) + 1 : c[i] = a[i - 1]
    BY <2>1, ConcatProperties, LenProperties
  <2> HIDE DEF c
  <2>3. Len(b) \in Nat /\ Len(b) = Len(a) + 1
    BY <2>1, LenProperties
  <2>4. \A i \in 1 .. Len(b) : b[i] = c[i]
    <3>1. SUFFICES ASSUME NEW i \in 1 .. Len(b) PROVE b[i] = c[i]
      OBVIOUS
    <3>2. CASE i = 1
      BY <2>2, <3>2
    <3>3. CASE i # 1
      <4>1. i \in 2 .. Len(a) + 1 /\ i - 1 \in 1 .. Len(a) /\ (i - 1) + 1 = i
        BY <2>3, <3>3
      <4> QED
        BY <2>1, <2>2, <4>1
    <3> QED
      BY <3>2, <3>3
  <2>5. b = c
    BY <2>2, <2>3, <2>4, SeqEqual
  <2> QED
    BY <2>1, <2>5 DEF c
<1> HIDE DEF a
<1>5. cs \in Seq(T) /\ Shifted(bs, cs)
  BY <1>4, PiecesType, PiecesRooted
<1> HIDE DEF cs
<1>6. raw = IF Last(cs) = x THEN Front(cs) ELSE cs
  BY DEF RawSegments, cs, a
<1>7. src = Chosen(rs, SegmentsAt(rs))
  BY DEF Segments, SegmentsAt
<1> HIDE DEF rs, bs, T, n
<1>8. /\ Len(cs) = n - 1 /\ \A k \in 1 .. n - 1 : cs[k] = bs[k + 1]
  <2>1. Len(bs) = Len(cs) + 1 /\ \A k \in 1 .. Len(cs) : bs[k + 1] = cs[k]
    BY <1>5 DEF Shifted
  <2>2. Len(cs) = n - 1
    <3>1. Len(cs) \in Nat
      BY <1>5, LenProperties
    <3>2. Len(bs) = n
      BY <1>2
    <3>3. Len(bs) = Len(cs) + 1
      BY <2>1
    <3>4. n \in Nat
      BY <1>1
    <3> HIDE DEF m, x
    <3> QED
      BY <3>1, <3>2, <3>3, <3>4
  <2> QED
    BY <2>1, <2>2
<1>9. DOMAIN rs = 1 .. n
  BY <1>1, LenProperties DEF n
<1>10. SegmentsAt(rs) = 2 .. m
  BY <1>1, <1>2, <1>3, <1>9 DEF SegmentsAt
<1>11. m \in Nat /\ m >= 1 /\ (n = m \/ n = m + 1)
  BY <1>1, <1>2
<1>12. Last(cs) = x <=> rs[n] = x
  <2>1. Last(cs) = bs[n]
    <3>1. Last(cs) = cs[n - 1]
      BY <1>8 DEF Last
    <3>2. n - 1 \in 1 .. n - 1 /\ (n - 1) + 1 = n
      BY <1>1, <1>2
    <3>3. cs[n - 1] = bs[(n - 1) + 1]
      BY <1>8, <3>2
    <3> QED
      BY <3>1, <3>2, <3>3
  <2>2. n \in 2 .. n
    BY <1>1, <1>2
  <2>3. rs[n] = x => ~IsParam(rs[n])
    BY NothingIsNoParam
  <2> QED
    BY <1>2, <2>1, <2>2, <2>3
<1>13. raw \in Seq(T) /\ Len(raw) = m - 1 /\ \A j \in 1 .. m - 1 : raw[j] = bs[j + 1]
  <2>1. CASE rs[n] = x
    <3>1. raw = SubSeq(cs, 1, n - 2)
      <4>1. raw = Front(cs)
        BY <1>6, <1>12, <2>1
      <4>2. (n - 1) - 1 = n - 2
        BY <1>1
      <4> QED
        BY <1>8, <4>1, <4>2 DEF Front
    <3>2. n - 2 \in Nat /\ n - 2 <= Len(cs)
      BY <1>1, <1>2, <1>8
    <3>3. raw \in Seq(T) /\ Len(raw) = n - 2 /\ \A i \in 1 .. n - 2 : raw[i] = cs[i]
      <4> DEFINE o == n - 2
      <4>1. o \in Nat /\ o <= Len(cs) /\ raw = SubSeq(cs, 1, o)
        BY <3>1, <3>2
      <4> HIDE DEF o
      <4>2. raw \in Seq(T) /\ Len(raw) = o /\ \A i \in 1 .. o : raw[i] = cs[i]
        <5>1. /\ SubSeq(cs, 1, o) \in Seq(T) /\ Len(SubSeq(cs, 1, o)) = o
              /\ \A i \in 1 .. o : SubSeq(cs, 1, o)[i] = cs[i]
          BY <1>5, <4>1, FirstOfList
        <5> QED
          BY <4>1, <5>1
      <4> QED
        BY <4>2 DEF o
    <3>4. m - 1 = n - 2 /\ \A i \in 1 .. n - 2 : i \in 1 .. n - 1
      BY <1>1, <2>1
    <3> QED
      BY <1>8, <3>3, <3>4
  <2>2. CASE rs[n] # x
    <3>1. raw = cs /\ m = n
      BY <1>6, <1>12, <2>2
    <3> HIDE DEF m
    <3> QED
      BY <1>5, <1>8, <3>1
  <2> QED
    BY <2>1, <2>2
<1> DEFINE at == InOrder(2 .. m, n)
<1>15. Len(at) = m - 1 /\ \A j \in 1 .. m - 1 : at[j] = j + 1
  <2> HIDE DEF m
  <2> QED
    BY <1>1, <1>11, InOrderRun
<1>16. src \in Seq(T) /\ Len(src) = m - 1 /\ \A j \in 1 .. m - 1 : src[j] = rs[j + 1]
  <2>1. /\ src \in Seq(T) /\ Len(src) = Len(at)
        /\ \A j \in 1 .. Len(at) : src[j] = rs[at[j]]
    <3>1. InOrder(SegmentsAt(rs), Len(rs)) = at
      BY <1>10 DEF n
    <3> HIDE DEF at, m
    <3> QED
      BY <1>1, <1>7, <3>1, ChosenIs
  <2> HIDE DEF at, m
  <2> QED
    BY <1>15, <2>1
<1>17. ASSUME NEW k \in 1 .. n, rs[k] # x PROVE k - 1 \in 1 .. m - 1
  BY <1>1, <1>2, <1>17
<1>18. \A j \in 1 .. m - 1 : j + 1 \in 2 .. n
  BY <1>1, <1>11
<1> HIDE DEF m
<1> QED
  BY <1>13, <1>16, <1>17, <1>18 DEF T, rs, bs, n, x

(* A parameter with nothing but a name in it. *)
Braced(x) == Len(x) = 3 /\ x[2] \notin {"{", "}"}

(* That is its name. *)
LEMMA BracedName ==
  ASSUME NEW S, NEW x \in Seq(S), Braced(x)
  PROVE  \E e \in S : e \notin {"{", "}"} /\ ParamName(x) = <<e>>
<1> DEFINE e == x[2]
           u == SubSeq(x, 2, 2)
<1>0. Len(x) = 3
  BY DEF Braced
<1>1. e \notin {"{", "}"}
  BY DEF Braced
<1>2. e \in S
  <2>1. 2 \in 1 .. Len(x)
    BY <1>0
  <2> QED
    BY <2>1, ElementOfSeq
<1>3. u \in Seq(S) /\ Len(u) = 1 /\ u[1] = e
  <2>1. \A i \in 2 .. 2 : x[i] \in S
    BY <1>2
  <2>2. /\ u \in Seq(S) /\ Len(u) = IF 2 <= 2 THEN 2 - 2 + 1 ELSE 0
        /\ \A i \in 1 .. 2 - 2 + 1 : u[i] = x[2 + i - 1]
    BY <2>1, SubSeqProperties
  <2> HIDE DEF u
  <2> QED
    BY <2>2
<1>4. ParamName(x) = u
  <2>1. Len(x) - 1 = 2
    BY <1>0
  <2> QED
    BY <2>1 DEF ParamName
<1> HIDE DEF u, e
<1>5. u = <<e>>
  <2>1. <<e>> \in Seq(S) /\ Len(<<e>>) = 1 /\ <<e>>[1] = e
    BY <1>2
  <2> QED
    BY <1>3, <2>1, SeqEqual
<1> QED
  BY <1>1, <1>2, <1>4, <1>5

(* What proxy.rs captures of a path for the parameters of its route are    *)
(* pieces of it: those that the router matched with them.                  *)
CapturesRaw(S, p, r, b, path) ==
  LET names == RouteParams(r)
      raws  == CaptureRaw(Segments(r), b)
  IN  /\ CapturesMatch(Segments(r), b)
      /\ names \in Seq(Seq(S)) /\ Len(raws) = Len(names)
      /\ \A i \in 1 .. Len(names) :
           /\ \E e \in S : e \notin {"{", "}"} /\ names[i] = <<e>>
           /\ raws[i] = Captured(p \o r, path, names[i])
           /\ \E k \in 1 .. Len(Pieces(b)) : raws[i] = Pieces(b)[k]

(* It does, for a route whose parameters are simple and told apart. *)
LEMMA RawCaptures ==
  ASSUME NEW S, "/" \in S, NEW p \in Seq(S), NEW r \in Seq(S), Single(r), NEW b \in Seq(S),
         NEW path, IsRest(b, p, r, path), IsInjective(RouteParams(r)),
         \A k \in 1 .. Len(Pieces(r)) : IsParam(Pieces(r)[k]) => Braced(Pieces(r)[k])
  PROVE  CapturesRaw(S, p, r, b, path)
<1> DEFINE T == Seq(S)
           rs == Pieces(r)
           bs == Pieces(b)
           src == Segments(r)
           raw == RawSegments(b)
           A == ParamsIn(src)
           n == Len(src)
           at == InOrder(A, n)
           ps == Chosen(src, A)
           names == RouteParams(r)
           raws == CaptureRaw(src, b)
           x == <<>>
           Cap(name) == Captured(p \o r, path, name)
<1>1. /\ path = p \o b /\ b # x /\ b[1] = "/" /\ Aligned(rs, bs)
      /\ \A name : Named(rs, name) # {} => Cap(name) = bs[First(Named(rs, name))]
  BY DEF IsRest
<1>2. /\ src \in Seq(T) /\ raw \in Seq(T) /\ Len(raw) = n
      /\ \A j \in 1 .. n : j + 1 \in 2 .. Len(rs) /\ src[j] = rs[j + 1] /\ raw[j] = bs[j + 1]
      /\ \A k \in 1 .. Len(rs) : rs[k] # x => k - 1 \in 1 .. n
  <2>1. b # <<>> /\ b[1] = "/" /\ Aligned(Pieces(r), Pieces(b))
    BY <1>1
  <2>2. /\ Segments(r) \in Seq(Seq(S)) /\ RawSegments(b) \in Seq(Seq(S))
        /\ Len(RawSegments(b)) = Len(Segments(r))
        /\ \A j \in 1 .. Len(Segments(r)) :
             /\ j + 1 \in 2 .. Len(Pieces(r))
             /\ Segments(r)[j] = Pieces(r)[j + 1] /\ RawSegments(b)[j] = Pieces(b)[j + 1]
        /\ \A k \in 1 .. Len(Pieces(r)) : Pieces(r)[k] # <<>> => k - 1 \in 1 .. Len(Segments(r))
    BY <2>1, RawIs
  <2> QED
    BY <2>2
<1>3. /\ \A k \in 2 .. Len(rs) : IF IsParam(rs[k]) THEN bs[k] # x ELSE rs[k] = bs[k]
      /\ Len(bs) = Len(rs)
  BY <1>1 DEF Aligned
<1>4. rs \in Seq(T) /\ Len(rs) \in Nat
  BY PiecesType
<1>5. raws = [i \in DOMAIN at |-> raw[at[i]]]
  BY DEF CaptureRaw
<1>6. names = [k \in DOMAIN ps |-> ParamName(ps[k])]
  BY DEF RouteParams
<1>7. Head(b) = "/"
  BY <1>1
<1>8. CapturesMatch(src, b) <=>
        b # x /\ Head(b) = "/" /\ Len(raw) = Len(src)
        /\ \A k \in DOMAIN src : IsParam(src[k]) \/ src[k] = raw[k]
  BY DEF CapturesMatch
<1>9. \A i, j \in DOMAIN names : names[i] = names[j] => i = j
  BY DEF IsInjective
<1>10. \A k \in 1 .. Len(rs) : IsParam(rs[k]) => Braced(rs[k])
  OBVIOUS
<1>11. A = {k \in DOMAIN src : IsParam(src[k])}
  BY DEF ParamsIn
<1> HIDE DEF T, rs, bs, src, raw, names, raws
<1>12. n \in Nat /\ DOMAIN src = 1 .. n /\ DOMAIN rs = 1 .. Len(rs)
  BY <1>2, <1>4, LenProperties
<1> HIDE DEF n
<1>13. CapturesMatch(src, b)
  <2>1. ASSUME NEW k \in 1 .. n PROVE IsParam(src[k]) \/ src[k] = raw[k]
    BY <1>2, <1>3
  <2> QED
    BY <1>1, <1>2, <1>7, <1>8, <1>12, <2>1 DEF n
<1>14. /\ ps \in Seq(T) /\ Ordered(at, A, n) /\ Len(ps) = Len(at)
       /\ \A j \in 1 .. Len(at) : ps[j] = src[at[j]]
  BY <1>2, ChosenIs DEF n
<1> HIDE DEF A, at, ps, Cap
<1> DEFINE l == Len(at)
<1>15. /\ l \in Nat /\ DOMAIN at = 1 .. l /\ DOMAIN ps = 1 .. l
       /\ \A i \in 1 .. l : at[i] \in A /\ at[i] \in 1 .. n
  BY <1>14, LenProperties DEF Ordered
<1> HIDE DEF l
<1>16. /\ DOMAIN names = 1 .. l /\ \A i \in 1 .. l : names[i] = ParamName(src[at[i]])
  BY <1>6, <1>14, <1>15 DEF l
<1>17. /\ DOMAIN raws = 1 .. l /\ \A i \in 1 .. l : raws[i] = raw[at[i]]
  BY <1>5, <1>15
<1>18. ASSUME NEW i \in 1 .. l
       PROVE  /\ \E e \in S : e \notin {"{", "}"} /\ names[i] = <<e>>
              /\ raws[i] = Cap(names[i]) /\ raws[i] \in T /\ names[i] \in T
              /\ \E k \in 1 .. Len(bs) : raws[i] = bs[k]
  <2> DEFINE j == at[i]
             N == Named(rs, names[i])
  <2>1. j \in 1 .. n /\ IsParam(src[j])
    BY <1>11, <1>12, <1>15
  <2>2. /\ j + 1 \in 1 .. Len(rs) /\ IsParam(rs[j + 1]) /\ src[j] = rs[j + 1]
        /\ raws[i] = bs[j + 1] /\ names[i] = ParamName(rs[j + 1]) /\ raws[i] = raw[j]
    BY <1>2, <1>4, <1>16, <1>17, <2>1
  <2>3. src[j] \in Seq(S) /\ raw[j] \in T
    BY <1>2, <2>1, ElementOfSeq DEF T, n
  <2>4. PICK e \in S : e \notin {"{", "}"} /\ names[i] = <<e>>
    BY <1>10, <2>2, <2>3, BracedName
  <2> HIDE DEF j
  <2>5. j + 1 \in N
    BY <1>12, <2>2 DEF Named, ParamsIn
  <2>6. ASSUME NEW k \in N PROVE k = j + 1
    <3>1. k \in 1 .. Len(rs) /\ IsParam(rs[k]) /\ ParamName(rs[k]) = names[i]
      BY <1>12, <2>6 DEF Named, ParamsIn
    <3>2. rs[k] # x
      BY <3>1, NothingIsNoParam
    <3>3. k - 1 \in 1 .. n /\ (k - 1) + 1 = k
      BY <1>2, <1>4, <3>1, <3>2 DEF n
    <3>4. src[k - 1] = rs[k]
      BY <1>2, <3>3
    <3>5. k - 1 \in A
      BY <1>11, <1>12, <3>1, <3>3, <3>4
    <3>6. PICK o \in 1 .. l : at[o] = k - 1
      BY <1>14, <3>3, <3>5 DEF Ordered, l
    <3>7. names[o] = names[i]
      BY <1>16, <3>1, <3>4, <3>6
    <3>8. o = i
      BY <1>9, <1>16, <3>7
    <3> QED
      BY <3>3, <3>6, <3>8 DEF j
  <2>7. N = {j + 1}
    BY <2>5, <2>6
  <2>8. First(N) = j + 1
    BY <2>1, <2>7, FirstOfOne
  <2>9. Cap(names[i]) = bs[j + 1]
    BY <1>1, <2>7, <2>8 DEF Cap
  <2>10. <<e>> \in T
    BY DEF T
  <2>11. \E k \in 1 .. Len(bs) : raws[i] = bs[k]
    BY <1>3, <2>2
  <2> QED
    BY <2>2, <2>3, <2>4, <2>9, <2>10, <2>11
<1>19. raws \in Seq(T) /\ names \in Seq(T) /\ Len(raws) = l /\ Len(names) = l
  <2>1. names \in [1 .. l -> T]
    BY <1>6, <1>16, <1>18
  <2>2. raws \in [1 .. l -> T]
    BY <1>5, <1>17, <1>18
  <2>3. raws \in Seq(T) /\ names \in Seq(T)
    BY <1>15, <2>1, <2>2, SeqDef
  <2> QED
    BY <1>15, <1>16, <1>17, <2>3, LenProperties
<1> QED
  BY <1>13, <1>18, <1>19 DEF CapturesRaw, T, src, names, raws, Cap, bs

(* Flattening a list that is one list longer. *)
LEMMA FlattenMore ==
  ASSUME NEW n \in Nat, NEW v, v = [k \in 1 .. n |-> v[k]],
         NEW w, w = [k \in 1 .. n + 1 |-> w[k]], \A k \in 1 .. n : w[k] = v[k]
  PROVE  Flatten(w) = Flatten(v) \o w[n + 1]
<1> DEFINE U == {w[k] : k \in 1 .. n + 1}
           e == w[n + 1]
           u == Append(v, e)
<1>1. e \in U
  OBVIOUS
<1>2. v \in Seq(U) /\ Len(v) = n
  <2>1. \A k \in 1 .. n : v[k] \in U
    OBVIOUS
  <2> HIDE DEF U
  <2>2. v \in [1 .. n -> U]
    BY <2>1
  <2>3. v \in Seq(U)
    BY <2>2, SeqDef
  <2> QED
    BY <2>2, <2>3, LenProperties
<1>3. w \in Seq(U) /\ Len(w) = n + 1
  <2>1. \A k \in 1 .. n + 1 : w[k] \in U
    OBVIOUS
  <2> HIDE DEF U
  <2>2. w \in [1 .. n + 1 -> U] /\ n + 1 \in Nat
    BY <2>1
  <2>3. w \in Seq(U)
    BY <2>2, SeqDef
  <2> QED
    BY <2>2, <2>3, LenProperties
<1> HIDE DEF U, e
<1>4. u \in Seq(U) /\ Len(u) = n + 1 /\ u[n + 1] = e /\ \A k \in 1 .. n : u[k] = v[k]
  BY <1>1, <1>2, AppendProperties
<1>5. w = u
  <2> HIDE DEF u
  <2>0. ASSUME NEW k \in 1 .. n + 1, k # n + 1 PROVE k \in 1 .. n
    BY <2>0
  <2>1. \A k \in 1 .. n + 1 : w[k] = u[k]
    BY <1>4, <2>0 DEF e
  <2> QED
    BY <1>3, <1>4, <2>1, SeqEqual
<1> QED
  BY <1>1, <1>2, <1>5, FlattenGrows DEF e

(* What a template renders of its target, and what a text comes to with    *)
(* what the router matched in place of its parameters.                     *)
Part(d, raws) == IF d.capture = 0 THEN <<d.token>> ELSE raws[d.capture]
Rendered(dst, raws) == Flatten([k \in DOMAIN dst |-> Part(dst[k], raws)])

(* What one more token of `to` adds to what it comes to. *)
NextPiece(t, e, f, path) ==
  IF e \in {"{", "}"} THEN <<>>
  ELSE IF t # <<>> /\ t[Len(t)] = "{" THEN Captured(f, path, <<e>>) ELSE <<e>>

(* What `to` comes to, its parameters replaced by what f captures. *)
SubstitutedIn(t, f, path) ==
  Flatten([i \in DOMAIN t |->
    IF t[i] \in {"{", "}"} THEN <<>>
    ELSE IF i > 1 /\ t[i - 1] = "{" THEN Captured(f, path, <<t[i]>>) ELSE <<t[i]>>])

(* One more part of a template adds what it renders to. *)
LEMMA RenderedMore ==
  ASSUME NEW dst, IsList(dst), NEW d, NEW raws
  PROVE  Rendered(Append(dst, d), raws) = Rendered(dst, raws) \o Part(d, raws)
<1> DEFINE n == Len(dst)
           u == Append(dst, d)
           v == [k \in DOMAIN dst |-> Part(dst[k], raws)]
           w == [k \in DOMAIN u |-> Part(u[k], raws)]
<1>1. n \in Nat /\ DOMAIN dst = 1 .. n
  BY SeqFacts
<1>2. /\ DOMAIN u = 1 .. n + 1 /\ u[n + 1] = d
      /\ \A k \in 1 .. n : u[k] = dst[k]
  BY AppendSeq
<1> HIDE DEF n, u
<1>3. v = [k \in 1 .. n |-> v[k]] /\ w = [k \in 1 .. n + 1 |-> w[k]]
  BY <1>1, <1>2
<1>4. \A k \in 1 .. n : w[k] = v[k]
  BY <1>1, <1>2
<1>5. w[n + 1] = Part(d, raws)
  BY <1>1, <1>2
<1>6. Rendered(u, raws) = Flatten(w) /\ Rendered(dst, raws) = Flatten(v)
  BY DEF Rendered
<1> HIDE DEF v, w
<1>7. Flatten(w) = Flatten(v) \o w[n + 1]
  BY <1>1, <1>3, <1>4, FlattenMore
<1> QED
  BY <1>5, <1>6, <1>7 DEF u

(* One more token adds its piece. *)
LEMMA SubstitutedMore ==
  ASSUME NEW S, NEW t \in Seq(S), NEW e \in S, NEW f, NEW path
  PROVE  SubstitutedIn(Append(t, e), f, path) =
           SubstitutedIn(t, f, path) \o NextPiece(t, e, f, path)
<1> DEFINE n == Len(t)
           u == Append(t, e)
           Here(s, i) == IF s[i] \in {"{", "}"} THEN <<>>
                         ELSE IF i > 1 /\ s[i - 1] = "{" THEN Captured(f, path, <<s[i]>>)
                                                         ELSE <<s[i]>>
           v == [i \in DOMAIN t |-> Here(t, i)]
           w == [i \in DOMAIN u |-> Here(u, i)]
<1>1. n \in Nat /\ DOMAIN t = 1 .. n /\ (t # <<>> <=> n > 0)
  BY LenProperties, EmptySeq
<1>2. /\ DOMAIN u = 1 .. n + 1 /\ u[n + 1] = e
      /\ \A k \in 1 .. n : u[k] = t[k]
  <2>1. /\ u \in Seq(S) /\ Len(u) = n + 1 /\ u[n + 1] = e
        /\ \A k \in 1 .. n : u[k] = t[k]
    BY AppendProperties
  <2> QED
    BY <2>1, LenProperties
<1>3. SubstitutedIn(u, f, path) = Flatten(w) /\ SubstitutedIn(t, f, path) = Flatten(v)
  BY DEF SubstitutedIn
<1>4. NextPiece(t, e, f, path) =
        IF e \in {"{", "}"} THEN <<>>
        ELSE IF t # <<>> /\ t[n] = "{" THEN Captured(f, path, <<e>>) ELSE <<e>>
  BY DEF NextPiece
<1> HIDE DEF n, u
<1>5. ASSUME NEW k \in 1 .. n PROVE Here(u, k) = Here(t, k)
  <2>1. u[k] = t[k] /\ (k > 1 => u[k - 1] = t[k - 1])
    BY <1>1, <1>2
  <2> QED
    BY <2>1
<1>6. Here(u, n + 1) = NextPiece(t, e, f, path)
  <2>1. u[n + 1] = e /\ (n + 1) - 1 = n /\ (n + 1 > 1 <=> n > 0)
    BY <1>1, <1>2
  <2>2. n > 0 => u[n] = t[n]
    BY <1>1, <1>2
  <2> QED
    BY <1>1, <1>4, <2>1, <2>2
<1> HIDE DEF Here
<1>7. v = [k \in 1 .. n |-> v[k]] /\ w = [k \in 1 .. n + 1 |-> w[k]]
  BY <1>1, <1>2
<1>8. \A k \in 1 .. n : w[k] = v[k]
  BY <1>1, <1>2, <1>5
<1>9. w[n + 1] = NextPiece(t, e, f, path)
  BY <1>1, <1>2, <1>6
<1> HIDE DEF v, w
<1>10. Flatten(w) = Flatten(v) \o w[n + 1]
  BY <1>1, <1>7, <1>8, FlattenMore
<1> QED
  BY <1>3, <1>9, <1>10 DEF u

(* What a step of parse_rewrite_target does to each part of its state. *)
TargetState(S) ==
  [inside : BOOLEAN, name : Seq(S), dst : Seq([capture : Nat, token : S \union {"none"}]),
   valid : BOOLEAN]

(* What one token makes of such a state, i being the name's parameter. *)
TargetStepped(S, u, s, e, i) ==
  /\ u \in TargetState(S)
  /\ e = "{" /\ ~s.inside =>
       u.inside /\ u.name = <<>> /\ u.dst = s.dst /\ (u.valid <=> s.valid)
  /\ e = "}" =>
       ~u.inside /\ u.dst = Append(s.dst, Capture(i))
       /\ (u.valid <=> s.valid /\ s.inside /\ i # 0)
  /\ e # "}" /\ s.inside =>
       u.inside /\ u.name = Append(s.name, e) /\ u.dst = s.dst /\ (u.valid <=> s.valid)
  /\ e \notin {"{", "}"} /\ ~s.inside =>
       ~u.inside /\ u.dst = Append(s.dst, Lit(e)) /\ (u.valid <=> s.valid)

(* It is what TargetStep makes of it. *)
LEMMA TargetStepIs ==
  ASSUME NEW S, NEW s \in TargetState(S), NEW e \in S, NEW names, IsList(names),
         NEW i, i = First({k \in DOMAIN names : names[k] = s.name}),
         NEW u, u = TargetStep(s, e, names)
  PROVE  TargetStepped(S, u, s, e, i)
<1> DEFINE D == [capture : Nat, token : S \union {"none"}]
<1>1. i \in Nat
  <2> DEFINE K == {k \in DOMAIN names : names[k] = s.name}
  <2>1. K \subseteq Nat
    BY SeqFacts
  <2> HIDE DEF K
  <2>2. CASE K = {}
    BY <2>2 DEF First, K
  <2>3. CASE K # {}
    BY <2>1, <2>3, FirstIs DEF K
  <2> QED
    BY <2>2, <2>3
<1>2. s.inside \in BOOLEAN /\ s.name \in Seq(S) /\ s.dst \in Seq(D) /\ s.valid \in BOOLEAN
      /\ s = [inside |-> s.inside, name |-> s.name, dst |-> s.dst, valid |-> s.valid]
  BY DEF TargetState
<1>3. Capture(i) \in D /\ Lit(e) \in D
  BY <1>1 DEF Capture, Lit
<1> HIDE DEF D
<1>4. Append(s.dst, Capture(i)) \in Seq(D) /\ Append(s.dst, Lit(e)) \in Seq(D)
      /\ Append(s.name, e) \in Seq(S)
  BY <1>2, <1>3, AppendProperties
<1>5. CASE e = "{" /\ ~s.inside
  <2> DEFINE x == <<>>
  <2>1. u = [s EXCEPT !.inside = TRUE, !.name = x]
    BY <1>5 DEF TargetStep
  <2>2. x \in Seq(S)
    OBVIOUS
  <2> HIDE DEF x
  <2>3. u \in TargetState(S)
    BY <1>2, <2>1, <2>2 DEF TargetState, D
  <2>4. u.inside /\ u.name = x /\ u.dst = s.dst /\ (u.valid <=> s.valid)
    BY <1>2, <2>1
  <2> QED
    BY <1>5, <2>3, <2>4 DEF x, TargetStepped
<1>6. CASE e = "}"
  <2>1. u = [s EXCEPT !.inside = FALSE, !.valid = s.valid /\ s.inside /\ i # 0,
                      !.dst = Append(s.dst, Capture(i))]
    BY <1>6 DEF TargetStep
  <2> QED
    BY <1>2, <1>4, <1>6, <2>1 DEF TargetStepped, TargetState, D
<1>7. CASE e # "}" /\ s.inside
  <2>1. u = [s EXCEPT !.name = Append(s.name, e)]
    BY <1>7 DEF TargetStep
  <2> QED
    BY <1>2, <1>4, <1>7, <2>1 DEF TargetStepped, TargetState, D
<1>8. CASE e \notin {"{", "}"} /\ ~s.inside
  <2>1. u = [s EXCEPT !.dst = Append(s.dst, Lit(e))]
    BY <1>8 DEF TargetStep
  <2> QED
    BY <1>2, <1>4, <1>8, <2>1 DEF TargetStepped, TargetState, D
<1> QED
  BY <1>5, <1>6, <1>7, <1>8 DEF TargetStepped

(* Where parse_rewrite_target is in a text of which it has read t: outside *)
(* braces, just inside, inside with a name that a path captures, or inside *)
(* with what is no route's parameter; and that up to there what proxy.rs   *)
(* renders is what the text comes to.                                      *)
Same(S, s, t, raws, f, path) ==
  Rendered(s.dst, raws) \in Seq(S) /\ SubstitutedIn(t, f, path) = Rendered(s.dst, raws)
Outside(S, s, t, raws, f, path) ==
  ~s.inside /\ (t = <<>> \/ t[Len(t)] # "{") /\ Same(S, s, t, raws, f, path)
Opened(S, s, t, raws, f, path) ==
  s.inside /\ s.name = <<>> /\ t # <<>> /\ t[Len(t)] = "{" /\ Same(S, s, t, raws, f, path)
Naming(S, s, t, raws, f, path) ==
  /\ s.inside /\ Rendered(s.dst, raws) \in Seq(S)
  /\ \E e : /\ e \notin {"{", "}"} /\ s.name = <<e>>
            /\ SubstitutedIn(t, f, path) = Rendered(s.dst, raws) \o Captured(f, path, <<e>>)
Spoilt(s) == s.inside /\ s.name # <<>> /\ \A e : e \notin {"{", "}"} => s.name # <<e>>
KeepsUp(S, s, t, raws, f, path) ==
  /\ s \in TargetState(S)
  /\ s.valid => \/ Outside(S, s, t, raws, f, path) \/ Opened(S, s, t, raws, f, path)
                \/ Naming(S, s, t, raws, f, path) \/ Spoilt(s)

(* The parameters that a template can address have simple names, and what  *)
(* proxy.rs captures for them is what the router matched with them.        *)
Captures(S, names, raws, f, path) ==
  /\ IsList(names)
  /\ \A i \in 1 .. Len(names) :
       /\ \E e : e \notin {"{", "}"} /\ names[i] = <<e>>
       /\ raws[i] \in Seq(S) /\ raws[i] = Captured(f, path, names[i])

(* A name that a token is added to is longer than one token. *)
LEMMA LongName ==
  ASSUME NEW S, NEW n \in Seq(S), n # <<>>, NEW e \in S
  PROVE  Append(n, e) # <<>> /\ \A d : Append(n, e) # <<d>>
<1> DEFINE u == Append(n, e)
           x == <<>>
<1>1. u \in Seq(S) /\ Len(u) = Len(n) + 1 /\ Len(n) \in Nat \ {0}
  BY EmptySeq, AppendProperties
<1>2. Len(x) = 0
  OBVIOUS
<1> HIDE DEF u, x
<1>3. u # x
  BY <1>1, <1>2
<1>4. ASSUME NEW d PROVE u # <<d>>
  <2> DEFINE y == <<d>>
  <2>1. Len(y) = 1
    OBVIOUS
  <2> HIDE DEF y
  <2>2. u # y
    BY <1>1, <2>1
  <2> QED
    BY <2>2 DEF y
<1> QED
  BY <1>3, <1>4 DEF u, x

(* A token keeps the two in step. *)
LEMMA KeepsUpStep ==
  ASSUME NEW S, NEW names, NEW raws, NEW f, NEW path, Captures(S, names, raws, f, path),
         NEW t \in Seq(S), NEW e \in S, NEW s, KeepsUp(S, s, t, raws, f, path),
         NEW u, u = TargetStep(s, e, names)
  PROVE  KeepsUp(S, u, Append(t, e), raws, f, path)
<1> DEFINE i == First({k \in DOMAIN names : names[k] = s.name})
           v == Append(t, e)
           R == Rendered(s.dst, raws)
           RR == Rendered(u.dst, raws)
           V == SubstitutedIn(t, f, path)
           VV == SubstitutedIn(v, f, path)
           P == NextPiece(t, e, f, path)
           x == <<>>
           Cap(name) == Captured(f, path, name)
<1>1. IsList(names) /\ s \in TargetState(S)
  BY DEF Captures, KeepsUp
<1>2. /\ u \in TargetState(S)
      /\ e = "{" /\ ~s.inside =>
           u.inside /\ u.name = x /\ u.dst = s.dst /\ (u.valid <=> s.valid)
      /\ e = "}" =>
           ~u.inside /\ u.dst = Append(s.dst, Capture(i))
           /\ (u.valid <=> s.valid /\ s.inside /\ i # 0)
      /\ e # "}" /\ s.inside =>
           u.inside /\ u.name = Append(s.name, e) /\ u.dst = s.dst /\ (u.valid <=> s.valid)
      /\ e \notin {"{", "}"} /\ ~s.inside =>
           ~u.inside /\ u.dst = Append(s.dst, Lit(e)) /\ (u.valid <=> s.valid)
  <2>1. TargetStepped(S, u, s, e, i)
    BY <1>1, TargetStepIs
  <2> QED
    BY <2>1 DEF TargetStepped
<1>3. v \in Seq(S) /\ v # x /\ v[Len(v)] = e
  BY AppendProperties
<1>4. VV = V \o P
  BY SubstitutedMore
<1>5. P = IF e \in {"{", "}"} THEN x ELSE IF t # x /\ t[Len(t)] = "{" THEN Cap(<<e>>) ELSE <<e>>
  BY DEF NextPiece
<1>6. s.dst \in Seq([capture : Nat, token : S \union {"none"}]) /\ s.name \in Seq(S)
  BY <1>1 DEF TargetState
<1>7. IsList(s.dst)
  BY <1>6 DEF IsList
<1>8. i # 0 => i \in 1 .. Len(names) /\ names[i] = s.name
  <2> DEFINE K == {k \in DOMAIN names : names[k] = s.name}
  <2>1. K = {} => i = 0
    BY DEF First
  <2>2. DOMAIN names = 1 .. Len(names) /\ Len(names) \in Nat
    BY <1>1, SeqFacts
  <2>3. K \subseteq Nat /\ \A k \in K : k \in 1 .. Len(names) /\ names[k] = s.name
    BY <2>2
  <2> HIDE DEF K
  <2>4. K # {} => First(K) \in K
    BY <2>3, FirstIs
  <2> QED
    BY <2>1, <2>3, <2>4 DEF K
<1> HIDE DEF i, v, R, RR, V, VV, P
<1>9. R \in Seq(S) => R \o x = R
  BY ConcatEmptySeq
<1>10. SUFFICES ASSUME u.valid
                PROVE  \/ Outside(S, u, v, raws, f, path) \/ Opened(S, u, v, raws, f, path)
                       \/ Naming(S, u, v, raws, f, path) \/ Spoilt(u)
  BY <1>2 DEF KeepsUp, v
<1>11. s.valid
  BY <1>2, <1>10
<1>12. \/ Outside(S, s, t, raws, f, path) \/ Opened(S, s, t, raws, f, path)
       \/ Naming(S, s, t, raws, f, path) \/ Spoilt(s)
  BY <1>11 DEF KeepsUp
<1>13. CASE Outside(S, s, t, raws, f, path)
  <2>1. ~s.inside /\ (t = x \/ t[Len(t)] # "{") /\ R \in Seq(S) /\ V = R
    BY <1>13 DEF Outside, Same, R, V
  <2>2. CASE e = "{"
    <3>1. u.inside /\ u.name = x /\ RR = R /\ P = x
      BY <1>2, <1>5, <2>1, <2>2 DEF R, RR
    <3>2. VV = R
      BY <1>4, <1>9, <2>1, <3>1
    <3>3. Opened(S, u, v, raws, f, path)
      BY <1>3, <2>1, <2>2, <3>1, <3>2 DEF Opened, Same, RR, VV
    <3> QED
      BY <3>3
  <2>3. CASE e = "}"
    BY <1>2, <1>10, <2>1, <2>3
  <2>4. CASE e \notin {"{", "}"}
    <3>1. ~u.inside /\ u.dst = Append(s.dst, Lit(e)) /\ P = <<e>>
      BY <1>2, <1>5, <2>1, <2>4
    <3>2. RR = R \o Part(Lit(e), raws)
      BY <1>7, <3>1, RenderedMore DEF R, RR
    <3>3. Part(Lit(e), raws) = <<e>>
      BY DEF Part, Lit
    <3>4. RR = R \o <<e>> /\ VV = R \o <<e>>
      BY <1>4, <2>1, <3>1, <3>2, <3>3
    <3>5. R \o <<e>> \in Seq(S)
      <4>1. <<e>> \in Seq(S)
        OBVIOUS
      <4> QED
        BY <2>1, <4>1, ConcatProperties
    <3>6. Outside(S, u, v, raws, f, path)
      BY <1>3, <2>4, <3>1, <3>4, <3>5 DEF Outside, Same, RR, VV
    <3> QED
      BY <3>6
  <2> QED
    BY <2>2, <2>3, <2>4
<1>14. CASE Opened(S, s, t, raws, f, path)
  <2>1. s.inside /\ s.name = x /\ t # x /\ t[Len(t)] = "{" /\ R \in Seq(S) /\ V = R
    BY <1>14 DEF Opened, Same, R, V
  <2>2. CASE e = "}"
    <3>1. i # 0
      BY <1>2, <1>10, <2>2
    <3>2. PICK c : names[i] = <<c>>
      BY <1>8, <3>1 DEF Captures
    <3>3. <<c>> # x
      OBVIOUS
    <3> QED
      BY <1>8, <2>1, <3>1, <3>2, <3>3
  <2>3. CASE e # "}"
    <3>1. u.inside /\ u.name = Append(s.name, e) /\ u.dst = s.dst
      BY <1>2, <2>1, <2>3
    <3>2. u.name = <<e>>
      <4>1. Append(x, e) = <<e>>
        OBVIOUS
      <4> QED
        BY <2>1, <3>1, <4>1
    <3>3. CASE e = "{"
      <4>1. u.name # x
        BY <3>2
      <4>2. ASSUME NEW c, c \notin {"{", "}"} PROVE u.name # <<c>>
        <5>1. e # c
          BY <3>3, <4>2
        <5>2. <<e>> # <<c>>
          BY <5>1
        <5> QED
          BY <3>2, <5>2
      <4> QED
        BY <3>1, <4>1, <4>2 DEF Spoilt
    <3>4. CASE e # "{"
      <4>1. e \notin {"{", "}"} /\ P = Cap(<<e>>)
        BY <1>5, <2>1, <2>3, <3>4
      <4>2. RR = R /\ VV = R \o Cap(<<e>>)
        BY <1>4, <2>1, <3>1, <4>1 DEF R, RR
      <4>3. Naming(S, u, v, raws, f, path)
        BY <2>1, <3>1, <3>2, <4>1, <4>2 DEF Naming, RR, VV
      <4> QED
        BY <4>3
    <3> QED
      BY <3>3, <3>4
  <2> QED
    BY <2>2, <2>3
<1>15. CASE Naming(S, s, t, raws, f, path)
  <2>1. s.inside /\ R \in Seq(S)
    BY <1>15 DEF Naming, R
  <2>2. PICK c : c \notin {"{", "}"} /\ s.name = <<c>> /\ V = R \o Cap(<<c>>)
    BY <1>15 DEF Naming, R, V
  <2>3. CASE e = "}"
    <3>1. i # 0 /\ ~u.inside /\ u.dst = Append(s.dst, Capture(i))
      BY <1>2, <1>10, <2>3
    <3>2. raws[i] \in Seq(S) /\ raws[i] = Cap(<<c>>)
      BY <1>8, <2>2, <3>1 DEF Captures
    <3>3. RR = R \o Part(Capture(i), raws)
      BY <1>7, <3>1, RenderedMore DEF R, RR
    <3>4. Part(Capture(i), raws) = raws[i]
      BY <3>1 DEF Part, Capture
    <3>5. RR = V /\ RR \in Seq(S)
      BY <2>1, <2>2, <3>2, <3>3, <3>4, ConcatProperties
    <3>6. VV = V
      <4>1. P = x
        BY <1>5, <2>3
      <4> QED
        BY <1>4, <3>5, <4>1, ConcatEmptySeq
    <3>7. Outside(S, u, v, raws, f, path)
      BY <1>3, <2>3, <3>1, <3>5, <3>6 DEF Outside, Same, RR, VV
    <3> QED
      BY <3>7
  <2>4. CASE e # "}"
    <3>1. u.inside /\ u.name = Append(s.name, e)
      BY <1>2, <2>1, <2>4
    <3>0. <<c>> # x
      OBVIOUS
    <3>2. s.name # x
      BY <2>2, <3>0
    <3>3. u.name # x /\ \A d : u.name # <<d>>
      BY <1>6, <3>1, <3>2, LongName
    <3> QED
      BY <3>1, <3>3 DEF Spoilt
  <2> QED
    BY <2>3, <2>4
<1>16. CASE Spoilt(s)
  <2>1. s.inside /\ s.name # x /\ \A c : c \notin {"{", "}"} => s.name # <<c>>
    BY <1>16 DEF Spoilt
  <2>2. CASE e = "}"
    <3>1. i # 0
      BY <1>2, <1>10, <2>2
    <3>2. \E c : c \notin {"{", "}"} /\ names[i] = <<c>>
      BY <1>8, <3>1 DEF Captures
    <3> QED
      BY <1>8, <2>1, <3>1, <3>2
  <2>3. CASE e # "}"
    <3>1. u.inside /\ u.name = Append(s.name, e)
      BY <1>2, <2>1, <2>3
    <3>3. u.name # x /\ \A d : u.name # <<d>>
      BY <1>6, <2>1, <3>1, LongName
    <3> QED
      BY <3>1, <3>3 DEF Spoilt
  <2> QED
    BY <2>2, <2>3
<1> QED
  BY <1>12, <1>13, <1>14, <1>15, <1>16

(* What a template that compiles renders is what its text comes to. *)
LEMMA RenderedIsSubstituted ==
  ASSUME NEW S, NEW names, NEW raws, NEW f, NEW path, Captures(S, names, raws, f, path),
         NEW to \in Seq(S), RewriteTarget(to, names).valid, ~RewriteTarget(to, names).inside
  PROVE  /\ Rendered(RewriteTarget(to, names).dst, raws) = SubstitutedIn(to, f, path)
         /\ SubstitutedIn(to, f, path) \in Seq(S)
<1> DEFINE At(t) == RewriteTarget(t, names)
           Good == {t \in Seq(S) : KeepsUp(S, At(t), t, raws, f, path)}
           x == <<>>
<1>1. x \in Good
  <2>1. At(x) = NoTarget
    BY TargetOfNothing
  <2> DEFINE s == NoTarget
  <2>2. ~s.inside /\ s.name = x /\ s.dst = x /\ s.valid
    BY DEF NoTarget
  <2>3. s \in TargetState(S)
    <3>1. x \in Seq(S) /\ x \in Seq([capture : Nat, token : S \union {"none"}])
      OBVIOUS
    <3> QED
      BY <3>1 DEF NoTarget, TargetState
  <2> HIDE DEF s
  <2>4. Rendered(s.dst, raws) = x
    <3>1. [k \in DOMAIN x |-> Part(x[k], raws)] = x
      OBVIOUS
    <3> QED
      BY <2>2, <3>1, FlattenNothing DEF Rendered
  <2>5. SubstitutedIn(x, f, path) = x
    <3> DEFINE w == [i \in DOMAIN x |->
                       IF x[i] \in {"{", "}"} THEN <<>>
                       ELSE IF i > 1 /\ x[i - 1] = "{" THEN Captured(f, path, <<x[i]>>)
                       ELSE <<x[i]>>]
    <3>1. w = x
      OBVIOUS
    <3>2. SubstitutedIn(x, f, path) = Flatten(w)
      BY DEF SubstitutedIn
    <3> HIDE DEF w
    <3> QED
      BY <3>1, <3>2, FlattenNothing
  <2>6. x \in Seq(S)
    OBVIOUS
  <2>7. Outside(S, s, x, raws, f, path)
    BY <2>2, <2>4, <2>5, <2>6 DEF Outside, Same
  <2> QED
    BY <2>1, <2>3, <2>6, <2>7 DEF KeepsUp, s
<1>2. ASSUME NEW t \in Seq(S), NEW e \in S, t \in Good PROVE Append(t, e) \in Good
  <2>1. At(Append(t, e)) = TargetStep(At(t), e, names)
    BY TargetGrows
  <2>2. Append(t, e) \in Seq(S)
    BY AppendProperties
  <2>3. KeepsUp(S, At(t), t, raws, f, path)
    BY <1>2
  <2> HIDE DEF At
  <2>4. KeepsUp(S, At(Append(t, e)), Append(t, e), raws, f, path)
    BY <2>1, <2>3, KeepsUpStep
  <2> QED
    BY <2>2, <2>4
<1>3. \A t \in Seq(S) : \A e \in S : t \in Good => Append(t, e) \in Good
  BY <1>2
<1> HIDE DEF Good
<1>4. Seq(S) \subseteq Good
  BY <1>1, <1>3, ListInduction DEF x
<1>5. KeepsUp(S, At(to), to, raws, f, path)
  BY <1>4 DEF Good
<1>6. Outside(S, At(to), to, raws, f, path)
  BY <1>5 DEF KeepsUp, Opened, Naming, Spoilt
<1> QED
  BY <1>6 DEF Outside, Same

(* What follows a prefix has the tokens, and no "//", that the whole has. *)
LEMMA RestOfTokens ==
  ASSUME NEW S, NEW p \in Seq(S), NEW b \in Seq(S)
  PROVE  /\ \A A : p \o b \in Seq(A) => b \in Seq(A)
         /\ Single(p \o b) => Single(b)
<1> DEFINE t == p \o b
           m == Len(p)
           n == Len(b)
<1>1. m \in Nat /\ n \in Nat /\ b \in [1 .. n -> S]
  BY LenProperties
<1>2. Len(t) = m + n /\ \A i \in 1 .. n : t[m + i] = b[i]
  BY ConcatProperties, LenProperties
<1> HIDE DEF t, m, n
<1>3. ASSUME NEW A, t \in Seq(A) PROVE b \in Seq(A)
  <2>1. ASSUME NEW i \in 1 .. n PROVE b[i] \in A
    <3>1. m + i \in 1 .. Len(t)
      BY <1>1, <1>2
    <3> QED
      BY <1>2, <1>3, <3>1, ElementOfSeq
  <2>2. b \in [1 .. n -> A]
    BY <1>1, <2>1
  <2> QED
    BY <1>1, <2>2, SeqDef
<1>4. ASSUME Single(t), NEW i \in 1 .. n - 1 PROVE b[i] # "/" \/ b[i + 1] # "/"
  <2>1. m + i \in 1 .. Len(t) - 1 /\ (m + i) + 1 = m + (i + 1) /\ i \in 1 .. n /\ i + 1 \in 1 .. n
    BY <1>1, <1>2
  <2>2. t[m + i] # "/" \/ t[(m + i) + 1] # "/"
    BY <1>4, <2>1 DEF Single
  <2> QED
    BY <1>2, <2>1, <2>2
<1> QED
  BY <1>3, <1>4 DEF Single, t, n

(* What of a path that a route matches is left of it for the upstream. *)
LEMMA RestIs ==
  ASSUME NEW S, "/" \in S, NEW p \in Seq(S), Literally(p), NEW route \in Seq(S),
         NEW path \in Seq(S), PathMatches(Join(p, route), path)
  PROVE  \E b \in Seq(S) : /\ IsRest(b, p, Rooted(route), path)
                           /\ StripPrefix(path, p) = b /\ Without(p, path) = b
<1> DEFINE r == Rooted(route)
<1>1. r \in Seq(S) /\ r # <<>> /\ r[1] = "/"
  BY RootedIs
<1>2. PathMatches(p \o r, path)
  BY JoinIs
<1>3. \A k \in 1 .. Len(Pieces(p)) : ~IsParam(Pieces(p)[k])
  BY LiteralPieces
<1> HIDE DEF r
<1>4. PICK b \in Seq(S) : IsRest(b, p, r, path)
  BY <1>1, <1>2, <1>3, MatchedRest
<1>5. path = p \o b /\ b # <<>> /\ b[1] = "/"
  BY <1>4 DEF IsRest
<1>6. IsPrefix(p, path) /\ Without(p, path) = b
  BY <1>5, BehindPrefix
<1>7. StripPrefix(path, p) = b
  <2>1. Head(b) = "/"
    BY <1>5
  <2> QED
    BY <1>5, <1>6, <2>1 DEF StripPrefix
<1> QED
  BY <1>4, <1>6, <1>7 DEF r

(* A template that template.rs compiles captures what the router matched,  *)
(* of every path of its route, and renders its text with those captures.   *)
LEMMA TemplateRenders ==
  ASSUME NEW S, "/" \in S, NEW p \in Seq(S), Literally(p), NEW route \in Seq(S),
         NEW path \in Seq(S), PathMatches(Join(p, route), path), Single(Join(p, route)),
         \A k \in 1 .. Len(Pieces(Join(p, route))) :
           IsParam(Pieces(Join(p, route))[k]) => Braced(Pieces(Join(p, route))[k]),
         NEW A, path \in Seq(A), NEW to \in Seq(A), TemplateCompiles(route, to)
  PROVE  /\ CapturesMatch(Template(route, to).src, StripPrefix(path, p))
         /\ RenderTemplate(Template(route, to), StripPrefix(path, p))
              = SubstitutedIn(to, Join(p, route), path)
         /\ SubstitutedIn(to, Join(p, route), path) \in Seq(A)
<1> DEFINE r == Rooted(route)
           f == Join(p, route)
           rs == Pieces(r)
           names == RouteParams(route)
           src == Segments(route)
           x == <<>>
<1>1. r \in Seq(S) /\ r # <<>> /\ r[1] = "/" /\ Segments(r) = src
  BY RootedIs
<1>2. f = p \o r
  BY JoinIs
<1>3. PICK b \in Seq(S) : IsRest(b, p, r, path) /\ StripPrefix(path, p) = b
  BY RestIs
<1>4. RouteParams(r) = names
  BY <1>1 DEF RouteParams
<1>5. IsInjective(names)
  BY DEF TemplateCompiles, RouteSourceParses
<1> HIDE DEF r, names, src
<1>6. Single(r)
  <2>1. Single(p \o r)
    BY <1>2
  <2> QED
    BY <1>1, <2>1, RestOfTokens
<1>7. \A k \in 1 .. Len(rs) : IsParam(rs[k]) => Braced(rs[k])
  <2> DEFINE fs == Pieces(f)
             ps == Pieces(p)
  <2>1. Glued(fs, ps, rs) /\ Len(rs) \in Nat /\ rs[1] = x
    BY <1>1, <1>2, PiecesJoin
  <2>2. Len(ps) \in Nat /\ Len(ps) >= 1
    BY PiecesType
  <2>3. \A k \in 1 .. Len(fs) : IsParam(fs[k]) => Braced(fs[k])
    OBVIOUS
  <2>4. ~IsParam(rs[1])
    BY <2>1, NothingIsNoParam
  <2> HIDE DEF fs, ps, rs
  <2>5. ASSUME NEW k \in 2 .. Len(rs) PROVE IsParam(rs[k]) => Braced(rs[k])
    <3>1. fs[Len(ps) + k - 1] = rs[k] /\ Len(fs) = Len(ps) + Len(rs) - 1
      BY <2>1 DEF Glued
    <3>2. Len(ps) + k - 1 \in 1 .. Len(fs)
      BY <2>1, <2>2, <3>1
    <3> QED
      BY <2>3, <3>1, <3>2
  <2>6. ASSUME NEW k \in 1 .. Len(rs) PROVE k = 1 \/ k \in 2 .. Len(rs)
    BY <2>1
  <2> QED
    BY <2>4, <2>5, <2>6
<1> DEFINE raws == CaptureRaw(src, b)
<1>8. /\ CapturesMatch(src, b)
      /\ names \in Seq(Seq(S))
      /\ \A i \in 1 .. Len(names) :
           /\ \E e \in S : e \notin {"{", "}"} /\ names[i] = <<e>>
           /\ raws[i] = Captured(p \o r, path, names[i])
           /\ \E k \in 1 .. Len(Pieces(b)) : raws[i] = Pieces(b)[k]
  <2>1. IsInjective(RouteParams(r))
    BY <1>4, <1>5
  <2>2. CapturesRaw(S, p, r, b, path)
    BY <1>1, <1>3, <1>6, <1>7, <2>1, RawCaptures
  <2> QED
    BY <1>1, <1>4, <2>2 DEF CapturesRaw
<1>9. Pieces(b) \in Seq(Seq(A))
  <2>1. path = p \o b
    BY <1>3 DEF IsRest
  <2>2. b \in Seq(A)
    BY <2>1, RestOfTokens
  <2> QED
    BY <2>2, PiecesType
<1> HIDE DEF f, rs, raws
<1>10. Captures(A, names, raws, f, path)
  <2>1. ASSUME NEW i \in 1 .. Len(names) PROVE raws[i] \in Seq(A)
    <3> DEFINE T == Seq(A)
               bs == Pieces(b)
    <3>1. bs \in Seq(T) /\ \E k \in 1 .. Len(bs) : raws[i] = bs[k]
      BY <1>8, <1>9
    <3> HIDE DEF T, bs
    <3> QED
      BY <3>1, ElementOfSeq DEF T
  <2>2. IsList(names)
    BY <1>8 DEF IsList
  <2>3. \A i \in 1 .. Len(names) : /\ \E e : e \notin {"{", "}"} /\ names[i] = <<e>>
                                   /\ raws[i] = Captured(f, path, names[i])
    BY <1>2, <1>8
  <2> QED
    BY <2>1, <2>2, <2>3 DEF Captures
<1> DEFINE t == RewriteTarget(to, names)
<1>11. t.valid /\ ~t.inside
  BY DEF TemplateCompiles, names
<1>12. Rendered(t.dst, raws) = SubstitutedIn(to, f, path) /\ SubstitutedIn(to, f, path) \in Seq(A)
  BY <1>10, <1>11, RenderedIsSubstituted
<1>13. Template(route, to).src = src /\ Template(route, to).dst = t.dst
  BY DEF Template, src, names
<1>14. RenderTemplate(Template(route, to), b) = Rendered(t.dst, raws)
  BY <1>13 DEF RenderTemplate, Rendered, Part, raws
<1> QED
  BY <1>3, <1>8, <1>12, <1>13, <1>14 DEF f

-----------------------------------------------------------------------------
(***************************************************************************)
(* The services: their routes are as their attributes declare them.        *)
(***************************************************************************)

(* A function on the first so many numbers is a list. *)
LEMMA FunctionIsList ==
  ASSUME NEW f, NEW n \in Nat, f = [i \in 1 .. n |-> f[i]]
  PROVE  IsList(f) /\ Len(f) = n
<1>1. f \in [1 .. n -> Range(f)]
  <2>1. DOMAIN f = 1 .. n
    OBVIOUS
  <2> QED
    BY <2>1 DEF Range
<1>2. f \in Seq(Range(f))
  BY <1>1, SeqDef
<1>3. Len(f) \in Nat /\ DOMAIN f = 1 .. Len(f)
  BY <1>2, LenProperties
<1>4. DOMAIN f = 1 .. n
  OBVIOUS
<1>5. Len(f) = n
  BY <1>3, <1>4
<1> QED
  BY <1>2, <1>5 DEF IsList

(* What is one, if it is there, is a text. *)
TextIfAny(option) == option = <<>> \/ IsText(option[1])

(* What is declared of a route is what its path and its `to` say. *)
RewriteOK(path, to, rewrite) ==
  /\ IsText(path)
  /\ \/ to = <<>> /\ rewrite.kind = "StripPrefix"
     \/ /\ to # <<>> /\ IsText(to[1]) /\ "{" \notin Range(to[1])
        /\ rewrite.kind = "Static" /\ rewrite.to = to[1]
     \/ /\ to # <<>> /\ IsText(to[1]) /\ "{" \in Range(to[1]) /\ TemplateCompiles(path, to[1])
        /\ rewrite.kind = "Template" /\ rewrite.template = Template(path, to[1])

(* What the recursive function inside RouteArgs is. *)
AppliesArgs(f, args, n) ==
  f = [k \in 0 .. n |->
         IF k = 0 THEN EmptyArgs ELSE Apply(f[k - 1], args[k])]

(* The recursion of RouteArgs defines a function. *)
LEMMA ArgsAreDefined ==
  ASSUME NEW args, NEW n \in Nat
  PROVE  \E f : AppliesArgs(f, args, n)
<1> DEFINE Good == {m \in Nat : \E f : AppliesArgs(f, args, m)}
<1>1. 0 \in Good
  <2>1. AppliesArgs([k \in 0 .. 0 |-> EmptyArgs], args, 0)
    BY DEF AppliesArgs
  <2> QED
    BY <2>1
<1>2. ASSUME NEW m \in Nat, m \in Good PROVE m + 1 \in Good
  <2>1. PICK f : AppliesArgs(f, args, m)
    BY <1>2
  <2>2. f = [k \in 0 .. m |->
               IF k = 0 THEN EmptyArgs ELSE Apply(f[k - 1], args[k])]
    BY <2>1 DEF AppliesArgs
  <2> DEFINE h == [k \in 0 .. m + 1 |->
                     IF k = m + 1 THEN Apply(f[m], args[m + 1]) ELSE f[k]]
  <2>3. \A k \in 0 .. m + 1 : h[k] =
          IF k = 0 THEN EmptyArgs ELSE Apply(h[k - 1], args[k])
    <3>1. SUFFICES ASSUME NEW k \in 0 .. m + 1
                   PROVE  h[k] =
                            IF k = 0 THEN EmptyArgs ELSE Apply(h[k - 1], args[k])
      OBVIOUS
    <3>2. CASE k = m + 1
      BY <3>2
    <3>3. CASE k # m + 1
      <4>1. k \in 0 .. m /\ h[k] = f[k] /\ (k # 0 => h[k - 1] = f[k - 1])
        BY <3>3
      <4>2. f[k] = IF k = 0 THEN EmptyArgs ELSE Apply(f[k - 1], args[k])
        BY <2>2, <4>1
      <4> QED
        BY <4>1, <4>2
    <3> QED
      BY <3>2, <3>3
  <2>4. AppliesArgs(h, args, m + 1)
    BY <2>3 DEF AppliesArgs
  <2> HIDE DEF h
  <2> QED
    BY <2>4
<1>3. \A m \in Nat : m \in Good => m + 1 \in Good
  BY <1>2
<1> HIDE DEF Good
<1>4. Nat \subseteq Good
  BY <1>1, <1>3, NoLeastBad
<1> QED
  BY <1>4 DEF Good

(* What f does along that recursion. *)
RunOfArgs(f, args) ==
  /\ f[0] = EmptyArgs
  /\ \A m \in Nat : m + 1 <= Len(args) =>
       f[m + 1] = Apply(f[m], args[m + 1])
  /\ RouteArgs(args) = f[Len(args)]

(* RouteArgs runs its recursion to the end. *)
LEMMA ArgsRun ==
  ASSUME NEW args, Len(args) \in Nat
  PROVE  \E f : RunOfArgs(f, args)
<1> DEFINE n == Len(args)
           f == CHOOSE g : AppliesArgs(g, args, n)
<1>1. RouteArgs(args) = f[n]
  BY DEF RouteArgs, AppliesArgs
<1>2. n \in Nat
  OBVIOUS
<1>3. n = Len(args)
  OBVIOUS
<1> HIDE DEF n
<1>4. AppliesArgs(f, args, n)
  BY <1>2, ArgsAreDefined
<1> HIDE DEF f
<1>5. \A k \in 0 .. n : f[k] = IF k = 0 THEN EmptyArgs ELSE Apply(f[k - 1], args[k])
  BY <1>4 DEF AppliesArgs
<1>6. f[0] = EmptyArgs
  <2>1. 0 \in 0 .. n
    BY <1>2
  <2> QED
    BY <1>5, <2>1, Zenon
<1>7. ASSUME NEW m \in Nat, m + 1 <= n
      PROVE  f[m + 1] = Apply(f[m], args[m + 1])
  <2>1. m + 1 \in 0 .. n /\ m + 1 # 0 /\ (m + 1) - 1 = m
    BY <1>2, <1>7
  <2> QED
    BY <1>5, <2>1
<1>8. RunOfArgs(f, args)
  BY <1>1, <1>3, <1>6, <1>7 DEF RunOfArgs
<1> QED
  BY <1>8

(* What the recursive function inside ServiceArgs is. *)
AppliesServiceArgs(f, args, n) ==
  f = [k \in 0 .. n |->
         IF k = 0 THEN EmptyService ELSE ServiceArg(f[k - 1], args[k])]

(* The recursion of ServiceArgs defines a function. *)
LEMMA ServiceArgsAreDefined ==
  ASSUME NEW args, NEW n \in Nat
  PROVE  \E f : AppliesServiceArgs(f, args, n)
<1> DEFINE Good == {m \in Nat : \E f : AppliesServiceArgs(f, args, m)}
<1>1. 0 \in Good
  <2>1. AppliesServiceArgs([k \in 0 .. 0 |-> EmptyService], args, 0)
    BY DEF AppliesServiceArgs
  <2> QED
    BY <2>1
<1>2. ASSUME NEW m \in Nat, m \in Good PROVE m + 1 \in Good
  <2>1. PICK f : AppliesServiceArgs(f, args, m)
    BY <1>2
  <2>2. f = [k \in 0 .. m |->
               IF k = 0 THEN EmptyService ELSE ServiceArg(f[k - 1], args[k])]
    BY <2>1 DEF AppliesServiceArgs
  <2> DEFINE h == [k \in 0 .. m + 1 |->
                     IF k = m + 1 THEN ServiceArg(f[m], args[m + 1]) ELSE f[k]]
  <2>3. \A k \in 0 .. m + 1 : h[k] =
          IF k = 0 THEN EmptyService ELSE ServiceArg(h[k - 1], args[k])
    <3>1. SUFFICES ASSUME NEW k \in 0 .. m + 1
                   PROVE  h[k] =
                            IF k = 0 THEN EmptyService ELSE ServiceArg(h[k - 1], args[k])
      OBVIOUS
    <3>2. CASE k = m + 1
      BY <3>2
    <3>3. CASE k # m + 1
      <4>1. k \in 0 .. m /\ h[k] = f[k] /\ (k # 0 => h[k - 1] = f[k - 1])
        BY <3>3
      <4>2. f[k] = IF k = 0 THEN EmptyService ELSE ServiceArg(f[k - 1], args[k])
        BY <2>2, <4>1
      <4> QED
        BY <4>1, <4>2
    <3> QED
      BY <3>2, <3>3
  <2>4. AppliesServiceArgs(h, args, m + 1)
    BY <2>3 DEF AppliesServiceArgs
  <2> HIDE DEF h
  <2> QED
    BY <2>4
<1>3. \A m \in Nat : m \in Good => m + 1 \in Good
  BY <1>2
<1> HIDE DEF Good
<1>4. Nat \subseteq Good
  BY <1>1, <1>3, NoLeastBad
<1> QED
  BY <1>4 DEF Good

(* What f does along that recursion. *)
RunOfServiceArgs(f, args) ==
  /\ f[0] = EmptyService
  /\ \A m \in Nat : m + 1 <= Len(args) =>
       f[m + 1] = ServiceArg(f[m], args[m + 1])
  /\ ServiceArgs(args) = f[Len(args)]

(* ServiceArgs runs its recursion to the end. *)
LEMMA ServiceArgsRun ==
  ASSUME NEW args, Len(args) \in Nat
  PROVE  \E f : RunOfServiceArgs(f, args)
<1> DEFINE n == Len(args)
           f == CHOOSE g : AppliesServiceArgs(g, args, n)
<1>1. ServiceArgs(args) = f[n]
  BY DEF ServiceArgs, AppliesServiceArgs
<1>2. n \in Nat
  OBVIOUS
<1>3. n = Len(args)
  OBVIOUS
<1> HIDE DEF n
<1>4. AppliesServiceArgs(f, args, n)
  BY <1>2, ServiceArgsAreDefined
<1> HIDE DEF f
<1>5. \A k \in 0 .. n : f[k] = IF k = 0 THEN EmptyService ELSE ServiceArg(f[k - 1], args[k])
  BY <1>4 DEF AppliesServiceArgs
<1>6. f[0] = EmptyService
  <2>1. 0 \in 0 .. n
    BY <1>2
  <2> QED
    BY <1>5, <2>1, Zenon
<1>7. ASSUME NEW m \in Nat, m + 1 <= n
      PROVE  f[m + 1] = ServiceArg(f[m], args[m + 1])
  <2>1. m + 1 \in 0 .. n /\ m + 1 # 0 /\ (m + 1) - 1 = m
    BY <1>2, <1>7
  <2> QED
    BY <1>5, <2>1
<1>8. RunOfServiceArgs(f, args)
  BY <1>1, <1>3, <1>6, <1>7 DEF RunOfServiceArgs
<1> QED
  BY <1>8

(* An argument sets `to` to a text, or leaves it. *)
LEMMA ApplyKeeps ==
  ASSUME NEW b, DOMAIN b = DOMAIN EmptyArgs, TextIfAny(b.to), NEW arg,
         arg.key = "to" => IsText(arg.value)
  PROVE  DOMAIN Apply(b, arg) = DOMAIN EmptyArgs /\ TextIfAny(Apply(b, arg).to)
<1>1. "to" \in DOMAIN b /\ "valid" \in DOMAIN b /\ "to" # "valid"
  BY DEF EmptyArgs
<1>2. [b EXCEPT !.valid = FALSE].to = b.to
  BY <1>1
<1>3. ASSUME NEW slot, NEW value, slot = "to" => IsText(value)
      PROVE  /\ DOMAIN SetOnce(b, slot, value) = DOMAIN b
             /\ TextIfAny(SetOnce(b, slot, value).to)
  <2>1. CASE slot = "to"
    <3>1. [b EXCEPT ![slot] = <<value>>].to = <<value>>
      BY <1>1, <2>1
    <3> QED
      BY <1>2, <1>3, <2>1, <3>1 DEF SetOnce, TextIfAny
  <2>2. CASE slot # "to"
    <3>1. [b EXCEPT ![slot] = <<value>>].to = b.to
      BY <1>1, <2>2
    <3> QED
      BY <1>2, <3>1 DEF SetOnce
  <2> QED
    BY <2>1, <2>2
<1>4. CASE Parses(arg)
  <2> DEFINE slot == Slot(arg)
             value == SlotValue(arg)
  <2>1. slot = "to" => IsText(value)
    BY DEF Slot, SlotValue
  <2>2. Apply(b, arg) = SetOnce(b, slot, value)
    BY <1>4 DEF Apply
  <2> HIDE DEF slot, value
  <2> QED
    BY <1>3, <2>1, <2>2
<1> QED
  BY <1>2, <1>4 DEF Apply

(* So what it ends with is one, if anything. *)
LEMMA TargetIsText ==
  ASSUME NEW args, IsArgs(args, "to")
  PROVE  TextIfAny(RouteArgs(args).to)
<1> DEFINE n == Len(args)
<1>1. n \in Nat /\ DOMAIN args = 1 .. n
      /\ \A i \in DOMAIN args : args[i].key = "to" => IsText(args[i].value)
  BY DEF IsArgs, IsSequence
<1>2. PICK f : RunOfArgs(f, args)
  BY <1>1, ArgsRun
<1>3. /\ f[0] = EmptyArgs /\ RouteArgs(args) = f[n]
      /\ \A m \in Nat : m + 1 <= n => f[m + 1] = Apply(f[m], args[m + 1])
  BY <1>2 DEF RunOfArgs
<1> HIDE DEF n
<1> DEFINE Fine(b) == DOMAIN b = DOMAIN EmptyArgs /\ TextIfAny(b.to)
           Good == {m \in Nat : m <= n => Fine(f[m])}
<1>4. 0 \in Good
  BY <1>3 DEF EmptyArgs, TextIfAny
<1>5. ASSUME NEW m \in Nat, m \in Good PROVE m + 1 \in Good
  <2>1. SUFFICES ASSUME m + 1 <= n PROVE Fine(f[m + 1])
    OBVIOUS
  <2>2. Fine(f[m]) /\ m + 1 \in DOMAIN args
    BY <1>1, <1>5, <2>1
  <2> DEFINE arg == args[m + 1]
             b == f[m]
  <2>3. arg.key = "to" => IsText(arg.value)
    BY <1>1, <2>2
  <2>4. f[m + 1] = Apply(b, arg)
    BY <1>3, <2>1
  <2> HIDE DEF arg, b
  <2>5. Fine(b)
    BY <2>2 DEF b
  <2> QED
    BY <2>3, <2>4, <2>5, ApplyKeeps
<1>6. \A m \in Nat : m \in Good => m + 1 \in Good
  BY <1>5
<1> HIDE DEF Good
<1>7. Nat \subseteq Good
  BY <1>4, <1>6, NoLeastBad
<1> QED
  BY <1>1, <1>3, <1>7 DEF Good

(* An argument sets `prefix` to a text, or leaves it. *)
LEMMA ServiceArgKeeps ==
  ASSUME NEW b, DOMAIN b = DOMAIN EmptyService, TextIfAny(b.prefix), NEW arg,
         arg.key = "prefix" => IsText(arg.value)
  PROVE  DOMAIN ServiceArg(b, arg) = DOMAIN EmptyService /\ TextIfAny(ServiceArg(b, arg).prefix)
<1>1. "prefix" \in DOMAIN b /\ "valid" \in DOMAIN b /\ "prefix" # "valid"
  BY DEF EmptyService
<1>2. [b EXCEPT !.valid = FALSE].prefix = b.prefix
  BY <1>1
<1>3. ASSUME NEW slot, NEW value, slot = "prefix" => IsText(value)
      PROVE  /\ DOMAIN SetOnce(b, slot, value) = DOMAIN b
             /\ TextIfAny(SetOnce(b, slot, value).prefix)
  <2>1. CASE slot = "prefix"
    <3>1. [b EXCEPT ![slot] = <<value>>].prefix = <<value>>
      BY <1>1, <2>1
    <3> QED
      BY <1>2, <1>3, <2>1, <3>1 DEF SetOnce, TextIfAny
  <2>2. CASE slot # "prefix"
    <3>1. [b EXCEPT ![slot] = <<value>>].prefix = b.prefix
      BY <1>1, <2>2
    <3> QED
      BY <1>2, <3>1 DEF SetOnce
  <2> QED
    BY <2>1, <2>2
<1>4. CASE ~arg.bare /\ arg.key \in {"name", "prefix", "policy"}
  <2>1. ServiceArg(b, arg) = SetOnce(b, arg.key, arg.value)
    BY <1>4 DEF ServiceArg
  <2> QED
    BY <1>3, <2>1
<1> QED
  BY <1>2, <1>4 DEF ServiceArg

(* So what it ends with is one, if anything. *)
LEMMA PrefixIsText ==
  ASSUME NEW args, IsArgs(args, "prefix")
  PROVE  TextIfAny(ServiceArgs(args).prefix)
<1> DEFINE n == Len(args)
<1>1. n \in Nat /\ DOMAIN args = 1 .. n
      /\ \A i \in DOMAIN args : args[i].key = "prefix" => IsText(args[i].value)
  BY DEF IsArgs, IsSequence
<1>2. PICK f : RunOfServiceArgs(f, args)
  BY <1>1, ServiceArgsRun
<1>3. /\ f[0] = EmptyService /\ ServiceArgs(args) = f[n]
      /\ \A m \in Nat : m + 1 <= n => f[m + 1] = ServiceArg(f[m], args[m + 1])
  BY <1>2 DEF RunOfServiceArgs
<1> HIDE DEF n
<1> DEFINE Fine(b) == DOMAIN b = DOMAIN EmptyService /\ TextIfAny(b.prefix)
           Good == {m \in Nat : m <= n => Fine(f[m])}
<1>4. 0 \in Good
  BY <1>3 DEF EmptyService, TextIfAny
<1>5. ASSUME NEW m \in Nat, m \in Good PROVE m + 1 \in Good
  <2>1. SUFFICES ASSUME m + 1 <= n PROVE Fine(f[m + 1])
    OBVIOUS
  <2>2. Fine(f[m]) /\ m + 1 \in DOMAIN args
    BY <1>1, <1>5, <2>1
  <2> DEFINE arg == args[m + 1]
             b == f[m]
  <2>3. arg.key = "prefix" => IsText(arg.value)
    BY <1>1, <2>2
  <2>4. f[m + 1] = ServiceArg(b, arg)
    BY <1>3, <2>1
  <2> HIDE DEF arg, b
  <2>5. Fine(b)
    BY <2>2 DEF b
  <2> QED
    BY <2>3, <2>4, <2>5, ServiceArgKeeps
<1>6. \A m \in Nat : m \in Good => m + 1 \in Good
  BY <1>5
<1> HIDE DEF Good
<1>7. Nat \subseteq Good
  BY <1>4, <1>6, NoLeastBad
<1> QED
  BY <1>1, <1>3, <1>7 DEF Good

(* The route of a function that expands is as its attribute says. *)
LEMMA RouteIsDeclared ==
  ASSUME NEW attrs, FnExpands(attrs), RouteAttrs(attrs) # {},
         \A a \in DOMAIN attrs : IsText(attrs[a].path) /\ IsArgs(attrs[a].args, "to")
  PROVE  RewriteOK(RouteDef(attrs).path, RouteDef(attrs).to, RouteDef(attrs).rewrite)
<1> DEFINE i == CHOOSE j \in RouteAttrs(attrs) : TRUE
           r == ExpandRoute(attrs)
           d == RouteDef(attrs)
<1>1. i \in DOMAIN attrs
  BY DEF RouteAttrs
<1>2. r.path = attrs[i].path /\ r.to = RouteArgs(attrs[i].args).to
  BY DEF ExpandRoute
<1>3. RewriteKind(r.to) = "Template" => TemplateCompiles(r.path, r.to[1])
  BY DEF FnExpands
<1>4. d.path = r.path /\ d.to = r.to /\ d.rewrite = RewriteSpec(r)
  BY DEF RouteDef
<1> HIDE DEF i, r, d
<1>5. IsText(r.path) /\ TextIfAny(r.to)
  BY <1>1, <1>2, TargetIsText
<1>6. CASE r.to = <<>>
  <2>1. RewriteKind(r.to) = "StripPrefix"
    BY <1>6 DEF RewriteKind
  <2>2. RewriteSpec(r).kind = "StripPrefix"
    BY <2>1 DEF RewriteSpec
  <2> QED
    BY <1>4, <1>5, <1>6, <2>2 DEF RewriteOK, d
<1>7. CASE r.to # <<>> /\ "{" \notin Range(r.to[1])
  <2>1. RewriteKind(r.to) = "Static" /\ IsText(r.to[1])
    BY <1>5, <1>7 DEF RewriteKind, TextIfAny
  <2>2. RewriteSpec(r).kind = "Static" /\ RewriteSpec(r).to = r.to[1]
    BY <2>1 DEF RewriteSpec
  <2> QED
    BY <1>4, <1>5, <1>7, <2>1, <2>2 DEF RewriteOK, d
<1>8. CASE r.to # <<>> /\ "{" \in Range(r.to[1])
  <2>1. RewriteKind(r.to) = "Template" /\ IsText(r.to[1])
    BY <1>5, <1>8 DEF RewriteKind, TextIfAny
  <2>2. /\ RewriteSpec(r).kind = "Template"
        /\ RewriteSpec(r).template = Template(r.path, r.to[1])
    BY <2>1 DEF RewriteSpec
  <2> QED
    BY <1>3, <1>4, <1>5, <1>8, <2>1, <2>2 DEF RewriteOK, d
<1> QED
  BY <1>6, <1>7, <1>8

(* A function of the list with a route attribute. *)
IsRouted(x, fns) == RouteAttrs(x) # {} /\ \E j \in DOMAIN fns : x = fns[j]

(* What the recursive function inside Routed is. *)
ListsRouted(f, fns, n) ==
  f = [k \in 0 .. n |->
         IF k = 0 THEN <<>>
         ELSE IF RouteAttrs(fns[k]) = {} THEN f[k - 1] ELSE Append(f[k - 1], fns[k])]

(* The recursion of Routed defines a function. *)
LEMMA RoutedIsDefined ==
  ASSUME NEW fns, NEW n \in Nat
  PROVE  \E f : ListsRouted(f, fns, n)
<1> DEFINE Good == {m \in Nat : \E f : ListsRouted(f, fns, m)}
<1>1. 0 \in Good
  <2>1. ListsRouted([k \in 0 .. 0 |-> <<>>], fns, 0)
    BY DEF ListsRouted
  <2> QED
    BY <2>1
<1>2. ASSUME NEW m \in Nat, m \in Good PROVE m + 1 \in Good
  <2>1. PICK f : ListsRouted(f, fns, m)
    BY <1>2
  <2>2. f = [k \in 0 .. m |->
               IF k = 0 THEN <<>>
               ELSE IF RouteAttrs(fns[k]) = {} THEN f[k - 1] ELSE Append(f[k - 1], fns[k])]
    BY <2>1 DEF ListsRouted
  <2> DEFINE h == [k \in 0 .. m + 1 |->
                     IF k = m + 1 THEN
                       IF RouteAttrs(fns[m + 1]) = {} THEN f[m]
                       ELSE Append(f[m], fns[m + 1])
                     ELSE f[k]]
  <2>3. \A k \in 0 .. m + 1 : h[k] =
          IF k = 0 THEN <<>>
          ELSE IF RouteAttrs(fns[k]) = {} THEN h[k - 1] ELSE Append(h[k - 1], fns[k])
    <3>1. SUFFICES ASSUME NEW k \in 0 .. m + 1
                   PROVE  h[k] =
                            IF k = 0 THEN <<>>
                            ELSE IF RouteAttrs(fns[k]) = {} THEN h[k - 1]
                            ELSE Append(h[k - 1], fns[k])
      OBVIOUS
    <3>2. CASE k = m + 1
      BY <3>2
    <3>3. CASE k # m + 1
      <4>1. k \in 0 .. m /\ h[k] = f[k] /\ (k # 0 => h[k - 1] = f[k - 1])
        BY <3>3
      <4>2. f[k] = IF k = 0 THEN <<>>
                   ELSE IF RouteAttrs(fns[k]) = {} THEN f[k - 1] ELSE Append(f[k - 1], fns[k])
        BY <2>2, <4>1
      <4> QED
        BY <4>1, <4>2
    <3> QED
      BY <3>2, <3>3
  <2>4. ListsRouted(h, fns, m + 1)
    BY <2>3 DEF ListsRouted
  <2> HIDE DEF h
  <2> QED
    BY <2>4
<1>3. \A m \in Nat : m \in Good => m + 1 \in Good
  BY <1>2
<1> HIDE DEF Good
<1>4. Nat \subseteq Good
  BY <1>1, <1>3, NoLeastBad
<1> QED
  BY <1>4 DEF Good

(* What f does along that recursion. *)
RunOfRouted(f, fns) ==
  /\ f[0] = <<>>
  /\ \A m \in Nat : m + 1 <= Len(fns) =>
       f[m + 1] = IF RouteAttrs(fns[m + 1]) = {} THEN f[m] ELSE Append(f[m], fns[m + 1])
  /\ Routed(fns) = f[Len(fns)]

(* Routed runs its recursion to the end. *)
LEMMA RoutedRuns ==
  ASSUME NEW fns, Len(fns) \in Nat
  PROVE  \E f : RunOfRouted(f, fns)
<1> DEFINE n == Len(fns)
           f == CHOOSE g : ListsRouted(g, fns, n)
<1>1. Routed(fns) = f[n]
  BY DEF Routed, ListsRouted
<1>2. n \in Nat
  OBVIOUS
<1>3. n = Len(fns)
  OBVIOUS
<1> HIDE DEF n
<1>4. ListsRouted(f, fns, n)
  BY <1>2, RoutedIsDefined
<1> HIDE DEF f
<1>5. \A k \in 0 .. n : f[k] =
        IF k = 0 THEN <<>>
        ELSE IF RouteAttrs(fns[k]) = {} THEN f[k - 1] ELSE Append(f[k - 1], fns[k])
  BY <1>4 DEF ListsRouted
<1>6. f[0] = <<>>
  BY <1>2, <1>5
<1>7. ASSUME NEW m \in Nat, m + 1 <= n
      PROVE  f[m + 1] = IF RouteAttrs(fns[m + 1]) = {} THEN f[m] ELSE Append(f[m], fns[m + 1])
  <2>1. m + 1 \in 0 .. n /\ m + 1 # 0 /\ (m + 1) - 1 = m
    BY <1>2, <1>7
  <2> QED
    BY <1>5, <2>1
<1>8. RunOfRouted(f, fns)
  BY <1>1, <1>3, <1>6, <1>7 DEF RunOfRouted
<1> QED
  BY <1>8

(* The functions with a route attribute are a list again. *)
LEMMA RoutedIsList ==
  ASSUME NEW fns, IsSequence(fns)
  PROVE  IsList(Routed(fns)) /\ \A i \in 1 .. Len(Routed(fns)) : IsRouted(Routed(fns)[i], fns)
<1> DEFINE n == Len(fns)
           Fine(r) == IsList(r) /\ \A i \in 1 .. Len(r) : IsRouted(r[i], fns)
<1>1. n \in Nat /\ DOMAIN fns = 1 .. n
  BY DEF IsSequence
<1>2. PICK f : RunOfRouted(f, fns)
  BY <1>1, RoutedRuns
<1>3. /\ f[0] = <<>> /\ Routed(fns) = f[n]
      /\ \A m \in Nat : m + 1 <= n =>
           f[m + 1] = IF RouteAttrs(fns[m + 1]) = {} THEN f[m] ELSE Append(f[m], fns[m + 1])
  BY <1>2 DEF RunOfRouted
<1> HIDE DEF n
<1> DEFINE Good == {m \in Nat : m <= n => Fine(f[m])}
<1>4. 0 \in Good
  <2>1. IsList(<<>>) /\ Len(<<>>) = 0
    BY EmptySeq DEF IsList
  <2> QED
    BY <1>3, <2>1
<1>5. ASSUME NEW m \in Nat, m \in Good PROVE m + 1 \in Good
  <2>1. SUFFICES ASSUME m + 1 <= n PROVE Fine(f[m + 1])
    OBVIOUS
  <2> DEFINE r == f[m]
             x == fns[m + 1]
  <2>2. Fine(r) /\ m + 1 \in DOMAIN fns
    BY <1>1, <1>5, <2>1
  <2>3. f[m + 1] = IF RouteAttrs(x) = {} THEN r ELSE Append(r, x)
    BY <1>3, <2>1
  <2>4. RouteAttrs(x) # {} => IsRouted(x, fns)
    BY <2>2 DEF IsRouted
  <2> HIDE DEF r, x
  <2>5. ASSUME RouteAttrs(x) # {} PROVE Fine(Append(r, x))
    <3> DEFINE t == Append(r, x)
    <3>1. IsList(r) /\ Len(r) \in Nat
      BY <2>2, SeqFacts DEF r
    <3>2. /\ IsList(t) /\ Len(t) = Len(r) + 1 /\ t[Len(r) + 1] = x
          /\ \A k \in 1 .. Len(r) : t[k] = r[k]
      BY <3>1, AppendSeq
    <3> HIDE DEF t
    <3>3. ASSUME NEW i \in 1 .. Len(t) PROVE IsRouted(t[i], fns)
      <4>1. CASE i = Len(r) + 1
        BY <2>4, <2>5, <3>2, <4>1
      <4>2. CASE i # Len(r) + 1
        <5>1. i \in 1 .. Len(r)
          BY <3>1, <3>2, <4>2
        <5>2. IsRouted(r[i], fns)
          BY <2>2, <5>1 DEF r
        <5> QED
          BY <3>2, <5>1, <5>2
      <4> QED
        BY <4>1, <4>2
    <3>4. Fine(t)
      BY <3>2, <3>3
    <3> QED
      BY <3>4 DEF t
  <2> QED
    BY <2>2, <2>3, <2>5 DEF r
<1>6. \A m \in Nat : m \in Good => m + 1 \in Good
  BY <1>5
<1> HIDE DEF Good
<1>7. Nat \subseteq Good
  BY <1>4, <1>6, NoLeastBad
<1>8. Fine(f[n])
  BY <1>1, <1>7 DEF Good
<1> QED
  BY <1>3, <1>8

(* A service's prefix is a text, and its routes rewrite as they declare. *)
ServiceOK(s) ==
  /\ IsList(s.routes) /\ IsText(s.prefix)
  /\ \A i \in 1 .. Len(s.routes) :
       RewriteOK(s.routes[i].path, s.routes[i].to, s.routes[i].rewrite)

(* That is so of every service that is compiled. *)
LEMMA CompiledIsOK ==
  ASSUME NEW m, Written(m), ServiceExpands(m)
  PROVE  ServiceOK(ExpandService(m))
<1> DEFINE fns == Routed(m.fns)
           rs == [i \in DOMAIN fns |-> RouteDef(fns[i])]
           prefix == OrElse(ServiceArgs(m.args).prefix, <<>>)
           s == ExpandService(m)
<1>1. s.routes = rs /\ s.prefix = prefix
  BY DEF ExpandService
<1>2. IsList(fns) /\ \A i \in 1 .. Len(fns) : IsRouted(fns[i], m.fns)
  BY RoutedIsList DEF Written
<1>3. IsText(prefix)
  <2>1. TextIfAny(ServiceArgs(m.args).prefix)
    BY PrefixIsText DEF Written
  <2>2. IsText(<<>>)
    BY EmptySeq DEF IsText
  <2> QED
    BY <2>1, <2>2 DEF TextIfAny, OrElse
<1> HIDE DEF fns, prefix
<1>4. Len(fns) \in Nat /\ DOMAIN fns = 1 .. Len(fns)
  BY <1>2, SeqFacts
<1>5. rs = [i \in 1 .. Len(fns) |-> rs[i]] /\ \A i \in 1 .. Len(fns) : rs[i] = RouteDef(fns[i])
  BY <1>4
<1> HIDE DEF rs, s
<1>6. IsList(rs) /\ Len(rs) = Len(fns)
  BY <1>4, <1>5, FunctionIsList
<1>7. ASSUME NEW i \in 1 .. Len(rs) PROVE RewriteOK(rs[i].path, rs[i].to, rs[i].rewrite)
  <2>1. PICK j \in DOMAIN m.fns : fns[i] = m.fns[j]
    BY <1>2, <1>6 DEF IsRouted
  <2> DEFINE attrs == m.fns[j]
  <2>2. RouteAttrs(attrs) # {} /\ rs[i] = RouteDef(attrs)
    BY <1>2, <1>5, <1>6, <2>1 DEF IsRouted
  <2>3. FnExpands(attrs)
    BY DEF ServiceExpands
  <2>4. \A a \in DOMAIN attrs : IsText(attrs[a].path) /\ IsArgs(attrs[a].args, "to")
    BY DEF Written
  <2> HIDE DEF attrs
  <2> QED
    BY <2>2, <2>3, <2>4, RouteIsDeclared
<1>8. ServiceOK(s)
  BY <1>1, <1>3, <1>6, <1>7 DEF ServiceOK
<1> QED
  BY <1>8 DEF s

-----------------------------------------------------------------------------
(***************************************************************************)
(* The builder: what every call on it leaves behind.                       *)
(***************************************************************************)

(* A map that calls fill: keyOf[i] is <<k>> if the i-th writes key k, and  *)
(* <<>> if it writes none; the last to write a key decides.                *)
Writes(keyOf, n, k) == {i \in 1 .. n : keyOf[i] = <<k>>}

(* The map after n calls. *)
Follows(f, keyOf, valOf, n) ==
  /\ \A k : k \in DOMAIN f <=> Writes(keyOf, n, k) # {}
  /\ \A k \in DOMAIN f : f[k] = valOf[Max(Writes(keyOf, n, k))]

(* The greatest number of a set up to n that has n. *)
LEMMA GreatestIsTop ==
  ASSUME NEW n \in Nat, NEW S, S \subseteq 1 .. n, n \in S
  PROVE  Max(S) = n
<1>1. S \subseteq 0 .. n /\ S # {}
  OBVIOUS
<1>2. Max(S) \in S /\ \A m \in S : m <= Max(S)
  BY <1>1, GreatestMember
<1>3. Max(S) \in 1 .. n /\ n <= Max(S)
  BY <1>2
<1> QED
  BY <1>3

(* No call has written to an empty map. *)
LEMMA FollowsNothing ==
  ASSUME NEW keyOf, NEW valOf
  PROVE  Follows(NoEntries, keyOf, valOf, 0)
BY DEF Follows, Writes, NoEntries

(* A call that writes a key. *)
LEMMA FollowsEntry ==
  ASSUME NEW f, NEW keyOf, NEW valOf, NEW n \in Nat, Follows(f, keyOf, valOf, n),
         NEW x, keyOf[n + 1] = <<x>>
  PROVE  Follows(Over(f, x, valOf[n + 1]), keyOf, valOf, n + 1)
<1> DEFINE v == valOf[n + 1]
           g == Over(f, x, v)
<1> HIDE DEF v
<1>1. DOMAIN g = DOMAIN f \union {x} /\ g[x] = v
  BY DEF Over
<1>2. \A k \in DOMAIN f : k # x => g[k] = f[k]
  BY DEF Over
<1> HIDE DEF g
<1>3. n + 1 \in Writes(keyOf, n + 1, x)
  BY DEF Writes
<1>4. Max(Writes(keyOf, n + 1, x)) = n + 1
  BY <1>3, GreatestIsTop DEF Writes
<1>5. ASSUME NEW k, k # x PROVE Writes(keyOf, n + 1, k) = Writes(keyOf, n, k)
  <2>1. keyOf[n + 1] # <<k>>
    BY <1>5
  <2>2. \A i : i \in 1 .. n + 1 <=> i \in 1 .. n \/ i = n + 1
    OBVIOUS
  <2> QED
    BY <2>1, <2>2 DEF Writes
<1>6. ASSUME NEW k PROVE k \in DOMAIN g <=> Writes(keyOf, n + 1, k) # {}
  <2>1. CASE k = x
    BY <1>1, <1>3, <2>1
  <2>2. CASE k # x
    BY <1>1, <1>5, <2>2 DEF Follows
  <2> QED
    BY <2>1, <2>2
<1>7. ASSUME NEW k \in DOMAIN g PROVE g[k] = valOf[Max(Writes(keyOf, n + 1, k))]
  <2>1. CASE k = x
    BY <1>1, <1>4, <2>1 DEF v
  <2>2. CASE k # x
    BY <1>1, <1>2, <1>5, <2>2 DEF Follows
  <2> QED
    BY <2>1, <2>2
<1>8. Follows(g, keyOf, valOf, n + 1)
  BY <1>6, <1>7 DEF Follows
<1> QED
  BY <1>8 DEF g, v

(* A call that writes none. *)
LEMMA FollowsOther ==
  ASSUME NEW f, NEW keyOf, NEW valOf, NEW n \in Nat, Follows(f, keyOf, valOf, n),
         keyOf[n + 1] = <<>>
  PROVE  Follows(f, keyOf, valOf, n + 1)
<1>1. ASSUME NEW k PROVE Writes(keyOf, n + 1, k) = Writes(keyOf, n, k)
  <2>1. keyOf[n + 1] # <<k>>
    OBVIOUS
  <2>2. \A i : i \in 1 .. n + 1 <=> i \in 1 .. n \/ i = n + 1
    OBVIOUS
  <2> QED
    BY <2>1, <2>2 DEF Writes
<1> QED
  BY <1>1 DEF Follows

(* What one call does to each part of the builder. *)
Plain == {"default_policy", "request_timeout", "map_body_limit", "error_renderer",
          "runtime_observer"}
Tuned == {"connect_timeout", "pool_idle_timeout", "pool_max_idle_per_host"}

(* A call writes the part of the builder it is for, and no other. *)
LEMMA ConfigureIs ==
  ASSUME NEW b, DOMAIN b = DOMAIN NewBuilder, NEW c, SetterTakes(c)
  PROVE  /\ DOMAIN Configure(b, c) = DOMAIN NewBuilder
         /\ Configure(b, c).backends =
              IF c.field = "backend" THEN Over(b.backends, c.key, c.value)
              ELSE IF c.field = "mount_service" THEN Over(b.backends, c.value.service, c.key)
              ELSE b.backends
         /\ Configure(b, c).policies =
              IF c.field = "policy" THEN Over(b.policies, c.key, c.value) ELSE b.policies
         /\ Configure(b, c).state =
              IF c.field = "state" THEN Over(b.state, c.key, c.value) ELSE b.state
         /\ Configure(b, c).mounted =
              IF c.field \in {"mount", "mount_service"} THEN Append(b.mounted, c.value)
              ELSE b.mounted
         /\ Configure(b, c).upstream =
              IF c.field \in Tuned THEN [b.upstream EXCEPT ![c.field] = c.value]
              ELSE IF c.field = "upstream" THEN c.value ELSE b.upstream
<1>1. CASE c.field = "backend"
  BY <1>1 DEF Configure, Register, NewBuilder, Plain, Tuned
<1>2. CASE c.field = "policy"
  BY <1>2 DEF Configure, NewBuilder, Plain, Tuned
<1>3. CASE c.field = "state"
  BY <1>3 DEF Configure, NewBuilder, Plain, Tuned
<1>4. CASE c.field = "mount"
  BY <1>4 DEF Configure, Mount, NewBuilder, Plain, Tuned
<1>5. CASE c.field = "mount_service"
  BY <1>5 DEF Configure, MountService, Mount, Register, NewBuilder, Plain, Tuned
<1>6. CASE c.field \in Tuned
  BY <1>6 DEF Configure, NewBuilder, Plain, Tuned
<1>7. CASE c.field \in Plain \union {"upstream"}
  BY <1>7 DEF Configure, NewBuilder, Plain, Tuned
<1> QED
  BY <1>1, <1>2, <1>3, <1>4, <1>5, <1>6, <1>7 DEF SetterTakes, Plain, Tuned

(* So do the calls on the plain knobs. *)
LEMMA ConfigureSets ==
  ASSUME NEW b, DOMAIN b = DOMAIN NewBuilder, NEW c, SetterTakes(c), NEW f \in Plain
  PROVE  Configure(b, c)[f] = IF c.field = f THEN c.value ELSE b[f]
<1>1. CASE c.field \in {"backend", "mount_service"}
  BY <1>1 DEF Configure, Register, MountService, Mount, NewBuilder, Plain, Tuned
<1>2. CASE c.field \in {"policy", "state", "mount"}
  BY <1>2 DEF Configure, Mount, NewBuilder, Plain, Tuned
<1>3. CASE c.field \in Tuned
  BY <1>3 DEF Configure, NewBuilder, Plain, Tuned
<1>4. CASE c.field \in Plain \union {"upstream"}
  BY <1>4 DEF Configure, NewBuilder, Plain, Tuned
<1> QED
  BY <1>1, <1>2, <1>3, <1>4 DEF SetterTakes, Plain, Tuned

(* What the recursive function inside MountedBy is. *)
ListsMounts(f, cs, n) ==
  f = [k \in 0 .. n |->
         IF k = 0 THEN <<>>
         ELSE IF cs[k].field \in {"mount", "mount_service"} THEN Append(f[k - 1], cs[k].value)
         ELSE f[k - 1]]

(* The recursion of MountedBy defines a function. *)
LEMMA MountsAreDefined ==
  ASSUME NEW cs, NEW n \in Nat
  PROVE  \E f : ListsMounts(f, cs, n)
<1> DEFINE Good == {m \in Nat : \E f : ListsMounts(f, cs, m)}
<1>1. 0 \in Good
  <2>1. ListsMounts([k \in 0 .. 0 |-> <<>>], cs, 0)
    BY DEF ListsMounts
  <2> QED
    BY <2>1
<1>2. ASSUME NEW m \in Nat, m \in Good PROVE m + 1 \in Good
  <2>1. PICK f : ListsMounts(f, cs, m)
    BY <1>2
  <2>2. f = [k \in 0 .. m |->
               IF k = 0 THEN <<>>
               ELSE IF cs[k].field \in {"mount", "mount_service"} THEN Append(f[k - 1], cs[k].value)
               ELSE f[k - 1]]
    BY <2>1 DEF ListsMounts
  <2> DEFINE h == [k \in 0 .. m + 1 |->
                     IF k = m + 1 THEN
                       IF cs[m + 1].field \in {"mount", "mount_service"}
                       THEN Append(f[m], cs[m + 1].value)
                       ELSE f[m]
                     ELSE f[k]]
  <2>3. \A k \in 0 .. m + 1 : h[k] =
          IF k = 0 THEN <<>>
          ELSE IF cs[k].field \in {"mount", "mount_service"} THEN Append(h[k - 1], cs[k].value)
          ELSE h[k - 1]
    <3>1. SUFFICES ASSUME NEW k \in 0 .. m + 1
                   PROVE  h[k] =
                            IF k = 0 THEN <<>>
                            ELSE IF cs[k].field \in {"mount", "mount_service"}
                            THEN Append(h[k - 1], cs[k].value)
                            ELSE h[k - 1]
      OBVIOUS
    <3>2. CASE k = m + 1
      BY <3>2
    <3>3. CASE k # m + 1
      <4>1. k \in 0 .. m /\ h[k] = f[k] /\ (k # 0 => h[k - 1] = f[k - 1])
        BY <3>3
      <4>2. f[k] = IF k = 0 THEN <<>>
                   ELSE IF cs[k].field \in {"mount", "mount_service"}
                   THEN Append(f[k - 1], cs[k].value)
                   ELSE f[k - 1]
        BY <2>2, <4>1
      <4> QED
        BY <4>1, <4>2
    <3> QED
      BY <3>2, <3>3
  <2>4. ListsMounts(h, cs, m + 1)
    BY <2>3 DEF ListsMounts
  <2> HIDE DEF h
  <2> QED
    BY <2>4
<1>3. \A m \in Nat : m \in Good => m + 1 \in Good
  BY <1>2
<1> HIDE DEF Good
<1>4. Nat \subseteq Good
  BY <1>1, <1>3, NoLeastBad
<1> QED
  BY <1>4 DEF Good

(* What a sequence of calls mounts, call by call. *)
MountsOf(cs) == CHOOSE f : ListsMounts(f, cs, Len(cs))

(* It is what the properties call the mounted services. *)
LEMMA MountedByIs ==
  ASSUME NEW n
  PROVE  MountedBy(n) = MountsOf(calls)[n]
BY DEF MountedBy, MountsOf, ListsMounts

(* A call that mounts adds one. *)
LEMMA MountsGrow ==
  ASSUME NEW cs, Len(cs) \in Nat
  PROVE  /\ MountsOf(cs)[0] = <<>>
         /\ \A m \in Nat : m + 1 <= Len(cs) =>
              MountsOf(cs)[m + 1] =
                IF cs[m + 1].field \in {"mount", "mount_service"}
                THEN Append(MountsOf(cs)[m], cs[m + 1].value) ELSE MountsOf(cs)[m]
<1> DEFINE f == MountsOf(cs)
           n == Len(cs)
<1>1. ListsMounts(f, cs, n)
  BY MountsAreDefined DEF MountsOf
<1>2. n \in Nat
  OBVIOUS
<1> HIDE DEF f, n
<1>3. \A k \in 0 .. n :
        f[k] = IF k = 0 THEN <<>>
               ELSE IF cs[k].field \in {"mount", "mount_service"} THEN Append(f[k - 1], cs[k].value)
                    ELSE f[k - 1]
  BY <1>1 DEF ListsMounts
<1>4. f[0] = <<>>
  BY <1>2, <1>3
<1>5. ASSUME NEW m \in Nat, m + 1 <= n
      PROVE  f[m + 1] = IF cs[m + 1].field \in {"mount", "mount_service"}
                        THEN Append(f[m], cs[m + 1].value) ELSE f[m]
  <2>1. m + 1 \in 0 .. n /\ m + 1 # 0 /\ (m + 1) - 1 = m
    BY <1>2, <1>5
  <2> QED
    BY <1>3, <2>1
<1> QED
  BY <1>4, <1>5 DEF f, n

(* Calls as the compiled program makes them. *)
CallOK(c) ==
  /\ SetterTakes(c)
  /\ c.field \in {"mount", "mount_service"} => ServiceOK(c.value)

(* All of them. *)
CallsOK(cs) == /\ Len(cs) \in Nat /\ DOMAIN cs = 1 .. Len(cs)
               /\ \A i \in 1 .. Len(cs) : CallOK(cs[i])

(* The last word of the first n calls on one knob. *)
Setting(cs, n, field) == {i \in 1 .. n : Sets(cs[i], field)}
WordBy(cs, n, field, default) ==
  IF Setting(cs, n, field) = {} THEN default
  ELSE IF cs[Max(Setting(cs, n, field))].field = "upstream"
  THEN cs[Max(Setting(cs, n, field))].value[field] ELSE cs[Max(Setting(cs, n, field))].value

(* Before any call the default holds. *)
LEMMA NoWord ==
  ASSUME NEW cs, NEW field, NEW default
  PROVE  WordBy(cs, 0, field, default) = default
<1>1. Setting(cs, 0, field) = {}
  BY DEF Setting
<1> QED
  BY <1>1 DEF WordBy

(* A call on the knob has the last word. *)
LEMMA WordOfCall ==
  ASSUME NEW cs, NEW n \in Nat, NEW field, NEW default
  PROVE  WordBy(cs, n + 1, field, default) =
           IF ~Sets(cs[n + 1], field) THEN WordBy(cs, n, field, default)
           ELSE IF cs[n + 1].field = "upstream" THEN cs[n + 1].value[field] ELSE cs[n + 1].value
<1>2. \A i : i \in 1 .. n + 1 <=> i \in 1 .. n \/ i = n + 1
  OBVIOUS
<1>3. CASE ~Sets(cs[n + 1], field)
  <2>1. Setting(cs, n + 1, field) = Setting(cs, n, field)
    BY <1>2, <1>3 DEF Setting
  <2> QED
    BY <1>3, <2>1 DEF WordBy
<1>4. CASE Sets(cs[n + 1], field)
  <2>1. n + 1 \in Setting(cs, n + 1, field) /\ Setting(cs, n + 1, field) \subseteq 1 .. n + 1
    BY <1>4 DEF Setting
  <2>2. Max(Setting(cs, n + 1, field)) = n + 1
    BY <2>1, GreatestIsTop
  <2> QED
    BY <1>4, <2>1, <2>2 DEF WordBy
<1> QED
  BY <1>3, <1>4

(* The builder after n calls. *)
KeysOf(cs, field) == [i \in DOMAIN cs |-> IF cs[i].field = field THEN <<cs[i].key>> ELSE <<>>]
ValuesOf(cs)      == [i \in DOMAIN cs |-> cs[i].value]

(* The services that calls register, and with which URLs. *)
ServicesOf(cs) ==
  [i \in DOMAIN cs |-> IF cs[i].field = "backend" THEN <<cs[i].key>>
                       ELSE IF cs[i].field = "mount_service" THEN <<cs[i].value.service>>
                       ELSE <<>>]
UrlsBy(cs) == [i \in DOMAIN cs |-> UrlsOf(cs[i])]

(* The builder is what the calls made of it. *)
BuilderOK(b, cs, n) ==
  /\ DOMAIN b = DOMAIN NewBuilder /\ DOMAIN b.upstream = DOMAIN NewUpstream
  /\ Follows(b.backends, ServicesOf(cs), UrlsBy(cs), n)
  /\ Follows(b.policies, KeysOf(cs, "policy"), ValuesOf(cs), n)
  /\ Follows(b.state, KeysOf(cs, "state"), ValuesOf(cs), n)
  /\ b.mounted = MountsOf(cs)[n]
  /\ \A f \in Plain : b[f] = WordBy(cs, n, f, NewBuilder[f])
  /\ \A f \in DOMAIN NewUpstream : b.upstream[f] = WordBy(cs, n, f, NewUpstream[f])

(* A new builder is what no call makes. *)
LEMMA NewBuilderOK ==
  ASSUME NEW cs, Len(cs) \in Nat
  PROVE  BuilderOK(NewBuilder, cs, 0)
<1>1. /\ NewBuilder.backends = NoEntries /\ NewBuilder.policies = NoEntries
      /\ NewBuilder.state = NoEntries /\ NewBuilder.mounted = <<>>
      /\ NewBuilder.upstream = NewUpstream
  BY DEF NewBuilder
<1>2. MountsOf(cs)[0] = <<>>
  BY MountsGrow
<1>3. \A f \in Plain : NewBuilder[f] = WordBy(cs, 0, f, NewBuilder[f])
  BY NoWord, Zenon
<1>4. \A f \in DOMAIN NewUpstream : NewUpstream[f] = WordBy(cs, 0, f, NewUpstream[f])
  BY NoWord, Zenon
<1> QED
  BY <1>1, <1>2, <1>3, <1>4, FollowsNothing DEF BuilderOK

(* A call keeps the maps what the calls made of them. *)
LEMMA ConfigureKeepsMaps ==
  ASSUME NEW cs, CallsOK(cs), NEW n \in Nat, n + 1 <= Len(cs), NEW b, BuilderOK(b, cs, n)
  PROVE  /\ Follows(Configure(b, cs[n + 1]).backends, ServicesOf(cs), UrlsBy(cs), n + 1)
         /\ Follows(Configure(b, cs[n + 1]).policies, KeysOf(cs, "policy"), ValuesOf(cs), n + 1)
         /\ Follows(Configure(b, cs[n + 1]).state, KeysOf(cs, "state"), ValuesOf(cs), n + 1)
<1> DEFINE c == cs[n + 1]
           next == Configure(b, c)
<1>1. n + 1 \in DOMAIN cs /\ SetterTakes(c) /\ DOMAIN b = DOMAIN NewBuilder
  BY DEF CallsOK, CallOK, BuilderOK
<1>2. next.backends = IF c.field = "backend" THEN Over(b.backends, c.key, c.value)
                      ELSE IF c.field = "mount_service"
                      THEN Over(b.backends, c.value.service, c.key) ELSE b.backends
  BY <1>1, ConfigureIs, Zenon
<1>3. next.policies = IF c.field = "policy" THEN Over(b.policies, c.key, c.value) ELSE b.policies
  BY <1>1, ConfigureIs, Zenon
<1>4. next.state = IF c.field = "state" THEN Over(b.state, c.key, c.value) ELSE b.state
  BY <1>1, ConfigureIs, Zenon
<1>5. /\ Follows(b.backends, ServicesOf(cs), UrlsBy(cs), n)
      /\ Follows(b.policies, KeysOf(cs, "policy"), ValuesOf(cs), n)
      /\ Follows(b.state, KeysOf(cs, "state"), ValuesOf(cs), n)
  BY DEF BuilderOK
<1>6. /\ UrlsBy(cs)[n + 1] = UrlsOf(c) /\ ValuesOf(cs)[n + 1] = c.value
      /\ ServicesOf(cs)[n + 1] = IF c.field = "backend" THEN <<c.key>>
                                 ELSE IF c.field = "mount_service" THEN <<c.value.service>>
                                 ELSE <<>>
      /\ KeysOf(cs, "policy")[n + 1] = IF c.field = "policy" THEN <<c.key>> ELSE <<>>
      /\ KeysOf(cs, "state")[n + 1] = IF c.field = "state" THEN <<c.key>> ELSE <<>>
  BY <1>1 DEF UrlsBy, ValuesOf, ServicesOf, KeysOf
<1> HIDE DEF next, c
<1>7. Follows(next.backends, ServicesOf(cs), UrlsBy(cs), n + 1)
  <2>1. CASE c.field = "backend"
    <3>1. UrlsOf(c) = c.value
      BY <2>1 DEF UrlsOf
    <3> QED
      BY <1>2, <1>5, <1>6, <2>1, <3>1, FollowsEntry
  <2>2. CASE c.field = "mount_service"
    <3>1. UrlsOf(c) = c.key
      BY <2>2 DEF UrlsOf
    <3> QED
      BY <1>2, <1>5, <1>6, <2>2, <3>1, FollowsEntry
  <2>3. CASE c.field \notin {"backend", "mount_service"}
    BY <1>2, <1>5, <1>6, <2>3, FollowsOther
  <2> QED
    BY <2>1, <2>2, <2>3
<1>8. Follows(next.policies, KeysOf(cs, "policy"), ValuesOf(cs), n + 1)
  <2>1. CASE c.field = "policy"
    BY <1>3, <1>5, <1>6, <2>1, FollowsEntry
  <2>2. CASE c.field # "policy"
    BY <1>3, <1>5, <1>6, <2>2, FollowsOther
  <2> QED
    BY <2>1, <2>2
<1>9. Follows(next.state, KeysOf(cs, "state"), ValuesOf(cs), n + 1)
  <2>1. CASE c.field = "state"
    BY <1>4, <1>5, <1>6, <2>1, FollowsEntry
  <2>2. CASE c.field # "state"
    BY <1>4, <1>5, <1>6, <2>2, FollowsOther
  <2> QED
    BY <2>1, <2>2
<1> QED
  BY <1>7, <1>8, <1>9 DEF next, c

(* And the knobs. *)
LEMMA ConfigureKeepsKnobs ==
  ASSUME NEW cs, CallsOK(cs), NEW n \in Nat, n + 1 <= Len(cs), NEW b, BuilderOK(b, cs, n)
  PROVE  /\ DOMAIN Configure(b, cs[n + 1]).upstream = DOMAIN NewUpstream
         /\ \A f \in Plain : Configure(b, cs[n + 1])[f] = WordBy(cs, n + 1, f, NewBuilder[f])
         /\ \A f \in DOMAIN NewUpstream :
              Configure(b, cs[n + 1]).upstream[f] = WordBy(cs, n + 1, f, NewUpstream[f])
<1> DEFINE c == cs[n + 1]
           next == Configure(b, c)
<1>1. SetterTakes(c) /\ DOMAIN b = DOMAIN NewBuilder /\ DOMAIN b.upstream = DOMAIN NewUpstream
  BY DEF CallsOK, CallOK, BuilderOK
<1>2. next.upstream = IF c.field \in Tuned THEN [b.upstream EXCEPT ![c.field] = c.value]
                      ELSE IF c.field = "upstream" THEN c.value ELSE b.upstream
  BY <1>1, ConfigureIs, Zenon
<1>3. \A f \in Plain : next[f] = IF c.field = f THEN c.value ELSE b[f]
  BY <1>1, ConfigureSets, Zenon
<1>4. /\ \A f \in Plain : b[f] = WordBy(cs, n, f, NewBuilder[f])
      /\ \A f \in DOMAIN NewUpstream : b.upstream[f] = WordBy(cs, n, f, NewUpstream[f])
  BY DEF BuilderOK
<1>5. \A field, default :
        WordBy(cs, n + 1, field, default) =
          IF ~Sets(c, field) THEN WordBy(cs, n, field, default)
          ELSE IF c.field = "upstream" THEN c.value[field] ELSE c.value
  BY WordOfCall, Zenon
<1> HIDE DEF next, c
<1>6. DOMAIN NewUpstream =
        Tuned \union {"tcp_nodelay", "client_configurers", "connector_configurers"}
  BY DEF NewUpstream, Tuned
<1>7. DOMAIN next.upstream = DOMAIN NewUpstream
  BY <1>1, <1>2 DEF SetterTakes
<1>8. ASSUME NEW f \in Plain PROVE next[f] = WordBy(cs, n + 1, f, NewBuilder[f])
  <2>1. f \notin DOMAIN NewUpstream /\ f # "upstream"
    BY <1>6 DEF Plain, Tuned
  <2>2. Sets(c, f) <=> c.field = f
    BY <2>1 DEF Sets
  <2> QED
    BY <1>3, <1>4, <1>5, <2>1, <2>2
<1>9. ASSUME NEW f \in DOMAIN NewUpstream
      PROVE  next.upstream[f] = WordBy(cs, n + 1, f, NewUpstream[f])
  <2>1. f # "upstream"
    BY <1>6 DEF Tuned
  <2>2. Sets(c, f) <=> c.field = f \/ c.field = "upstream"
    BY DEF Sets
  <2>3. CASE c.field = "upstream"
    <3>1. next.upstream = c.value
      BY <1>2, <2>3 DEF Tuned
    <3> QED
      BY <1>5, <2>2, <2>3, <3>1
  <2>4. CASE c.field \in Tuned
    <3>1. next.upstream = [b.upstream EXCEPT ![c.field] = c.value] /\ c.field # "upstream"
      BY <1>2, <2>4 DEF Tuned
    <3>2. next.upstream[f] = IF f = c.field THEN c.value ELSE b.upstream[f]
      BY <1>1, <3>1
    <3> QED
      BY <1>4, <1>5, <2>2, <3>1, <3>2
  <2>5. CASE c.field \notin Tuned /\ c.field # "upstream"
    <3>1. next.upstream = b.upstream
      BY <1>2, <2>5
    <3>2. c.field # f
      BY <1>1, <1>6, <2>5 DEF SetterTakes
    <3> QED
      BY <1>4, <1>5, <2>2, <2>5, <3>1, <3>2
  <2> QED
    BY <2>3, <2>4, <2>5
<1> QED
  BY <1>7, <1>8, <1>9 DEF next, c

(* So it keeps the builder what the calls made of it. *)
LEMMA ConfigureKeeps ==
  ASSUME NEW cs, CallsOK(cs), NEW n \in Nat, n + 1 <= Len(cs), NEW b, BuilderOK(b, cs, n)
  PROVE  BuilderOK(Configure(b, cs[n + 1]), cs, n + 1)
<1> DEFINE c == cs[n + 1]
           next == Configure(b, c)
<1>1. SetterTakes(c) /\ DOMAIN b = DOMAIN NewBuilder /\ Len(cs) \in Nat
  BY DEF CallsOK, CallOK, BuilderOK
<1>2. DOMAIN next = DOMAIN NewBuilder
  BY <1>1, ConfigureIs, Zenon
<1>3. next.mounted = IF c.field \in {"mount", "mount_service"} THEN Append(b.mounted, c.value)
                     ELSE b.mounted
  BY <1>1, ConfigureIs, Zenon
<1>4. next.mounted = MountsOf(cs)[n + 1]
  <2>1. b.mounted = MountsOf(cs)[n]
    BY DEF BuilderOK
  <2> HIDE DEF next
  <2> QED
    BY <1>1, <1>3, <2>1, MountsGrow
<1>5. DOMAIN next.upstream = DOMAIN NewUpstream
  BY ConfigureKeepsKnobs, Zenon
<1>6. \A f \in Plain : next[f] = WordBy(cs, n + 1, f, NewBuilder[f])
  BY ConfigureKeepsKnobs, Zenon
<1>7. \A f \in DOMAIN NewUpstream : next.upstream[f] = WordBy(cs, n + 1, f, NewUpstream[f])
  BY ConfigureKeepsKnobs, Zenon
<1>8. Follows(next.backends, ServicesOf(cs), UrlsBy(cs), n + 1)
  BY ConfigureKeepsMaps, Zenon
<1>9. Follows(next.policies, KeysOf(cs, "policy"), ValuesOf(cs), n + 1)
  BY ConfigureKeepsMaps, Zenon
<1>10. Follows(next.state, KeysOf(cs, "state"), ValuesOf(cs), n + 1)
  BY ConfigureKeepsMaps, Zenon
<1> HIDE DEF next, c
<1>11. BuilderOK(next, cs, n + 1)
  BY <1>2, <1>4, <1>5, <1>6, <1>7, <1>8, <1>9, <1>10 DEF BuilderOK
<1> QED
  BY <1>11 DEF next, c

-----------------------------------------------------------------------------
(***************************************************************************)
(* What is mounted: compiled services, in a list.                          *)
(***************************************************************************)

(* The calls of a compiled program are calls an AppBuilder takes. *)
LEMMA MadeIsOK ==
  ASSUME NEW c \in DOMAIN Calls,
         Calls[c].field \in {"mount", "mount_service"} => Calls[c].value \in DOMAIN Expanded
  PROVE  CallOK(Made(Calls[c]))
<1> DEFINE d == Calls[c]
           e == Made(d)
<1>1. SetterTakes(d)
  BY GatewayAssumption
<1>2. d.field \in {"mount", "mount_service"} => d.value \in DOMAIN Expanded
  OBVIOUS
<1> HIDE DEF d
<1>3. ASSUME d.field \notin {"mount", "mount_service"} PROVE CallOK(e)
  <2>1. e = d
    BY <1>3 DEF Made
  <2> QED
    BY <1>1, <1>3, <2>1 DEF CallOK
<1>4. ASSUME d.field \in {"mount", "mount_service"} PROVE CallOK(e)
  <2>1. e = [d EXCEPT !.value = Expanded[d.value]]
    BY <1>4 DEF Made
  <2>2. {"field", "key", "value"} \subseteq DOMAIN d
    BY <1>1 DEF SetterTakes
  <2> DEFINE v == Expanded[d.value]
  <2>3. e = [d EXCEPT !.value = v]
    BY <2>1
  <2>4. ServiceOK(v)
    <3> DEFINE m == Sources[d.value]
    <3>1. d.value \in DOMAIN Sources /\ ServiceExpands(m) /\ v = ExpandService(m)
      BY <1>2, <1>4 DEF Expanded
    <3>2. Written(m)
      BY <3>1, GatewayAssumption
    <3> HIDE DEF v, m
    <3> QED
      BY <3>1, <3>2, CompiledIsOK
  <2> HIDE DEF v, e
  <2>5. DOMAIN e = DOMAIN d /\ e.field = d.field /\ e.key = d.key /\ e.value = v
    BY <2>2, <2>3
  <2>6. SetterTakes(e)
    BY <1>1, <1>4, <2>5 DEF SetterTakes
  <2> QED
    BY <2>4, <2>5, <2>6 DEF CallOK
<1> QED
  BY <1>3, <1>4 DEF d

(* They are, when every service they mount is compiled. *)
LEMMA MadeCallsAreOK ==
  ASSUME NEW p \in Programs, p.services \subseteq DOMAIN Expanded
  PROVE  CallsOK([i \in DOMAIN p.script |-> Made(Calls[p.script[i]])])
<1> DEFINE cs == [i \in DOMAIN p.script |-> Made(Calls[p.script[i]])]
           n == Len(p.script)
<1>1. n \in Nat /\ DOMAIN p.script = 1 .. n
  BY GatewayAssumption DEF IsSequence
<1>2. ASSUME NEW i \in 1 .. n PROVE CallOK(cs[i])
  <2>1. /\ p.script[i] \in DOMAIN Calls
        /\ Calls[p.script[i]].field \in {"mount", "mount_service"} =>
             Calls[p.script[i]].value \in DOMAIN Expanded
    BY <1>1, GatewayAssumption
  <2>2. cs[i] = Made(Calls[p.script[i]])
    BY <1>1
  <2> HIDE DEF cs
  <2> QED
    BY <2>1, <2>2, MadeIsOK
<1>3. cs = [i \in 1 .. n |-> cs[i]] /\ DOMAIN cs = 1 .. n
  BY <1>1
<1> HIDE DEF n
<1>4. Len(cs) = n
  <2> HIDE DEF cs
  <2> QED
    BY <1>1, <1>3, FunctionIsList
<1> HIDE DEF cs
<1>5. CallsOK(cs)
  BY <1>1, <1>2, <1>3, <1>4 DEF CallsOK
<1> QED
  BY <1>5 DEF cs

(* What is mounted is compiled services, in a list. *)
MountsFine(ms) == IsList(ms) /\ \A k \in 1 .. Len(ms) : ServiceOK(ms[k])

(* They are what the calls mount. *)
LEMMA MountsAreFine ==
  ASSUME NEW cs, CallsOK(cs), NEW n \in Nat, n <= Len(cs)
  PROVE  MountsFine(MountsOf(cs)[n])
<1> DEFINE f == MountsOf(cs)
           Good == {m \in Nat : m <= Len(cs) => MountsFine(f[m])}
<1>1. Len(cs) \in Nat
  BY DEF CallsOK
<1>2. f[0] = <<>>
  BY <1>1, MountsGrow
<1>3. \A m \in Nat : m + 1 <= Len(cs) =>
        f[m + 1] = IF cs[m + 1].field \in {"mount", "mount_service"}
                   THEN Append(f[m], cs[m + 1].value) ELSE f[m]
  BY <1>1, MountsGrow, Zenon
<1> HIDE DEF f
<1>4. 0 \in Good
  <2>1. IsList(<<>>) /\ Len(<<>>) = 0
    BY EmptySeq DEF IsList
  <2> QED
    BY <1>2, <2>1 DEF MountsFine
<1>5. ASSUME NEW m \in Nat, m \in Good PROVE m + 1 \in Good
  <2>1. SUFFICES ASSUME m + 1 <= Len(cs) PROVE MountsFine(f[m + 1])
    OBVIOUS
  <2>2. MountsFine(f[m])
    BY <1>1, <1>5, <2>1
  <2>3. CASE cs[m + 1].field \notin {"mount", "mount_service"}
    BY <1>3, <2>1, <2>2, <2>3
  <2>4. CASE cs[m + 1].field \in {"mount", "mount_service"}
    <3> DEFINE v == cs[m + 1].value
               s == f[m]
               t == Append(s, v)
    <3>1. f[m + 1] = t
      BY <1>3, <2>1, <2>4
    <3>2. ServiceOK(v)
      BY <1>1, <2>1, <2>4 DEF CallsOK, CallOK
    <3>3. IsList(s) /\ Len(s) \in Nat /\ \A k \in 1 .. Len(s) : ServiceOK(s[k])
      BY <2>2, SeqFacts DEF MountsFine
    <3> HIDE DEF v, s
    <3>4. /\ IsList(t) /\ Len(t) = Len(s) + 1 /\ t[Len(s) + 1] = v
          /\ \A k \in 1 .. Len(s) : t[k] = s[k]
      BY <3>3, AppendSeq
    <3> HIDE DEF t
    <3>5. ASSUME NEW k \in 1 .. Len(t) PROVE ServiceOK(t[k])
      <4>1. CASE k = Len(s) + 1
        BY <3>2, <3>4, <4>1
      <4>2. CASE k # Len(s) + 1
        <5>1. k \in 1 .. Len(s)
          BY <3>3, <3>4, <4>2
        <5> QED
          BY <3>3, <3>4, <5>1
      <4> QED
        BY <4>1, <4>2
    <3>6. MountsFine(t)
      BY <3>4, <3>5 DEF MountsFine
    <3> QED
      BY <3>1, <3>6
  <2> QED
    BY <2>3, <2>4
<1>6. \A m \in Nat : m \in Good => m + 1 \in Good
  BY <1>5
<1> HIDE DEF Good
<1>7. Nat \subseteq Good
  BY <1>4, <1>6, NoLeastBad
<1> QED
  BY <1>7 DEF Good, f

(* What the recursive function inside DeclaredBy is. *)
ListsDeclared(f, ms, n) ==
  f = [k \in 0 .. n |->
         IF k = 0 THEN <<>> ELSE f[k - 1] \o DeclaredIn(ms[k])]

(* The recursion of DeclaredBy defines a function. *)
LEMMA DeclaredIsDefined ==
  ASSUME NEW ms, NEW n \in Nat
  PROVE  \E f : ListsDeclared(f, ms, n)
<1> DEFINE Good == {m \in Nat : \E f : ListsDeclared(f, ms, m)}
<1>1. 0 \in Good
  <2>1. ListsDeclared([k \in 0 .. 0 |-> <<>>], ms, 0)
    BY DEF ListsDeclared
  <2> QED
    BY <2>1
<1>2. ASSUME NEW m \in Nat, m \in Good PROVE m + 1 \in Good
  <2>1. PICK f : ListsDeclared(f, ms, m)
    BY <1>2
  <2>2. f = [k \in 0 .. m |->
               IF k = 0 THEN <<>> ELSE f[k - 1] \o DeclaredIn(ms[k])]
    BY <2>1 DEF ListsDeclared
  <2> DEFINE h == [k \in 0 .. m + 1 |->
                     IF k = m + 1 THEN f[m] \o DeclaredIn(ms[m + 1]) ELSE f[k]]
  <2>3. \A k \in 0 .. m + 1 : h[k] =
          IF k = 0 THEN <<>> ELSE h[k - 1] \o DeclaredIn(ms[k])
    <3>1. SUFFICES ASSUME NEW k \in 0 .. m + 1
                   PROVE  h[k] =
                            IF k = 0 THEN <<>> ELSE h[k - 1] \o DeclaredIn(ms[k])
      OBVIOUS
    <3>2. CASE k = m + 1
      <4>1. h[k] = f[m] \o DeclaredIn(ms[k])
        BY <3>2
      <4>2. k # 0 /\ k - 1 \in 0 .. m + 1 /\ k - 1 # m + 1 /\ k - 1 = m
        BY <3>2
      <4>3. h[k - 1] = f[m]
        BY <4>2
      <4> HIDE DEF h
      <4> QED
        BY <4>1, <4>2, <4>3
    <3>3. CASE k # m + 1
      <4>1. k \in 0 .. m /\ h[k] = f[k] /\ (k # 0 => h[k - 1] = f[k - 1])
        BY <3>3
      <4>2. f[k] = IF k = 0 THEN <<>> ELSE f[k - 1] \o DeclaredIn(ms[k])
        BY <2>2, <4>1
      <4> QED
        BY <4>1, <4>2
    <3> QED
      BY <3>2, <3>3
  <2>4. ListsDeclared(h, ms, m + 1)
    BY <2>3 DEF ListsDeclared
  <2> HIDE DEF h
  <2> QED
    BY <2>4
<1>3. \A m \in Nat : m \in Good => m + 1 \in Good
  BY <1>2
<1> HIDE DEF Good
<1>4. Nat \subseteq Good
  BY <1>1, <1>3, NoLeastBad
<1> QED
  BY <1>4 DEF Good

-----------------------------------------------------------------------------
(***************************************************************************)
(* The declarations, service by service, are where the mounting puts them. *)
(***************************************************************************)

(* What the services of a list declare, service by service. *)
DeclaredOf(ms) == CHOOSE f : ListsDeclared(f, ms, Len(ms))

(* It is what the properties call the declarations. *)
LEMMA DeclaredByIs ==
  ASSUME NEW n
  PROVE  DeclaredBy(n) = DeclaredOf(Mounts)[n]
BY DEF DeclaredBy, DeclaredOf, ListsDeclared

(* What one service declares. *)
LEMMA DeclaredInIs ==
  ASSUME NEW s, IsList(s.routes)
  PROVE  /\ IsList(DeclaredIn(s)) /\ Len(DeclaredIn(s)) = Len(s.routes)
         /\ \A i \in 1 .. Len(s.routes) :
              DeclaredIn(s)[i] = [service |-> s, route |-> s.routes[i]]
<1> DEFINE n == Len(s.routes)
           f == DeclaredIn(s)
<1>1. n \in Nat /\ DOMAIN s.routes = 1 .. n
  BY SeqFacts
<1>2. f = [i \in 1 .. n |-> [service |-> s, route |-> s.routes[i]]]
  BY <1>1 DEF DeclaredIn
<1> HIDE DEF f, n
<1>3. f = [i \in 1 .. n |-> f[i]] /\ \A i \in 1 .. n : f[i] = [service |-> s, route |-> s.routes[i]]
  BY <1>2
<1>4. IsList(f) /\ Len(f) = n
  BY <1>1, <1>3, FunctionIsList
<1> QED
  BY <1>3, <1>4 DEF f, n

(* A service declares its routes after those of the services before it. *)
LEMMA DeclaredGrow ==
  ASSUME NEW ms, MountsFine(ms)
  PROVE  /\ DeclaredOf(ms)[0] = <<>>
         /\ \A m \in Nat : m + 1 <= Len(ms) =>
              DeclaredOf(ms)[m + 1] = DeclaredOf(ms)[m] \o DeclaredIn(ms[m + 1])
<1> DEFINE f == DeclaredOf(ms)
           n == Len(ms)
<1>1. n \in Nat
  BY SeqFacts DEF MountsFine
<1>2. ListsDeclared(f, ms, n)
  BY <1>1, DeclaredIsDefined DEF DeclaredOf
<1> HIDE DEF f, n
<1>3. \A k \in 0 .. n : f[k] = IF k = 0 THEN <<>> ELSE f[k - 1] \o DeclaredIn(ms[k])
  BY <1>2 DEF ListsDeclared
<1>4. f[0] = <<>>
  BY <1>1, <1>3
<1>5. ASSUME NEW m \in Nat, m + 1 <= n PROVE f[m + 1] = f[m] \o DeclaredIn(ms[m + 1])
  <2>1. m + 1 \in 0 .. n /\ m + 1 # 0 /\ (m + 1) - 1 = m
    BY <1>1, <1>5
  <2>2. f[m + 1] = f[(m + 1) - 1] \o DeclaredIn(ms[m + 1])
    BY <1>3, <2>1
  <2> QED
    BY <2>1, <2>2
<1> QED
  BY <1>4, <1>5 DEF f, n

(* The first list is where the second starts. *)
Begins(a, b) == Len(a) <= Len(b) /\ \A i \in 1 .. Len(a) : b[i] = a[i]

(* A list that begins one that begins a third begins the third. *)
LEMMA BeginsAgain ==
  ASSUME NEW a, NEW b, NEW c, Len(a) \in Nat, Len(b) \in Nat, Len(c) \in Nat,
         Begins(a, b), Begins(b, c)
  PROVE  Begins(a, c)
<1>1. ASSUME NEW i \in 1 .. Len(a) PROVE c[i] = a[i]
  <2>1. i \in 1 .. Len(b)
    BY DEF Begins
  <2> QED
    BY <2>1 DEF Begins
<1>2. Len(a) <= Len(c)
  BY DEF Begins
<1> QED
  BY <1>1, <1>2 DEF Begins

(* The declarations of the first services begin those of all. *)
LEMMA DeclaredBegins ==
  ASSUME NEW ms, MountsFine(ms), NEW n \in Nat, n <= Len(ms)
  PROVE  /\ IsList(DeclaredOf(ms)[n])
         /\ \A k \in 0 .. n : /\ IsList(DeclaredOf(ms)[k])
                             /\ Begins(DeclaredOf(ms)[k], DeclaredOf(ms)[n])
<1> DEFINE f == DeclaredOf(ms)
           Fine(m) == \A k \in 0 .. m : IsList(f[k]) /\ Begins(f[k], f[m])
           Good == {m \in Nat : m <= Len(ms) => Fine(m)}
<1>1. Len(ms) \in Nat /\ \A k \in 1 .. Len(ms) : IsList(ms[k].routes)
  BY SeqFacts DEF MountsFine, ServiceOK
<1>2. f[0] = <<>>
  BY DeclaredGrow
<1>3. \A m \in Nat : m + 1 <= Len(ms) => f[m + 1] = f[m] \o DeclaredIn(ms[m + 1])
  BY DeclaredGrow, Zenon
<1> HIDE DEF f
<1>4. 0 \in Good
  <2>1. IsList(<<>>) /\ Len(<<>>) = 0
    BY EmptySeq DEF IsList
  <2>2. \A k \in 0 .. 0 : k = 0
    OBVIOUS
  <2> QED
    BY <1>2, <2>1, <2>2 DEF Begins
<1>5. ASSUME NEW m \in Nat, m \in Good PROVE m + 1 \in Good
  <2>1. SUFFICES ASSUME m + 1 <= Len(ms) PROVE Fine(m + 1)
    OBVIOUS
  <2>2. Fine(m)
    BY <1>1, <1>5, <2>1
  <2> DEFINE s == f[m]
             d == DeclaredIn(ms[m + 1])
             t == s \o d
  <2>3. f[m + 1] = t
    BY <1>3, <2>1
  <2>4. IsList(s) /\ IsList(d)
    BY <1>1, <2>1, <2>2, DeclaredInIs
  <2> HIDE DEF s, d
  <2>5. IsList(t) /\ Joins(t, s, d)
    BY <2>4, ConcatJoins, Zenon
  <2>6. Len(s) \in Nat /\ Len(d) \in Nat
    BY <2>4, SeqFacts
  <2> HIDE DEF t
  <2>7. Begins(s, t)
    BY <2>5, <2>6 DEF Joins, Begins
  <2>8. ASSUME NEW k \in 0 .. m + 1 PROVE IsList(f[k]) /\ Begins(f[k], t)
    <3>1. CASE k = m + 1
      <4>1. f[k] = t /\ Len(t) \in Nat
        BY <2>3, <2>5, <3>1, SeqFacts
      <4> QED
        BY <2>5, <4>1 DEF Begins
    <3>2. CASE k # m + 1
      <4>1. k \in 0 .. m
        BY <3>2
      <4>2. Begins(f[k], s)
        BY <2>2, <4>1 DEF s
      <4>3. IsList(f[k])
        BY <2>2, <4>1
      <4>4. Len(f[k]) \in Nat /\ Len(t) \in Nat
        BY <2>5, <4>3, SeqFacts
      <4> QED
        BY <2>6, <2>7, <4>2, <4>3, <4>4, BeginsAgain
    <3> QED
      BY <3>1, <3>2
  <2> QED
    BY <2>3, <2>5, <2>8
<1>6. \A m \in Nat : m \in Good => m + 1 \in Good
  BY <1>5
<1> HIDE DEF Good
<1>7. Nat \subseteq Good
  BY <1>4, <1>6, NoLeastBad
<1> QED
  BY <1>7 DEF Good, f

(* Every service's routes stand where the services before it end.          *)
LEMMA DeclaredPlaced ==
  ASSUME NEW ms, MountsFine(ms)
  PROVE  /\ IsList(DeclaredOf(ms)[Len(ms)])
         /\ Placed(DeclaredOf(ms)[Len(ms)], ms, [k \in 0 .. Len(ms) |-> Len(DeclaredOf(ms)[k])])
<1> DEFINE f == DeclaredOf(ms)
           n == Len(ms)
           ds == f[n]
           at == [k \in 0 .. n |-> Len(f[k])]
<1>1. n \in Nat /\ \A k \in 1 .. n : IsList(ms[k].routes)
  BY SeqFacts DEF MountsFine, ServiceOK
<1>2. f[0] = <<>>
  BY DeclaredGrow
<1>3. \A m \in Nat : m + 1 <= n => f[m + 1] = f[m] \o DeclaredIn(ms[m + 1])
  BY DeclaredGrow, Zenon
<1>4. \A k \in 0 .. n : IsList(f[k]) /\ Begins(f[k], ds)
  BY <1>1, DeclaredBegins
<1>5. IsList(ds)
  BY <1>1, <1>4
<1> HIDE DEF f
<1>6. ASSUME NEW k \in 1 .. n
      PROVE  /\ at[k - 1] \in Nat /\ at[k] = at[k - 1] + Len(ms[k].routes)
             /\ PlacedFrom(ds, ms[k], at[k - 1])
  <2>1. k - 1 \in Nat /\ (k - 1) + 1 = k /\ k - 1 \in 0 .. n /\ k \in 0 .. n /\ k <= n
    BY <1>1
  <2> DEFINE s == f[k - 1]
             d == DeclaredIn(ms[k])
             t == s \o d
             r == Len(ms[k].routes)
  <2>2. f[k] = t
    <3>1. f[(k - 1) + 1] = f[k - 1] \o DeclaredIn(ms[(k - 1) + 1])
      BY <1>3, <2>1
    <3> QED
      BY <2>1, <3>1
  <2>3. at[k - 1] = Len(s) /\ at[k] = Len(t)
    BY <2>1, <2>2
  <2>4. /\ IsList(s) /\ IsList(d) /\ Len(d) = r
        /\ \A i \in 1 .. r : d[i] = [service |-> ms[k], route |-> ms[k].routes[i]]
    BY <1>1, <1>4, <2>1, DeclaredInIs
  <2>5. IsList(ms[k].routes) /\ r \in Nat
    BY <1>1, SeqFacts
  <2>6. IsList(t) /\ Begins(t, ds)
    BY <1>4, <2>1, <2>2
  <2> HIDE DEF s, d, at, ds
  <2>7. Joins(t, s, d)
    BY <2>4, ConcatJoins, Zenon
  <2>8. Len(s) \in Nat /\ Len(ds) \in Nat
    BY <1>5, <2>4, SeqFacts
  <2> HIDE DEF t, r
  <2>9. Len(t) = Len(s) + r /\ \A i \in 1 .. r : t[Len(s) + i] = d[i]
    BY <2>4, <2>7 DEF Joins
  <2>10. Len(s) + r <= Len(ds)
    BY <2>6, <2>9 DEF Begins
  <2>11. ASSUME NEW i \in 1 .. r
         PROVE  ds[Len(s) + i] = [service |-> ms[k], route |-> ms[k].routes[i]]
    <3>1. Len(s) + i \in 1 .. Len(t)
      BY <2>5, <2>8, <2>9
    <3>2. ds[Len(s) + i] = t[Len(s) + i]
      BY <2>6, <3>1 DEF Begins
    <3> QED
      BY <2>4, <2>9, <3>2
  <2>12. PlacedFrom(ds, ms[k], Len(s))
    BY <2>5, <2>10, <2>11 DEF PlacedFrom, r
  <2> QED
    BY <2>3, <2>8, <2>9, <2>12 DEF r
<1>7. at[0] = 0 /\ at[n] = Len(ds)
  <2>1. Len(<<>>) = 0
    BY EmptySeq
  <2> QED
    BY <1>1, <1>2, <2>1
<1>8. IsList(ds) /\ Placed(ds, ms, at)
  <2> HIDE DEF ds, at
  <2> QED
    BY <1>5, <1>6, <1>7 DEF Placed, n
<1> QED
  BY <1>8 DEF f, n

(* A declaration rewrites as its texts say. *)
DeclaredOK(d) ==
  IsText(d.service.prefix) /\ RewriteOK(d.route.path, d.route.to, d.route.rewrite)

(* That is so of every one. *)
LEMMA DeclarationsAreOK ==
  ASSUME NEW ms, MountsFine(ms), NEW n \in Nat, n <= Len(ms)
  PROVE  \A i \in 1 .. Len(DeclaredOf(ms)[n]) : DeclaredOK(DeclaredOf(ms)[n][i])
<1> DEFINE f == DeclaredOf(ms)
           Fine(ds) == IsList(ds) /\ \A i \in 1 .. Len(ds) : DeclaredOK(ds[i])
           Good == {m \in Nat : m <= Len(ms) => Fine(f[m])}
<1>1. Len(ms) \in Nat /\ \A k \in 1 .. Len(ms) : ServiceOK(ms[k])
  BY SeqFacts DEF MountsFine
<1>2. f[0] = <<>>
  BY DeclaredGrow
<1>3. \A m \in Nat : m + 1 <= Len(ms) => f[m + 1] = f[m] \o DeclaredIn(ms[m + 1])
  BY DeclaredGrow, Zenon
<1> HIDE DEF f
<1>4. 0 \in Good
  <2>1. IsList(<<>>) /\ Len(<<>>) = 0
    BY EmptySeq DEF IsList
  <2> QED
    BY <1>2, <2>1
<1>5. ASSUME NEW m \in Nat, m \in Good PROVE m + 1 \in Good
  <2>1. SUFFICES ASSUME m + 1 <= Len(ms) PROVE Fine(f[m + 1])
    OBVIOUS
  <2> DEFINE v == ms[m + 1]
             s == f[m]
             d == DeclaredIn(v)
             t == s \o d
  <2>2. f[m + 1] = t
    BY <1>3, <2>1
  <2>3. ServiceOK(v)
    BY <1>1, <2>1
  <2>4. m <= Len(ms)
    BY <1>1, <2>1
  <2>5. Fine(s)
    BY <1>5, <2>4
  <2> HIDE DEF v, s
  <2>6. IsList(v.routes) /\ Len(v.routes) \in Nat
    BY <2>3, SeqFacts DEF ServiceOK
  <2>7. /\ IsList(d) /\ Len(d) = Len(v.routes)
        /\ \A i \in 1 .. Len(v.routes) : d[i] = [service |-> v, route |-> v.routes[i]]
    BY <2>6, DeclaredInIs
  <2> HIDE DEF d
  <2>8. ASSUME NEW i \in 1 .. Len(d) PROVE DeclaredOK(d[i])
    <3>1. i \in 1 .. Len(v.routes)
      BY <2>7
    <3>2. d[i] = [service |-> v, route |-> v.routes[i]]
      BY <2>7, <3>1
    <3>3. d[i].service = v /\ d[i].route = v.routes[i]
      BY <3>2
    <3> QED
      BY <2>3, <3>1, <3>3 DEF ServiceOK, DeclaredOK
  <2>9. IsList(s) /\ IsList(d) /\ Len(s) \in Nat /\ Len(d) \in Nat
    BY <2>5, <2>7, SeqFacts
  <2>10. /\ IsList(t) /\ Len(t) = Len(s) + Len(d)
         /\ \A k \in 1 .. Len(s) : t[k] = s[k]
         /\ \A k \in 1 .. Len(d) : t[Len(s) + k] = d[k]
    BY <2>9, ConcatSeq
  <2> HIDE DEF t
  <2>11. ASSUME NEW i \in 1 .. Len(t) PROVE DeclaredOK(t[i])
    <3>1. CASE i <= Len(s)
      <4>1. i \in 1 .. Len(s)
        BY <2>9, <2>10, <3>1
      <4> QED
        BY <2>5, <2>10, <4>1
    <3>2. CASE ~(i <= Len(s))
      <4> DEFINE k == i - Len(s)
      <4>1. k \in 1 .. Len(d) /\ i = Len(s) + k
        BY <2>9, <2>10, <3>2
      <4> HIDE DEF k
      <4>2. t[i] = d[k]
        BY <2>10, <4>1
      <4> QED
        BY <2>8, <4>1, <4>2
    <3> QED
      BY <3>1, <3>2
  <2> QED
    BY <2>2, <2>10, <2>11
<1>6. \A m \in Nat : m \in Good => m + 1 \in Good
  BY <1>5
<1> HIDE DEF Good
<1>7. Nat \subseteq Good
  BY <1>4, <1>6, NoLeastBad
<1> QED
  BY <1>7 DEF Good, f

-----------------------------------------------------------------------------
(***************************************************************************)
(* The configurers of the upstream.                                        *)
(***************************************************************************)

(* What the recursive function inside RunConfigurers is. *)
ListsSettings(f, settings, configurers, n) ==
  f = [k \in 0 .. n |->
         IF k = 0 THEN settings
         ELSE [f[k - 1] EXCEPT ![configurers[k].field] = configurers[k].value]]

(* The recursion of RunConfigurers defines a function. *)
LEMMA SettingsAreDefined ==
  ASSUME NEW settings, NEW configurers, NEW n \in Nat
  PROVE  \E f : ListsSettings(f, settings, configurers, n)
<1> DEFINE Good == {m \in Nat : \E f : ListsSettings(f, settings, configurers, m)}
<1>1. 0 \in Good
  <2>1. ListsSettings([k \in 0 .. 0 |-> settings], settings, configurers, 0)
    BY DEF ListsSettings
  <2> QED
    BY <2>1
<1>2. ASSUME NEW m \in Nat, m \in Good PROVE m + 1 \in Good
  <2>1. PICK f : ListsSettings(f, settings, configurers, m)
    BY <1>2
  <2>2. f = [k \in 0 .. m |->
               IF k = 0 THEN settings
               ELSE [f[k - 1] EXCEPT ![configurers[k].field] = configurers[k].value]]
    BY <2>1 DEF ListsSettings
  <2> DEFINE h == [k \in 0 .. m + 1 |->
                     IF k = m + 1
                     THEN [f[m] EXCEPT ![configurers[m + 1].field] = configurers[m + 1].value]
                     ELSE f[k]]
  <2>3. \A k \in 0 .. m + 1 : h[k] =
          IF k = 0 THEN settings
          ELSE [h[k - 1] EXCEPT ![configurers[k].field] = configurers[k].value]
    <3>1. SUFFICES ASSUME NEW k \in 0 .. m + 1
                   PROVE  h[k] =
                            IF k = 0 THEN settings
                            ELSE [h[k - 1] EXCEPT ![configurers[k].field] = configurers[k].value]
      OBVIOUS
    <3>2. CASE k = m + 1
      BY <3>2
    <3>3. CASE k # m + 1
      <4>1. k \in 0 .. m /\ h[k] = f[k] /\ (k # 0 => h[k - 1] = f[k - 1])
        BY <3>3
      <4>2. f[k] = IF k = 0 THEN settings
                   ELSE [f[k - 1] EXCEPT ![configurers[k].field] = configurers[k].value]
        BY <2>2, <4>1
      <4> QED
        BY <4>1, <4>2
    <3> QED
      BY <3>2, <3>3
  <2>4. ListsSettings(h, settings, configurers, m + 1)
    BY <2>3 DEF ListsSettings
  <2> HIDE DEF h
  <2> QED
    BY <2>4
<1>3. \A m \in Nat : m \in Good => m + 1 \in Good
  BY <1>2
<1> HIDE DEF Good
<1>4. Nat \subseteq Good
  BY <1>1, <1>3, NoLeastBad
<1> QED
  BY <1>4 DEF Good

(* What f does along that recursion. *)
RunOfConfigurers(f, settings, configurers) ==
  /\ f[0] = settings
  /\ \A m \in Nat : m + 1 <= Len(configurers) =>
       f[m + 1] = [f[m] EXCEPT ![configurers[m + 1].field] = configurers[m + 1].value]
  /\ RunConfigurers(settings, configurers) = f[Len(configurers)]

(* RunConfigurers runs its recursion to the end. *)
LEMMA ConfigurersRun ==
  ASSUME NEW settings, NEW configurers, Len(configurers) \in Nat
  PROVE  \E f : RunOfConfigurers(f, settings, configurers)
<1> DEFINE n == Len(configurers)
           f == CHOOSE g : ListsSettings(g, settings, configurers, n)
<1>1. RunConfigurers(settings, configurers) = f[n]
  BY DEF RunConfigurers, ListsSettings
<1>2. n \in Nat
  OBVIOUS
<1>3. n = Len(configurers)
  OBVIOUS
<1> HIDE DEF n
<1>4. ListsSettings(f, settings, configurers, n)
  BY <1>2, SettingsAreDefined
<1> HIDE DEF f
<1>5. \A k \in 0 .. n : f[k] =
        IF k = 0 THEN settings ELSE [f[k - 1] EXCEPT ![configurers[k].field] = configurers[k].value]
  BY <1>4 DEF ListsSettings
<1>6. f[0] = settings
  <2>1. 0 \in 0 .. n
    BY <1>2
  <2> QED
    BY <1>5, <2>1, Zenon
<1>7. ASSUME NEW m \in Nat, m + 1 <= n
      PROVE  f[m + 1] = [f[m] EXCEPT ![configurers[m + 1].field] = configurers[m + 1].value]
  <2>1. m + 1 \in 0 .. n /\ m + 1 # 0 /\ (m + 1) - 1 = m
    BY <1>2, <1>7
  <2> QED
    BY <1>5, <2>1
<1>8. RunOfConfigurers(f, settings, configurers)
  BY <1>1, <1>3, <1>6, <1>7 DEF RunOfConfigurers
<1> QED
  BY <1>8

(* What the first n configurers leave a setting at. *)
ConfiguredBy(configurers, n, field, value) ==
  IF {i \in 1 .. n : configurers[i].field = field} = {} THEN value
  ELSE configurers[Max({i \in 1 .. n : configurers[i].field = field})].value

(* No configurer leaves a setting alone. *)
LEMMA NoConfigurer ==
  ASSUME NEW configurers, NEW field, NEW value
  PROVE  ConfiguredBy(configurers, 0, field, value) = value
<1>1. {i \in 1 .. 0 : configurers[i].field = field} = {}
  OBVIOUS
<1> QED
  BY <1>1 DEF ConfiguredBy

(* A configurer of the setting decides it. *)
LEMMA OneConfigurer ==
  ASSUME NEW configurers, NEW n \in Nat, NEW field, NEW value
  PROVE  ConfiguredBy(configurers, n + 1, field, value) =
           IF configurers[n + 1].field = field THEN configurers[n + 1].value
           ELSE ConfiguredBy(configurers, n, field, value)
<1> DEFINE at(m) == {i \in 1 .. m : configurers[i].field = field}
<1>2. \A i : i \in 1 .. n + 1 <=> i \in 1 .. n \/ i = n + 1
  OBVIOUS
<1>3. CASE configurers[n + 1].field # field
  <2>1. at(n + 1) = at(n)
    BY <1>2, <1>3
  <2> QED
    BY <1>3, <2>1 DEF ConfiguredBy
<1>4. CASE configurers[n + 1].field = field
  <2>1. n + 1 \in at(n + 1) /\ at(n + 1) \subseteq 1 .. n + 1
    BY <1>4
  <2>2. Max(at(n + 1)) = n + 1
    <3> HIDE DEF at
    <3> QED
      BY <2>1, GreatestIsTop
  <2> QED
    BY <1>4, <2>1, <2>2 DEF ConfiguredBy
<1> QED
  BY <1>3, <1>4

(* The last configurer of a setting decides.                               *)
LEMMA LastConfigurerDecides ==
  ASSUME NEW settings, settings = [x \in DOMAIN settings |-> settings[x]],
         NEW configurers, IsSequence(configurers)
  PROVE  RunConfigurers(settings, configurers) =
           [x \in DOMAIN settings |-> LastConfigured(configurers, x, settings[x])]
<1> DEFINE n == Len(configurers)
           D == DOMAIN settings
           Fine(s, m) == s = [x \in D |-> ConfiguredBy(configurers, m, x, settings[x])]
<1>1. n \in Nat /\ DOMAIN configurers = 1 .. n
  BY DEF IsSequence
<1>2. PICK f : RunOfConfigurers(f, settings, configurers)
  BY <1>1, ConfigurersRun
<1>3. f[0] = settings /\ RunConfigurers(settings, configurers) = f[n]
  BY <1>2 DEF RunOfConfigurers
<1>4. \A m \in Nat : m + 1 <= n =>
        f[m + 1] = [f[m] EXCEPT ![configurers[m + 1].field] = configurers[m + 1].value]
  BY <1>2 DEF RunOfConfigurers
<1> DEFINE Good == {m \in Nat : m <= n => Fine(f[m], m)}
<1>5. 0 \in Good
  <2>1. \A x \in D : ConfiguredBy(configurers, 0, x, settings[x]) = settings[x]
    BY NoConfigurer, Zenon
  <2> QED
    BY <1>3, <2>1
<1>6. ASSUME NEW m \in Nat, m \in Good PROVE m + 1 \in Good
  <2>1. SUFFICES ASSUME m + 1 <= n PROVE Fine(f[m + 1], m + 1)
    OBVIOUS
  <2>2. Fine(f[m], m)
    BY <1>1, <1>6, <2>1
  <2> DEFINE c == configurers[m + 1]
  <2>3. f[m + 1] = [f[m] EXCEPT ![c.field] = c.value]
    BY <1>4, <2>1
  <2>4. \A x \in D : ConfiguredBy(configurers, m + 1, x, settings[x]) =
                      IF c.field = x THEN c.value
                      ELSE ConfiguredBy(configurers, m, x, settings[x])
    BY OneConfigurer
  <2> HIDE DEF c, D
  <2> QED
    BY <2>2, <2>3, <2>4
<1>7. \A m \in Nat : m \in Good => m + 1 \in Good
  BY <1>6
<1>8. Nat \subseteq Good
  <2> HIDE DEF Good
  <2> QED
    BY <1>5, <1>7, NoLeastBad
<1>9. Fine(f[n], n)
  BY <1>1, <1>8
<1>10. \A x \in D : ConfiguredBy(configurers, n, x, settings[x]) =
                     LastConfigured(configurers, x, settings[x])
  BY <1>1 DEF ConfiguredBy, LastConfigured
<1> QED
  BY <1>3, <1>9, <1>10

-----------------------------------------------------------------------------
(***************************************************************************)
(* What build makes of a configured builder.                               *)
(***************************************************************************)

(* The builder has mounted what the calls mount. *)
LEMMA MountedIs ==
  ASSUME BuilderOK(builder, calls, Len(calls))
  PROVE  Mounts = builder.mounted
<1>1. Mounts = MountsOf(calls)[Len(calls)]
  BY MountedByIs DEF Mounts
<1> QED
  BY <1>1 DEF BuilderOK

(* What an app is, that a configured builder may become. *)
LEMMA AppIsMounted ==
  ASSUME CallsOK(calls), BuilderOK(builder, calls, Len(calls))
  PROVE  /\ IsList(Declared) /\ IsList(builder.mounted)
         /\ AccOK(MountAll(builder, Outcome("built", "none", "none")), builder, Declared,
                  Len(Declared))
<1> DEFINE ms == builder.mounted
           ds == DeclaredOf(ms)[Len(ms)]
           at == [k \in 0 .. Len(ms) |-> Len(DeclaredOf(ms)[k])]
<1>1. Mounts = ms
  BY MountedIs
<1>2. Declared = ds
  BY <1>1, DeclaredByIs DEF Declared
<1>3. MountsFine(ms)
  <2>1. ms = MountsOf(calls)[Len(calls)] /\ Len(calls) \in Nat
    BY DEF BuilderOK, CallsOK
  <2> QED
    BY <2>1, MountsAreFine
<1> HIDE DEF ms
<1>4. IsList(ds) /\ Placed(ds, ms, at)
  BY <1>3, DeclaredPlaced
<1>5. IsList(ms)
  BY <1>3 DEF MountsFine
<1> HIDE DEF ds, at
<1>6. Len(ds) \in Nat
  BY <1>4, SeqFacts
<1>7. AccOK(MountAll(builder, Outcome("built", "none", "none")), builder, ds, Len(ds))
  BY <1>4, <1>5, <1>6, MountAllKeeps DEF ms
<1> QED
  BY <1>2, <1>4, <1>5, <1>7 DEF ms

(* The parts of an app. *)
AppParts(a, b) ==
  /\ a.client = BuildClient(b.upstream) /\ a.state = b.state
  /\ a.request_timeout = b.request_timeout /\ a.map_body_limit = b.map_body_limit
  /\ a.runtime_observer = b.runtime_observer

(* What the app takes over from the builder. *)
LEMMA BuildFromIs ==
  ASSUME NEW b, NEW outcome
  PROVE  /\ BuildFrom(b, outcome).outcome = MountAll(b, outcome).outcome
         /\ BuildFrom(b, outcome).table = MountAll(b, outcome).table
         /\ AppParts(BuildFrom(b, outcome), b)
BY DEF BuildFrom, AppParts

(* Either every service's URLs are good, and the table is mounted up to    *)
(* where that ends, or one of them is bad, and nothing is mounted.         *)
MountedApp(a, b, ds) ==
  /\ UriFailures(b.backends) = {}
  /\ TableOK(a.table, b, ds)
  /\ a.outcome.result \in {"built", "error", "panicked"}
  /\ a.outcome.result = "error" => BackendMissing(a.outcome, b) \/ PolicyMissing(a.outcome, b, ds)
  /\ a.outcome.result = "panicked" => PanicsAt(Len(a.table) + 1, b, ds)
  /\ a.outcome.result = "built" => Len(a.table) = Len(ds)

(* The other case. *)
UnmountedApp(a, b) == a.outcome \in UriFailures(b.backends) /\ a.table = <<>>

(* Those are the apps that build can return. *)
LEMMA BuiltIs ==
  ASSUME CallsOK(calls), BuilderOK(builder, calls, Len(calls)), NEW a \in Builds(builder)
  PROVE  AppParts(a, builder) /\ (MountedApp(a, builder, Declared) \/ UnmountedApp(a, builder))
<1>1. IsList(builder.mounted)
  BY AppIsMounted
<1>2. AccOK(MountAll(builder, Outcome("built", "none", "none")), builder, Declared, Len(Declared))
  BY AppIsMounted
<1>3. CASE UriFailures(builder.backends) = {}
  <2> DEFINE m == MountAll(builder, Outcome("built", "none", "none"))
  <2>1. a = BuildFrom(builder, Outcome("built", "none", "none"))
    BY <1>3 DEF Builds
  <2>2. a.outcome = m.outcome /\ a.table = m.table /\ AppParts(a, builder)
    BY <2>1, BuildFromIs
  <2> HIDE DEF m
  <2>3. AccOK(m, builder, Declared, Len(Declared))
    BY <1>2 DEF m
  <2>4. MountedApp(a, builder, Declared)
    BY <1>3, <2>2, <2>3 DEF AccOK, StopOK, MountedApp
  <2> QED
    BY <2>2, <2>4
<1>4. CASE UriFailures(builder.backends) # {}
  <2>1. PICK f \in UriFailures(builder.backends) : a = BuildFrom(builder, f)
    BY <1>4 DEF Builds
  <2>2. f.result # "built"
    BY <2>1 DEF UriFailures, Outcome
  <2>3. MountAll(builder, f) = [table |-> <<>>, outcome |-> f]
    BY <1>1, <2>2, MountAllStopped
  <2>4. a.outcome = f /\ a.table = <<>> /\ AppParts(a, builder)
    BY <2>1, <2>3, BuildFromIs
  <2> QED
    BY <2>1, <2>4 DEF UnmountedApp
<1> QED
  BY <1>3, <1>4

(* Pools are lists. *)
LEMMA PoolIsList ==
  ASSUME NEW urls, IsSequence(urls)
  PROVE  IsList(Pool(urls)) /\ Len(Pool(urls)) = Len(urls)
<1> DEFINE n == Len(urls)
           f == Pool(urls)
<1>1. n \in Nat /\ DOMAIN urls = 1 .. n
  BY DEF IsSequence
<1>2. f = [i \in 1 .. n |-> BaseUri(urls[i])]
  BY <1>1 DEF Pool
<1> HIDE DEF f, n
<1>3. f = [i \in 1 .. n |-> f[i]]
  BY <1>2
<1>4. IsList(f) /\ Len(f) = n
  BY <1>1, <1>3, FunctionIsList
<1> QED
  BY <1>4 DEF f, n

(* The last call that writes a key writes it. *)
LEMMA WritesGreatest ==
  ASSUME NEW keyOf, NEW n \in Nat, NEW k, Writes(keyOf, n, k) # {}
  PROVE  Max(Writes(keyOf, n, k)) \in Writes(keyOf, n, k)
<1>1. Writes(keyOf, n, k) \subseteq 0 .. n
  BY DEF Writes
<1> QED
  BY <1>1, GreatestMember

(* The backends of a service are a list of URLs. *)
LEMMA BackendsAreUrls ==
  ASSUME NEW cs, CallsOK(cs), NEW n \in Nat, n <= Len(cs), NEW b, BuilderOK(b, cs, n),
         NEW s \in DOMAIN b.backends
  PROVE  IsSequence(b.backends[s])
<1> DEFINE w == Writes(ServicesOf(cs), n, s)
           k == Max(w)
<1>1. w # {} /\ b.backends[s] = UrlsBy(cs)[k]
  BY DEF BuilderOK, Follows
<1>2. k \in w
  BY <1>1, WritesGreatest
<1> HIDE DEF k
<1>3. k \in 1 .. n /\ ServicesOf(cs)[k] = <<s>>
  BY <1>2 DEF Writes
<1>4. k \in DOMAIN cs /\ SetterTakes(cs[k])
  BY <1>3 DEF CallsOK, CallOK
<1>5. cs[k].field \in {"backend", "mount_service"}
  BY <1>3, <1>4 DEF ServicesOf
<1>6. UrlsBy(cs)[k] = UrlsOf(cs[k])
  BY <1>4 DEF UrlsBy
<1>7. IsSequence(UrlsOf(cs[k]))
  BY <1>4, <1>5 DEF UrlsOf, SetterTakes
<1> QED
  BY <1>1, <1>6, <1>7

(* So are the pools of a table. *)
LEMMA PoolsAreLists ==
  ASSUME NEW cs, CallsOK(cs), NEW n \in Nat, n <= Len(cs), NEW b, BuilderOK(b, cs, n), NEW ds,
         NEW table, TableOK(table, b, ds)
  PROVE  \A i \in DOMAIN table : IsList(table[i].pool)
<1>1. SUFFICES ASSUME NEW i \in DOMAIN table PROVE IsList(table[i].pool)
  OBVIOUS
<1>2. i \in 1 .. Len(table)
  BY SeqFacts DEF TableOK
<1>3. table[i] = TableEntry(b, ds[i]) /\ Backed(b, ds[i])
  BY <1>2 DEF TableOK
<1>4. table[i].pool = Pool(b.backends[ds[i].service.service])
  BY <1>3 DEF TableEntry
<1>5. IsSequence(b.backends[ds[i].service.service])
  BY <1>3, BackendsAreUrls DEF Backed
<1> QED
  BY <1>4, <1>5, PoolIsList

-----------------------------------------------------------------------------
(***************************************************************************)
(* The invariant of the program, and the steps that set it up.             *)
(***************************************************************************)

(* The phases of a program, before build, after it failed, and after. *)
Setups == {"source", "refused", "configuring"}
Failed == {"error", "panicked"}
Bound  == {"binding", "io_error", "listening"}

(* How far the program has come, and what it has made on the way. *)
SetupOK ==
  /\ program \in Programs
  /\ phase \in Setups \union Failed \union {"built"} \union Bound
  /\ phase \in {"source", "refused"} => calls = <<>> /\ done = 0 /\ builder = NewBuilder
  /\ CallsOK(calls) /\ done \in 0 .. Len(calls)
  /\ BuilderOK(builder, calls, done)
  /\ phase \notin Setups => done = Len(calls) /\ app \in Builds(builder)
  /\ phase \in Failed => app.outcome.result = phase
  /\ phase \in {"built"} \union Bound => app.outcome.result = "built"

(* The system calls made and still to make are those of bind_listener.     *)
SocketOK ==
  /\ phase \notin Bound => pending = <<>> /\ socket = <<>>
  /\ phase \in Bound =>
       /\ IsList(socket) /\ IsList(pending)
       /\ Joins(BindListener(program.family, program.config), socket, pending)
  /\ phase = "binding" => pending # <<>>
  /\ phase = "listening" => pending = <<>>

(* The hash of a key, in a program. *)
HashOf(p, text) == IF text \in DOMAIN p.hash THEN p.hash[text] ELSE 0

(* The jump hash picks the backend of this key. *)
Hashed(meta, key) == meta.policy.balancer = "ConsistentHash" /\ key # <<>>

(* A backend of the pool, and the jump hash's if it is for it to say.      *)
PickOK(meta, key, backend, p) ==
  /\ backend \in 0 .. Len(meta.pool) - 1
  /\ Hashed(meta, key) =>
       backend \in {Len(meta.pool) - 1, JumpOf(HashOf(p, key), Len(meta.pool) - 1)}

(* The route takes the request, and gave it this key. *)
TakenBy(meta, request, key) ==
  /\ request \in Requests /\ PathMatches(meta.full, request.path)
  /\ key = Affinity(meta, request)

(* The request in flight, if there is one, is on its way to such a         *)
(* backend, by a route that takes it.                                      *)
FlightOK(f, table, p, s) ==
  \/ f = NoRequest
  \/ /\ f = [stage |-> f.stage, request |-> f.request, route |-> f.route, key |-> f.key,
             backend |-> f.backend]
     /\ f.route \in DOMAIN table
     /\ TakenBy(table[f.route], f.request, f.key)
     /\ \/ /\ f.stage = "hashing" /\ Hashed(table[f.route], f.key)
           /\ Len(table[f.route].pool) \in Nat \ {0}
           /\ LoopOK(s, HashOf(p, f.key), Len(table[f.route].pool))
        \/ f.stage = "picked" /\ PickOK(table[f.route], f.key, f.backend, p)

(* It is forwarded to the path the rewrite makes of its own, with and for  *)
(* the headers that are end to end, unless that path is none.              *)
WayOK(e, meta) ==
  \/ /\ e.outcome = "forwarded" /\ Rewritable(meta, e.request.path)
     /\ e.path = RewritePath(meta, e.request.path)
     /\ e.headers = UpstreamHeaders(e.request.headers, meta.pool[e.backend + 1])
     /\ e.answer = StripHopHeaders(e.upstream)
  \/ e.outcome = "invalid_upstream_uri" /\ ~Rewritable(meta, e.request.path)

(* A request that was sent on went that way, to such a backend.            *)
EntryOK(e, table, p) ==
  e.route # 0 /\ e.outcome # "no_backends_selected" =>
    /\ e.route \in DOMAIN table
    /\ TakenBy(table[e.route], e.request, e.key)
    /\ PickOK(table[e.route], e.key, e.backend, p)
    /\ WayOK(e, table[e.route])

(* What is known of the requests. *)
TrafficOK ==
  /\ phase # "listening" => log = <<>> /\ flight = NoRequest
  /\ IsList(log) /\ Len(log) <= program.load
  /\ \A i \in 1 .. Len(log) : EntryOK(log[i], app.table, program)
  /\ FlightOK(flight, app.table, program, loop)
  /\ flight # NoRequest => Len(log) < program.load

(* The inductive invariant of Gateway. *)
IInv == SetupOK /\ SocketOK /\ TrafficOK

(* The empty list is a list. *)
LEMMA NothingIsList == IsList(<<>>) /\ Len(<<>>) = 0
BY EmptySeq DEF IsList

(* The program starts with nothing made. *)
LEMMA InitSetup == Init => SetupOK
<1> SUFFICES ASSUME Init PROVE SetupOK
  OBVIOUS
<1>1. Len(calls) = 0 /\ DOMAIN calls = 1 .. 0 /\ calls = <<>>
  BY DEF Init
<1>2. CallsOK(calls)
  BY <1>1 DEF CallsOK
<1>3. BuilderOK(builder, calls, done)
  BY <1>1, NewBuilderOK DEF Init
<1> QED
  BY <1>1, <1>2, <1>3 DEF Init, SetupOK, Setups, Failed, Bound

(* And with no request. *)
LEMMA InitTraffic == Init => SocketOK /\ TrafficOK
<1> SUFFICES ASSUME Init PROVE SocketOK /\ TrafficOK
  OBVIOUS
<1>1. SocketOK
  BY DEF Init, SocketOK, Bound
<1>2. IsList(log) /\ Len(log) = 0
  BY NothingIsList DEF Init
<1>3. program.load \in Nat
  BY GatewayAssumption DEF Init
<1>4. FlightOK(flight, app.table, program, loop)
  BY DEF Init, FlightOK
<1> QED
  BY <1>1, <1>2, <1>3, <1>4 DEF Init, TrafficOK

(* The setup. *)

(* Compilation keeps what is known of the setup. *)
LEMMA CompileSetup == SetupOK /\ Compile => SetupOK'
<1> SUFFICES ASSUME SetupOK, Compile PROVE SetupOK'
  OBVIOUS
<1>1. phase = "source" /\ program \in Programs /\ builder = NewBuilder /\ done = 0
  BY DEF Compile, SetupOK
<1>2. program' = program /\ builder' = builder /\ done' = done /\ app' = app
  BY DEF Compile
<1>3. CASE program.services \subseteq DOMAIN Expanded
  <2>1. /\ phase' = "configuring"
        /\ calls' = [i \in DOMAIN program.script |-> Made(Calls[program.script[i]])]
    BY <1>3 DEF Compile
  <2>2. CallsOK(calls')
    BY <1>1, <1>3, <2>1, MadeCallsAreOK
  <2>3. Len(calls') \in Nat
    BY <2>2 DEF CallsOK
  <2>4. BuilderOK(builder', calls', done')
    BY <1>1, <1>2, <2>3, NewBuilderOK
  <2> QED
    BY <1>1, <1>2, <2>1, <2>2, <2>3, <2>4 DEF SetupOK, Setups, Failed, Bound
<1>4. CASE ~(program.services \subseteq DOMAIN Expanded)
  <2>1. phase' = "refused" /\ calls' = calls
    BY <1>4 DEF Compile
  <2> QED
    BY <1>1, <1>2, <2>1 DEF SetupOK, Setups, Failed, Bound
<1> QED
  BY <1>3, <1>4

(* So does a call on the builder. *)
LEMMA CallBuilderSetup == SetupOK /\ CallBuilder => SetupOK'
<1> SUFFICES ASSUME SetupOK, CallBuilder PROVE SetupOK'
  OBVIOUS
<1>1. /\ phase = "configuring" /\ done < Len(calls)
      /\ builder' = Configure(builder, calls[done + 1])
      /\ done' = done + 1 /\ program' = program /\ phase' = phase /\ calls' = calls /\ app' = app
  BY DEF CallBuilder
<1>2. CallsOK(calls) /\ Len(calls) \in Nat /\ done \in Nat /\ done + 1 <= Len(calls)
  <2>1. CallsOK(calls) /\ done \in 0 .. Len(calls)
    BY DEF SetupOK
  <2>2. Len(calls) \in Nat
    BY <2>1 DEF CallsOK
  <2> QED
    BY <1>1, <2>1, <2>2
<1>3. BuilderOK(builder', calls', done')
  BY <1>1, <1>2, ConfigureKeeps DEF SetupOK
<1>4. done' \in 0 .. Len(calls')
  BY <1>1, <1>2
<1> QED
  BY <1>1, <1>2, <1>3, <1>4 DEF SetupOK, Setups, Failed, Bound

(* So does build. *)
LEMMA BuildSetup == SetupOK /\ Build => SetupOK'
<1> SUFFICES ASSUME SetupOK, Build PROVE SetupOK'
  OBVIOUS
<1>1. /\ phase = "configuring" /\ done = Len(calls) /\ app' \in Builds(builder)
      /\ phase' = app'.outcome.result
      /\ program' = program /\ calls' = calls /\ builder' = builder /\ done' = done
  BY DEF Build
<1>2. CallsOK(calls) /\ BuilderOK(builder, calls, Len(calls))
  BY <1>1 DEF SetupOK
<1>3. MountedApp(app', builder, Declared) \/ UnmountedApp(app', builder)
  BY <1>1, <1>2, BuiltIs
<1>4. app'.outcome.result \in {"built", "error", "panicked"}
  <2>1. CASE MountedApp(app', builder, Declared)
    BY <2>1 DEF MountedApp
  <2>2. CASE UnmountedApp(app', builder)
    BY <2>2 DEF UnmountedApp, UriFailures, Outcome
  <2> QED
    BY <1>3, <2>1, <2>2
<1> QED
  BY <1>1, <1>4 DEF SetupOK, Setups, Failed, Bound

(* So does binding. *)
LEMMA BindSetup == SetupOK /\ (RunRouterWith \/ Succeed \/ FailToBind) => SetupOK'
<1> SUFFICES ASSUME SetupOK, RunRouterWith \/ Succeed \/ FailToBind PROVE SetupOK'
  OBVIOUS
<1>1. /\ phase \in {"built", "binding"} /\ phase' \in Bound
      /\ program' = program /\ calls' = calls /\ builder' = builder /\ done' = done /\ app' = app
  BY DEF RunRouterWith, Succeed, FailToBind, Bound
<1> QED
  BY <1>1 DEF SetupOK, Setups, Failed, Bound

(* So do requests. *)
LEMMA TrafficSetup ==
  SetupOK /\ UNCHANGED <<program, setup>> => SetupOK' /\ (SocketOK => SocketOK')
BY DEF SetupOK, SocketOK, setup

(* The listener. *)

(* There is a call to make, and the calls are as configured. *)
LEMMA BindIsSomething ==
  ASSUME NEW p \in Programs
  PROVE  /\ IsList(BindListener(p.family, p.config)) /\ BindListener(p.family, p.config) # <<>>
         /\ AsConfigured(BindListener(p.family, p.config), p.config, p.family)
<1> DEFINE s == BindListener(p.family, p.config)
<1>1. p.family \in {"V4", "V6"} /\ ConfigOK(p.config)
  BY GatewayAssumption DEF ConfigOK
<1>2. IsList(s) /\ AsConfigured(s, p.config, p.family)
  BY <1>1, BindIsConfigured
<1> HIDE DEF s
<1>3. MadeIn(s, "nonblocking") # {}
  BY <1>2 DEF AsConfigured, InForce
<1>4. s # <<>>
  BY <1>3 DEF MadeIn
<1> QED
  BY <1>2, <1>4 DEF s

(* Before the first call, all are to be made. *)
LEMMA RunSocket == SetupOK /\ SocketOK /\ RunRouterWith => SocketOK'
<1> SUFFICES ASSUME SetupOK, SocketOK, RunRouterWith PROVE SocketOK'
  OBVIOUS
<1> DEFINE s == BindListener(program.family, program.config)
<1>1. /\ phase' = "binding" /\ pending' = s /\ socket' = <<>> /\ program' = program
  BY DEF RunRouterWith, SocketOK, Bound
<1>2. IsList(s) /\ s # <<>>
  BY BindIsSomething DEF SetupOK
<1>3. BindListener(program'.family, program'.config) = s
  BY <1>1
<1> HIDE DEF s
<1>4. Joins(s, <<>>, s)
  <2>1. Len(s) \in Nat
    BY <1>2, SeqFacts
  <2> QED
    BY <1>2, <2>1, NothingIsList DEF Joins
<1> QED
  BY <1>1, <1>2, <1>3, <1>4, NothingIsList DEF SocketOK, Bound

(* A call that succeeds is made, and the rest are still to be. *)
LEMMA SucceedSocket == SetupOK /\ SocketOK /\ Succeed => SocketOK'
<1> SUFFICES ASSUME SetupOK, SocketOK, Succeed PROVE SocketOK'
  OBVIOUS
<1> DEFINE s == BindListener(program.family, program.config)
           made == Append(socket, Head(pending))
           left == Tail(pending)
<1>1. /\ socket' = made /\ pending' = left /\ program' = program
      /\ phase' = IF left = <<>> THEN "listening" ELSE "binding"
  BY DEF Succeed
<1>2. /\ IsList(socket) /\ IsList(pending) /\ pending # <<>> /\ Joins(s, socket, pending)
  BY DEF SocketOK, Succeed, Bound
<1>3. BindListener(program'.family, program'.config) = s
  BY <1>1
<1> HIDE DEF s
<1>4. Len(socket) \in Nat /\ Len(pending) \in Nat /\ Len(pending) # 0
  BY <1>2, SeqFacts
<1>5. /\ IsList(made) /\ Len(made) = Len(socket) + 1
      /\ \A k \in 1 .. Len(socket) : made[k] = socket[k]
      /\ made[Len(socket) + 1] = pending[1]
  BY <1>2, AppendSeq
<1>6. /\ IsList(left) /\ Len(left) = Len(pending) - 1
      /\ \A k \in 1 .. Len(pending) - 1 : left[k] = pending[k + 1]
  BY <1>2, TailSeq
<1> HIDE DEF made, left
<1>7. Joins(s, made, left)
  <2>1. /\ IsList(s) /\ Len(s) = Len(socket) + Len(pending)
        /\ \A k \in 1 .. Len(socket) : s[k] = socket[k]
        /\ \A k \in 1 .. Len(pending) : s[Len(socket) + k] = pending[k]
    BY <1>2 DEF Joins
  <2>2. ASSUME NEW k \in 1 .. Len(made) PROVE s[k] = made[k]
    <3>1. CASE k = Len(socket) + 1
      <4>1. 1 \in 1 .. Len(pending)
        BY <1>4
      <4>2. s[Len(socket) + 1] = pending[1]
        BY <2>1, <4>1
      <4> QED
        BY <1>5, <3>1, <4>2
    <3>2. CASE k # Len(socket) + 1
      <4>1. k \in 1 .. Len(socket)
        BY <1>4, <1>5, <3>2
      <4> QED
        BY <1>5, <2>1, <4>1
    <3> QED
      BY <3>1, <3>2
  <2>3. ASSUME NEW k \in 1 .. Len(left) PROVE s[Len(made) + k] = left[k]
    <3>1. k + 1 \in 1 .. Len(pending) /\ Len(made) + k = Len(socket) + (k + 1)
      BY <1>4, <1>5, <1>6
    <3>2. s[Len(socket) + (k + 1)] = pending[k + 1]
      BY <2>1, <3>1
    <3> QED
      BY <1>4, <1>6, <3>1, <3>2
  <2>4. Len(s) = Len(made) + Len(left)
    BY <1>4, <1>5, <1>6, <2>1
  <2> QED
    BY <2>1, <2>2, <2>3, <2>4 DEF Joins
<1>8. CASE left = <<>>
  BY <1>1, <1>3, <1>5, <1>6, <1>7, <1>8 DEF SocketOK, Bound
<1>9. CASE left # <<>>
  BY <1>1, <1>3, <1>5, <1>6, <1>7, <1>9 DEF SocketOK, Bound
<1> QED
  BY <1>8, <1>9

(* Other steps make none. *)
LEMMA OtherSocket ==
  SetupOK /\ SocketOK /\ (Compile \/ CallBuilder \/ Build \/ FailToBind) => SocketOK'
<1> SUFFICES ASSUME SetupOK, SocketOK, Compile \/ CallBuilder \/ Build \/ FailToBind
             PROVE  SocketOK'
  OBVIOUS
<1>1. CASE Compile \/ CallBuilder \/ Build
  <2>1. phase \notin Bound /\ pending' = pending /\ socket' = socket
    BY <1>1 DEF Compile, CallBuilder, Build, Bound
  <2>2. phase' \notin Bound
    <3>1. CASE Compile
      BY <3>1 DEF Compile, Bound
    <3>2. CASE CallBuilder
      BY <3>2 DEF CallBuilder, Bound
    <3>3. CASE Build
      <4>1. SetupOK' /\ phase' = app'.outcome.result
        BY <3>3, BuildSetup DEF Build
      <4> QED
        BY <4>1 DEF SetupOK, Bound, Failed, Setups
    <3> QED
      BY <1>1, <3>1, <3>2, <3>3
  <2> QED
    BY <2>1, <2>2 DEF SocketOK, Bound
<1>2. CASE FailToBind
  BY <1>2 DEF FailToBind, SocketOK, Bound
<1> QED
  BY <1>1, <1>2

(* When no call is left to make, all that were configured are made. *)
LEMMA SocketIsAsConfigured == SetupOK /\ SocketOK => ListenerIsAsConfigured
<1> SUFFICES ASSUME SetupOK, SocketOK, phase = "listening" PROVE ListenerIsAsConfigured
  BY DEF ListenerIsAsConfigured
<1> DEFINE s == BindListener(program.family, program.config)
<1>1. IsList(s) /\ AsConfigured(s, program.config, program.family)
  BY BindIsSomething DEF SetupOK
<1>2. IsList(socket) /\ Joins(s, socket, pending) /\ pending = <<>>
  BY DEF SocketOK, Bound
<1> HIDE DEF s
<1>3. s = socket
  <2>1. Len(s) = Len(socket) /\ \A k \in 1 .. Len(s) : s[k] = socket[k]
    <3>1. Len(pending) = 0 /\ Len(socket) \in Nat
      BY <1>2, NothingIsList, SeqFacts
    <3> QED
      BY <1>2, <3>1 DEF Joins
  <2> QED
    BY <1>1, <1>2, <2>1, SameList
<1>4. AsConfigured(socket, program.config, program.family)
  BY <1>1, <1>3
<1> QED
  BY <1>4 DEF ListenerIsAsConfigured, AsConfigured, InForce, MadeIn

-----------------------------------------------------------------------------
(***************************************************************************)
(* The requests.                                                           *)
(***************************************************************************)

(* What the built app's routes are known for. *)
LEMMA TableFacts ==
  ASSUME SetupOK, phase \in {"built"} \union Bound
  PROVE  MountedApp(app, builder, Declared) /\ AppParts(app, builder) /\ IsList(Declared)
         /\ Len(app.table) = Len(Declared) /\ IsList(app.table)
         /\ \A i \in DOMAIN app.table : IsList(app.table[i].pool)
<1>1. /\ CallsOK(calls) /\ BuilderOK(builder, calls, Len(calls)) /\ app \in Builds(builder)
      /\ app.outcome.result = "built"
  BY DEF SetupOK, Setups, Bound
<1>2. AppParts(app, builder) /\ (MountedApp(app, builder, Declared) \/ UnmountedApp(app, builder))
  BY <1>1, BuiltIs
<1>3. ~UnmountedApp(app, builder)
  BY <1>1 DEF UnmountedApp, UriFailures, Outcome
<1>4. MountedApp(app, builder, Declared)
  BY <1>2, <1>3
<1>5. TableOK(app.table, builder, Declared) /\ Len(app.table) = Len(Declared)
  BY <1>1, <1>4 DEF MountedApp
<1>6. Len(calls) \in Nat
  BY <1>1 DEF CallsOK
<1>7. \A i \in DOMAIN app.table : IsList(app.table[i].pool)
  BY <1>1, <1>5, <1>6, PoolsAreLists
<1>8. IsList(Declared)
  BY <1>1, AppIsMounted
<1>9. IsList(app.table)
  BY <1>5 DEF TableOK
<1> QED
  BY <1>2, <1>4, <1>5, <1>7, <1>8, <1>9

(* A mounted route rewrites as what it is declared with says.              *)
MetaOK(m) ==
  /\ IsText(m.prefix) /\ m.full = Join(m.prefix, m.route_path)
  /\ RewriteOK(m.route_path, m.to, m.rewrite)

(* That is so of every route of a built app. *)
LEMMA MetasAreOK ==
  ASSUME SetupOK, phase \in {"built"} \union Bound, NEW i \in DOMAIN app.table
  PROVE  MetaOK(app.table[i])
<1> DEFINE d == Declared[i]
<1>1. CallsOK(calls) /\ BuilderOK(builder, calls, Len(calls)) /\ Len(calls) \in Nat
  BY DEF SetupOK, CallsOK, Setups, Bound
<1>2. TableOK(app.table, builder, Declared) /\ IsList(app.table)
      /\ Len(app.table) = Len(Declared)
  BY TableFacts DEF MountedApp
<1>3. i \in 1 .. Len(Declared)
  BY <1>2, SeqFacts
<1>4. app.table[i] = TableEntry(builder, d)
  BY <1>2, <1>3 DEF TableOK
<1>5. DeclaredOK(d)
  <2> DEFINE ms == MountsOf(calls)[Len(calls)]
  <2>1. Mounts = ms
    BY MountedByIs DEF Mounts
  <2>2. MountsFine(ms)
    BY <1>1, MountsAreFine
  <2> HIDE DEF ms
  <2>3. Declared = DeclaredOf(ms)[Len(ms)]
    BY <2>1, DeclaredByIs DEF Declared
  <2>4. Len(ms) \in Nat /\ Len(ms) <= Len(ms)
    BY <2>2, SeqFacts DEF MountsFine
  <2> QED
    BY <1>3, <2>2, <2>3, <2>4, DeclarationsAreOK
<1> HIDE DEF d
<1> QED
  BY <1>4, <1>5 DEF TableEntry, MetaOK, DeclaredOK, FullPath

(* A hash is a word. *)
LEMMA HashIsWord ==
  ASSUME NEW p \in Programs, NEW text
  PROVE  HashOf(p, text) \in 0 .. Word - 1
BY GatewayAssumption, HashAssumption DEF HashOf

(* Before the program listens, no request is. *)
LEMMA QuietTraffic ==
  ASSUME SetupOK, TrafficOK, phase # "listening", UNCHANGED <<program, log, flight>>
  PROVE  TrafficOK'
<1>1. log = <<>> /\ flight = NoRequest /\ IsList(log) /\ Len(log) <= program.load
  BY DEF TrafficOK
<1>2. Len(log) = 0
  BY <1>1, NothingIsList
<1>3. log' = log /\ flight' = flight /\ program' = program
  OBVIOUS
<1>4. \A i \in 1 .. Len(log') : EntryOK(log'[i], app'.table, program')
  BY <1>2, <1>3
<1>5. FlightOK(flight', app'.table, program', loop')
  BY <1>1, <1>3 DEF FlightOK
<1> QED
  BY <1>1, <1>3, <1>4, <1>5 DEF TrafficOK

(* One more entry in the log. *)
LEMMA LogGrows ==
  ASSUME TrafficOK, SetupOK, NEW e, EntryOK(e, app.table, program),
         log' = Append(log, e), Len(log) < program.load, UNCHANGED <<program, app>>
  PROVE  /\ IsList(log') /\ Len(log') <= program'.load
         /\ \A i \in 1 .. Len(log') : EntryOK(log'[i], app'.table, program')
<1>1. /\ IsList(log) /\ \A i \in 1 .. Len(log) : EntryOK(log[i], app.table, program)
      /\ app' = app /\ program' = program
  BY DEF TrafficOK
<1>2. Len(log) \in Nat /\ program.load \in Nat
  BY <1>1, SeqFacts, GatewayAssumption DEF SetupOK
<1>3. /\ IsList(log') /\ Len(log') = Len(log) + 1 /\ log'[Len(log) + 1] = e
      /\ \A k \in 1 .. Len(log) : log'[k] = log[k]
  BY <1>1, AppendSeq
<1>4. ASSUME NEW i \in 1 .. Len(log') PROVE EntryOK(log'[i], app.table, program)
  <2>1. CASE i = Len(log) + 1
    BY <1>3, <2>1
  <2>2. CASE i # Len(log) + 1
    <3>1. i \in 1 .. Len(log)
      BY <1>2, <1>3, <2>2
    <3> QED
      BY <1>1, <1>3, <3>1
  <2> QED
    BY <2>1, <2>2
<1> QED
  BY <1>1, <1>2, <1>3, <1>4

(* An idle program has no request in flight. *)
LEMMA IdleFlight ==
  ASSUME TrafficOK, flight.stage = "idle"
  PROVE  flight = NoRequest
BY DEF TrafficOK, FlightOK

(* A request that is routed is on its way to a backend, or has none to go  *)
(* to.                                                                     *)
LEMMA RouteTraffic ==
  ASSUME SetupOK, TrafficOK, phase = "listening", flight.stage = "idle",
         Len(log) < program.load, UNCHANGED <<program, setup>>, NEW request \in Requests,
         NEW i \in DOMAIN app.table, PathMatches(app.table[i].full, request.path),
         Route(request, i)
  PROVE  TrafficOK'
<1> DEFINE meta == app.table[i]
           key == Affinity(meta, request)
           n == Len(meta.pool)
           hash == HashOf(program, key)
<1>1. phase' = phase /\ program' = program /\ app' = app /\ program \in Programs
  BY DEF setup, SetupOK
<1>2. IsList(meta.pool)
  BY TableFacts DEF Bound
<1>3. n \in Nat /\ DOMAIN meta.pool = 1 .. n /\ (meta.pool = <<>> <=> n = 0)
  BY <1>2, SeqFacts
<1>4. flight = NoRequest
  BY IdleFlight
<1>5. /\ IsList(log) /\ Len(log) <= program.load
      /\ \A k \in 1 .. Len(log) : EntryOK(log[k], app.table, program)
  BY DEF TrafficOK
<1>6. Xxh3(key) = hash
  BY DEF Xxh3, HashOf
<1>7. hash \in 0 .. Word - 1 /\ TakenBy(meta, request, key)
  BY <1>1, HashIsWord DEF TakenBy
<1>8. CASE /\ meta.pool = <<>>
           /\ log' = Append(log, [Entry(request, i, "no_backends_selected") EXCEPT !.key = key])
           /\ UNCHANGED <<flight, loop>>
  <2> DEFINE e == [Entry(request, i, "no_backends_selected") EXCEPT !.key = key]
  <2>1. e.outcome = "no_backends_selected"
    BY DEF Entry
  <2>2. log' = Append(log, e)
    BY <1>8
  <2> HIDE DEF e, key, meta
  <2>3. EntryOK(e, app.table, program)
    BY <2>1 DEF EntryOK
  <2>4. /\ IsList(log') /\ Len(log') <= program'.load
        /\ \A k \in 1 .. Len(log') : EntryOK(log'[k], app'.table, program')
    BY <1>1, <2>2, <2>3, LogGrows
  <2>5. flight' = NoRequest
    BY <1>4, <1>8
  <2>6. FlightOK(flight', app'.table, program', loop')
    BY <2>5 DEF FlightOK
  <2> QED
    BY <1>1, <2>4, <2>5, <2>6 DEF TrafficOK
<1>9. CASE /\ meta.pool # <<>> /\ Hashed(meta, key)
           /\ flight' = [stage |-> "hashing", request |-> request, route |-> i, key |-> key,
                         backend |-> 0]
           /\ loop' = NewJump(hash) /\ log' = log
  <2> HIDE DEF meta, key, hash, n
  <2>1. n \in Nat \ {0}
    BY <1>3, <1>9
  <2>2. LoopOK(loop', hash, n)
    BY <1>7, <1>9, <2>1, LoopStarts
  <2>3. flight'.stage = "hashing" /\ flight'.route = i /\ flight'.key = key
        /\ flight'.request = request
        /\ flight' = [stage |-> flight'.stage, request |-> flight'.request, route |-> flight'.route,
                      key |-> flight'.key, backend |-> flight'.backend]
    BY <1>9
  <2>4. FlightOK(flight', app.table, program, loop')
    BY <1>7, <1>9, <2>1, <2>2, <2>3 DEF FlightOK, meta, n, hash
  <2> QED
    BY <1>1, <1>5, <1>9, <2>4 DEF TrafficOK
<1>10. ASSUME meta.pool # <<>>, ~Hashed(meta, key), NEW k \in DOMAIN meta.pool,
              flight' = [stage |-> "picked", request |-> request, route |-> i, key |-> key,
                         backend |-> k - 1], log' = log
       PROVE  TrafficOK'
  <2> HIDE DEF meta, key, hash, n
  <2>1. k - 1 \in 0 .. n - 1
    BY <1>3, <1>10
  <2>2. PickOK(meta, key, k - 1, program)
    BY <1>10, <2>1 DEF PickOK, n
  <2>3. /\ flight'.stage = "picked" /\ flight'.route = i /\ flight'.key = key
        /\ flight'.backend = k - 1 /\ flight'.request = request
        /\ flight' = [stage |-> flight'.stage, request |-> flight'.request, route |-> flight'.route,
                      key |-> flight'.key, backend |-> flight'.backend]
    BY <1>10
  <2>4. FlightOK(flight', app.table, program, loop')
    BY <1>7, <2>2, <2>3 DEF FlightOK, meta
  <2> QED
    BY <1>1, <1>5, <1>10, <2>4 DEF TrafficOK
<1> QED
  <2>1. Hashed(meta, key) <=> meta.policy.balancer = "ConsistentHash" /\ key # <<>>
    BY DEF Hashed
  <2> DEFINE f == [stage |-> "picked", request |-> request, route |-> i, key |-> key, backend |-> 0]
  <2>2. /\ [f EXCEPT !.stage = "hashing"] =
             [stage |-> "hashing", request |-> request, route |-> i, key |-> key, backend |-> 0]
        /\ \A k : [f EXCEPT !.backend = k] =
             [stage |-> "picked", request |-> request, route |-> i, key |-> key, backend |-> k]
    OBVIOUS
  <2>3. \/ /\ meta.pool = <<>>
           /\ log' = Append(log, [Entry(request, i, "no_backends_selected") EXCEPT !.key = key])
           /\ UNCHANGED <<flight, loop>>
        \/ /\ meta.pool # <<>> /\ Hashed(meta, key)
           /\ flight' = [f EXCEPT !.stage = "hashing"]
           /\ loop' = NewJump(Xxh3(key)) /\ log' = log
        \/ /\ meta.pool # <<>> /\ ~Hashed(meta, key)
           /\ \E k \in DOMAIN meta.pool : flight' = [f EXCEPT !.backend = k - 1]
           /\ log' = log
    BY <2>1 DEF Route
  <2> HIDE DEF meta, key, hash, f
  <2> QED
    BY <1>6, <1>8, <1>9, <1>10, <2>2, <2>3

(* A request that no route takes is only logged. *)
LEMMA UnroutedTraffic ==
  ASSUME SetupOK, TrafficOK, phase = "listening", flight.stage = "idle",
         Len(log) < program.load, UNCHANGED <<program, setup>>, NEW request, NEW code,
         Unrouted(request, code)
  PROVE  TrafficOK'
<1> DEFINE e == Entry(request, 0, code)
<1>1. phase' = phase /\ program' = program /\ app' = app
  BY DEF setup
<1>2. log' = Append(log, e) /\ flight' = flight /\ loop' = loop
  BY DEF Unrouted
<1>3. e.route = 0
  BY DEF Entry
<1> HIDE DEF e
<1>4. EntryOK(e, app.table, program)
  BY <1>3 DEF EntryOK
<1>5. /\ IsList(log') /\ Len(log') <= program'.load
      /\ \A k \in 1 .. Len(log') : EntryOK(log'[k], app'.table, program')
  BY <1>1, <1>2, <1>4, LogGrows
<1>6. flight' = NoRequest
  BY <1>2, IdleFlight
<1>7. FlightOK(flight', app'.table, program', loop')
  BY <1>6 DEF FlightOK
<1> QED
  BY <1>1, <1>5, <1>6, <1>7 DEF TrafficOK

(* Only mounted routes answer. *)
LEMMA EndpointsAreRoutes ==
  ASSUME NEW paths, NEW method
  PROVE  /\ Endpoints(paths, method) \subseteq DOMAIN app.table
         /\ \A i \in Endpoints(paths, method) : app.table[i].full \in paths
BY DEF Endpoints, Answering

(* So is every request that arrives one of those. *)
LEMMA ArriveTraffic ==
  ASSUME SetupOK, TrafficOK, NEW request \in Requests, Arrive(request)
  PROVE  TrafficOK'
<1> DEFINE paths == Paths(request.path)
           routes == Endpoints(Best(paths), request.method)
<1>1. /\ phase = "listening" /\ flight.stage = "idle" /\ Len(log) < program.load
      /\ UNCHANGED <<program, setup>>
  BY DEF Arrive
<1>2. \/ Unrouted(request, "route_not_found")
      \/ Unrouted(request, "method_not_allowed")
      \/ \E i \in routes : Route(request, i)
  BY DEF Arrive
<1>3. /\ routes \subseteq DOMAIN app.table
      /\ \A i \in routes : PathMatches(app.table[i].full, request.path)
  BY EndpointsAreRoutes DEF Best, Paths
<1> HIDE DEF routes
<1>4. CASE Unrouted(request, "route_not_found") \/ Unrouted(request, "method_not_allowed")
  BY <1>1, <1>4, UnroutedTraffic
<1>5. ASSUME NEW i \in routes, Route(request, i) PROVE TrafficOK'
  BY <1>1, <1>3, <1>5, RouteTraffic
<1> QED
  BY <1>2, <1>4, <1>5

(* What is known of a request that is in flight. *)
LEMMA InFlight ==
  ASSUME SetupOK, TrafficOK, flight.stage \in {"hashing", "picked"}
  PROVE  /\ phase = "listening" /\ Len(log) < program.load
         /\ flight = [stage |-> flight.stage, request |-> flight.request, route |-> flight.route,
                      key |-> flight.key, backend |-> flight.backend]
         /\ flight.route \in DOMAIN app.table
         /\ TakenBy(app.table[flight.route], flight.request, flight.key)
         /\ flight.stage = "hashing" =>
              /\ Hashed(app.table[flight.route], flight.key)
              /\ Len(app.table[flight.route].pool) \in Nat \ {0}
              /\ LoopOK(loop, HashOf(program, flight.key), Len(app.table[flight.route].pool))
         /\ flight.stage = "picked" =>
              PickOK(app.table[flight.route], flight.key, flight.backend, program)
<1>1. flight # NoRequest
  BY DEF NoRequest
<1> QED
  BY <1>1 DEF TrafficOK, FlightOK

(* A turn of the loop keeps the request on its way, or picks its backend. *)
LEMMA TurnTraffic == SetupOK /\ TrafficOK /\ Turn => TrafficOK'
<1> SUFFICES ASSUME SetupOK, TrafficOK, Turn PROVE TrafficOK'
  OBVIOUS
<1> DEFINE meta == app.table[flight.route]
           n == Len(meta.pool)
           hash == HashOf(program, flight.key)
<1>1. /\ flight.stage = "hashing" /\ log' = log /\ phase' = phase /\ program' = program
      /\ app' = app
  BY DEF Turn, setup
<1>2. \/ Jumping(loop, n) /\ loop' = JumpStep(loop) /\ flight' = flight
      \/ /\ ~Jumping(loop, n)
         /\ flight' = [flight EXCEPT !.stage = "picked", !.backend = loop.b]
         /\ loop' = loop
  BY DEF Turn
<1>3. /\ phase = "listening" /\ Len(log) < program.load
      /\ flight = [stage |-> flight.stage, request |-> flight.request, route |-> flight.route,
                   key |-> flight.key, backend |-> flight.backend]
      /\ flight.route \in DOMAIN app.table
      /\ TakenBy(meta, flight.request, flight.key)
      /\ Hashed(meta, flight.key) /\ n \in Nat \ {0} /\ LoopOK(loop, hash, n)
  BY <1>1, InFlight
<1>4. hash \in 0 .. Word - 1
  BY HashIsWord DEF SetupOK
<1>5. /\ IsList(log) /\ Len(log) <= program.load
      /\ \A k \in 1 .. Len(log) : EntryOK(log[k], app.table, program)
  BY DEF TrafficOK
<1> HIDE DEF meta, n, hash
<1>6. CASE Jumping(loop, n) /\ loop' = JumpStep(loop) /\ flight' = flight
  <2>1. LoopOK(loop', hash, n)
    BY <1>3, <1>4, <1>6, LoopTurns
  <2>2. FlightOK(flight', app.table, program, loop')
    BY <1>1, <1>3, <1>6, <2>1 DEF FlightOK, meta, n, hash
  <2> QED
    BY <1>1, <1>3, <1>5, <2>2 DEF TrafficOK
<1>7. CASE /\ ~Jumping(loop, n)
           /\ flight' = [flight EXCEPT !.stage = "picked", !.backend = loop.b]
           /\ loop' = loop
  <2>1. loop.b \in 0 .. n - 1 /\ loop.b \in {n - 1, JumpOf(hash, n - 1)}
    BY <1>3, <1>4, <1>7, LoopEnds
  <2>2. PickOK(meta, flight.key, loop.b, program)
    BY <2>1 DEF PickOK, n, hash
  <2>3. flight' = [stage |-> "picked", request |-> flight.request, route |-> flight.route,
                   key |-> flight.key, backend |-> loop.b]
    BY <1>3, <1>7
  <2>4. /\ flight'.stage = "picked" /\ flight'.route = flight.route /\ flight'.key = flight.key
        /\ flight'.backend = loop.b /\ flight'.request = flight.request
        /\ flight' = [stage |-> flight'.stage, request |-> flight'.request,
                      route |-> flight'.route, key |-> flight'.key, backend |-> flight'.backend]
    BY <2>3
  <2>5. FlightOK(flight', app.table, program, loop')
    BY <1>3, <2>2, <2>4 DEF FlightOK, meta
  <2> QED
    BY <1>1, <1>3, <1>5, <2>5 DEF TrafficOK
<1> QED
  BY <1>2, <1>6, <1>7 DEF n, meta

(* A picked backend is sent to, and that is logged. *)
LEMMA ForwardTraffic == SetupOK /\ TrafficOK /\ Forward => TrafficOK'
<1> SUFFICES ASSUME SetupOK, TrafficOK, Forward PROVE TrafficOK'
  OBVIOUS
<1> DEFINE meta == app.table[flight.route]
           e == [Entry(flight.request, flight.route, "invalid_upstream_uri")
                   EXCEPT !.key = flight.key, !.backend = flight.backend]
           base == meta.pool[flight.backend + 1]
           sent(r) == [e EXCEPT
                         !.outcome = "forwarded",
                         !.path    = RewritePath(meta, flight.request.path),
                         !.headers = UpstreamHeaders(flight.request.headers, base),
                         !.upstream = r,
                         !.answer  = StripHopHeaders(r)]
<1>1. /\ flight.stage = "picked" /\ flight' = NoRequest /\ phase' = phase /\ program' = program
      /\ app' = app
  BY DEF Forward, setup
<1>2. \/ ~Rewritable(meta, flight.request.path) /\ log' = Append(log, e)
      \/ /\ Rewritable(meta, flight.request.path)
         /\ \E r \in Responses : log' = Append(log, sent(r))
  BY DEF Forward
<1>3. /\ phase = "listening" /\ Len(log) < program.load
      /\ flight.route \in DOMAIN app.table /\ TakenBy(meta, flight.request, flight.key)
      /\ PickOK(meta, flight.key, flight.backend, program)
  BY <1>1, InFlight
<1>4. /\ e.route = flight.route /\ e.key = flight.key /\ e.backend = flight.backend
      /\ e.outcome = "invalid_upstream_uri" /\ e.request = flight.request
  BY DEF Entry
<1>5. ASSUME NEW r
      PROVE  /\ sent(r).route = flight.route /\ sent(r).key = flight.key
             /\ sent(r).backend = flight.backend /\ sent(r).request = flight.request
             /\ sent(r).outcome = "forwarded"
             /\ sent(r).path = RewritePath(meta, flight.request.path)
             /\ sent(r).headers = UpstreamHeaders(flight.request.headers, base)
             /\ sent(r).answer = StripHopHeaders(r) /\ sent(r).upstream = r
  BY DEF Entry
<1> HIDE DEF e, sent
<1>6. ASSUME ~Rewritable(meta, flight.request.path) PROVE EntryOK(e, app.table, program)
  BY <1>3, <1>4, <1>6 DEF EntryOK, WayOK
<1>7. ASSUME Rewritable(meta, flight.request.path), NEW r
      PROVE  EntryOK(sent(r), app.table, program)
  <2>1. WayOK(sent(r), meta)
    BY <1>5, <1>7 DEF WayOK
  <2> QED
    BY <1>3, <1>5, <2>1 DEF EntryOK
<1>8. PICK x : log' = Append(log, x) /\ EntryOK(x, app.table, program)
  BY <1>2, <1>6, <1>7
<1>9. /\ IsList(log') /\ Len(log') <= program'.load
      /\ \A k \in 1 .. Len(log') : EntryOK(log'[k], app'.table, program')
  BY <1>1, <1>3, <1>8, LogGrows
<1>10. FlightOK(flight', app'.table, program', loop')
  BY <1>1 DEF FlightOK
<1> QED
  BY <1>1, <1>3, <1>9, <1>10 DEF TrafficOK

(* The invariant is inductive. *)
LEMMA IInvInit == Init => IInv
BY InitSetup, InitTraffic DEF IInv

(* Every step keeps it. *)
LEMMA IInvSteps == IInv /\ [Next]_vars => IInv'
<1> SUFFICES ASSUME IInv, [Next]_vars PROVE IInv'
  OBVIOUS
<1> USE DEF IInv
<1>1. CASE Compile \/ CallBuilder \/ Build
  <2>1. SetupOK'
    BY <1>1, CompileSetup, CallBuilderSetup, BuildSetup
  <2>2. SocketOK'
    BY <1>1, OtherSocket
  <2>3. phase # "listening" /\ UNCHANGED <<program, log, flight>>
    BY <1>1 DEF Compile, CallBuilder, Build, traffic
  <2>4. TrafficOK'
    BY <2>3, QuietTraffic
  <2> QED
    BY <2>1, <2>2, <2>4
<1>2. CASE RunRouterWith \/ Succeed \/ FailToBind
  <2>1. SetupOK'
    BY <1>2, BindSetup
  <2>2. SocketOK'
    BY <1>2, RunSocket, SucceedSocket, OtherSocket
  <2>3. phase # "listening" /\ UNCHANGED <<program, log, flight>>
    BY <1>2 DEF RunRouterWith, Succeed, FailToBind, traffic
  <2>4. TrafficOK'
    BY <2>3, QuietTraffic
  <2> QED
    BY <2>1, <2>2, <2>4
<1>3. ASSUME NEW request \in Requests, Arrive(request) PROVE IInv'
  <2>1. UNCHANGED <<program, setup>>
    BY <1>3 DEF Arrive
  <2> QED
    BY <1>3, <2>1, TrafficSetup, ArriveTraffic
<1>4. CASE Turn
  <2>1. UNCHANGED <<program, setup>>
    BY <1>4 DEF Turn
  <2> QED
    BY <1>4, <2>1, TrafficSetup, TurnTraffic
<1>5. CASE Forward
  <2>1. UNCHANGED <<program, setup>>
    BY <1>5 DEF Forward
  <2> QED
    BY <1>5, <2>1, TrafficSetup, ForwardTraffic
<1>6. CASE UNCHANGED vars
  <2>1. UNCHANGED <<program, setup>>
    BY <1>6 DEF vars, setup
  <2>2. TrafficOK'
    BY <1>6 DEF vars, TrafficOK
  <2> QED
    BY <2>1, <2>2, TrafficSetup
<1> QED
  BY <1>1, <1>2, <1>3, <1>4, <1>5, <1>6 DEF Next

(* So it holds in every state of the program. *)
LEMMA Invariance == Spec => []IInv
BY IInvInit, IInvSteps, PTL DEF Spec

-----------------------------------------------------------------------------
(***************************************************************************)
(* What follows from the invariant, and the theorems.                      *)
(***************************************************************************)

(* The variables have their types. *)
LEMMA TypesHold == IInv => TypeOK
<1> SUFFICES ASSUME SetupOK, SocketOK, TrafficOK PROVE TypeOK
  BY DEF IInv
<1>1. /\ phase \in {"source", "refused", "configuring", "error", "panicked", "built",
                    "binding", "io_error", "listening"}
      /\ done \in 0 .. Len(calls)
      /\ phase \in {"error", "panicked"} => app.outcome.result = phase
  BY DEF SetupOK, Setups, Failed, Bound
<1>2. Len(log) <= program.load /\ (phase # "listening" => log = <<>> /\ flight = NoRequest)
  BY DEF TrafficOK
<1>3. CASE flight = NoRequest
  BY <1>1, <1>2, <1>3 DEF TypeOK, NoRequest
<1>4. CASE flight # NoRequest
  <2>1. /\ flight.stage \in {"hashing", "picked"} /\ flight.route \in DOMAIN app.table
        /\ flight.stage = "picked" =>
             PickOK(app.table[flight.route], flight.key, flight.backend, program)
    BY <1>4 DEF TrafficOK, FlightOK
  <2> QED
    BY <1>1, <1>2, <2>1 DEF TypeOK, PickOK
<1> QED
  BY <1>3, <1>4

(* The calls that fill the builder's maps, as the properties count them. *)
LEMMA RegistersWrite ==
  ASSUME CallsOK(calls), NEW s
  PROVE  Writes(ServicesOf(calls), Len(calls), s) = {i \in DOMAIN calls : Registers(calls[i], s)}
<1>1. DOMAIN calls = 1 .. Len(calls)
  BY DEF CallsOK
<1>2. ASSUME NEW i \in DOMAIN calls
      PROVE  ServicesOf(calls)[i] = <<s>> <=> Registers(calls[i], s)
  <2>1. CASE calls[i].field = "backend"
    BY <2>1 DEF ServicesOf, Registers
  <2>2. CASE calls[i].field = "mount_service"
    BY <2>2 DEF ServicesOf, Registers
  <2>3. CASE calls[i].field \notin {"backend", "mount_service"}
    BY <2>3 DEF ServicesOf, Registers
  <2> QED
    BY <2>1, <2>2, <2>3
<1> QED
  BY <1>1, <1>2 DEF Writes

(* As RegistersWrite, for the maps that one setter fills. *)
LEMMA KeysWrite ==
  ASSUME CallsOK(calls), NEW field, NEW k
  PROVE  Writes(KeysOf(calls, field), Len(calls), k) =
           {i \in DOMAIN calls : calls[i].field = field /\ calls[i].key = k}
<1>1. DOMAIN calls = 1 .. Len(calls)
  BY DEF CallsOK
<1>2. ASSUME NEW i \in DOMAIN calls
      PROVE  KeysOf(calls, field)[i] = <<k>> <=> calls[i].field = field /\ calls[i].key = k
  <2>1. CASE calls[i].field = field
    BY <2>1 DEF KeysOf
  <2>2. CASE calls[i].field # field
    BY <2>2 DEF KeysOf
  <2> QED
    BY <2>1, <2>2
<1> QED
  BY <1>1, <1>2 DEF Writes

(* The last write is one of the calls. *)
LEMMA LastOfWrites ==
  ASSUME CallsOK(calls), NEW keyOf, NEW k, Writes(keyOf, Len(calls), k) # {}
  PROVE  Max(Writes(keyOf, Len(calls), k)) \in DOMAIN calls
<1>1. Len(calls) \in Nat /\ DOMAIN calls = 1 .. Len(calls)
  BY DEF CallsOK
<1>2. Max(Writes(keyOf, Len(calls), k)) \in Writes(keyOf, Len(calls), k)
  BY <1>1, WritesGreatest
<1> QED
  BY <1>1, <1>2 DEF Writes

(* A service has the backends that the last call gave it. *)
LEMMA BackendsAreTheLast ==
  ASSUME CallsOK(calls), BuilderOK(builder, calls, Len(calls)), NEW s
  PROVE  /\ s \in DOMAIN builder.backends <=> \E i \in DOMAIN calls : Registers(calls[i], s)
         /\ s \in DOMAIN builder.backends => builder.backends[s] = LastUrls(s)
<1> DEFINE w == Writes(ServicesOf(calls), Len(calls), s)
<1>1. /\ s \in DOMAIN builder.backends <=> w # {}
      /\ s \in DOMAIN builder.backends => builder.backends[s] = UrlsBy(calls)[Max(w)]
  BY DEF BuilderOK, Follows
<1>2. w = {i \in DOMAIN calls : Registers(calls[i], s)}
  BY RegistersWrite
<1>3. w # {} => Max(w) \in DOMAIN calls
  BY LastOfWrites
<1> HIDE DEF w
<1>4. w # {} => UrlsBy(calls)[Max(w)] = UrlsOf(calls[Max(w)])
  BY <1>3 DEF UrlsBy
<1>5. LastUrls(s) = UrlsOf(calls[Max(w)])
  BY <1>2 DEF LastUrls
<1> QED
  BY <1>1, <1>2, <1>4, <1>5

(* A name has the policy that the last call gave it. *)
LEMMA PoliciesAreTheLast ==
  ASSUME CallsOK(calls), BuilderOK(builder, calls, Len(calls)), NEW name
  PROVE  /\ name \in DOMAIN builder.policies <=> Registered(name)
         /\ name \in DOMAIN builder.policies => builder.policies[name] = LastPolicy(name)
<1> DEFINE w == Writes(KeysOf(calls, "policy"), Len(calls), name)
<1>1. /\ name \in DOMAIN builder.policies <=> w # {}
      /\ name \in DOMAIN builder.policies => builder.policies[name] = ValuesOf(calls)[Max(w)]
  BY DEF BuilderOK, Follows
<1>2. w = {i \in DOMAIN calls : calls[i].field = "policy" /\ calls[i].key = name}
  BY KeysWrite
<1>3. w # {} => Max(w) \in DOMAIN calls
  BY LastOfWrites
<1> HIDE DEF w
<1>4. w # {} => ValuesOf(calls)[Max(w)] = calls[Max(w)].value
  BY <1>3 DEF ValuesOf
<1>5. LastPolicy(name) = calls[Max(w)].value
  BY <1>2 DEF LastPolicy
<1>6. Registered(name) <=> w # {}
  BY <1>2 DEF Registered
<1> QED
  BY <1>1, <1>4, <1>5, <1>6

(* A type has the shared state that the last call gave it. *)
LEMMA StateIsTheLast ==
  ASSUME CallsOK(calls), BuilderOK(builder, calls, Len(calls)), NEW t \in DOMAIN builder.state
  PROVE  builder.state[t] =
           calls[Max({i \in DOMAIN calls : calls[i].field = "state" /\ calls[i].key = t})].value
<1> DEFINE w == Writes(KeysOf(calls, "state"), Len(calls), t)
<1>1. w # {} /\ builder.state[t] = ValuesOf(calls)[Max(w)]
  BY DEF BuilderOK, Follows
<1>2. w = {i \in DOMAIN calls : calls[i].field = "state" /\ calls[i].key = t}
  BY KeysWrite
<1>3. Max(w) \in DOMAIN calls
  BY <1>1, LastOfWrites
<1> HIDE DEF w
<1>4. ValuesOf(calls)[Max(w)] = calls[Max(w)].value
  BY <1>3 DEF ValuesOf
<1> QED
  BY <1>1, <1>2, <1>4

(* The last word on a knob, as the properties have it. *)
LEMMA LastWordIs ==
  ASSUME CallsOK(calls), NEW field, NEW default
  PROVE  LastWord(field, default) = WordBy(calls, Len(calls), field, default)
<1>1. {i \in DOMAIN calls : Sets(calls[i], field)} = Setting(calls, Len(calls), field)
  BY DEF CallsOK, Setting
<1> QED
  BY <1>1 DEF LastWord, WordBy

(* What is known once build has returned. *)
LEMMA BuiltParts ==
  ASSUME SetupOK, phase \notin Setups
  PROVE  /\ CallsOK(calls) /\ BuilderOK(builder, calls, Len(calls)) /\ AppParts(app, builder)
         /\ MountedApp(app, builder, Declared) \/ UnmountedApp(app, builder)
<1>1. CallsOK(calls) /\ BuilderOK(builder, calls, Len(calls)) /\ app \in Builds(builder)
  BY DEF SetupOK
<1> QED
  BY <1>1, BuiltIs

(* An entry of the table, and the declaration it stands for. *)
LEMMA EntryOfTable ==
  ASSUME NEW table, NEW b, NEW ds, TableOK(table, b, ds), NEW i \in DOMAIN table
  PROVE  /\ i \in 1 .. Len(table) /\ table[i] = TableEntry(b, ds[i])
         /\ Backed(b, ds[i]) /\ Resolves(b, ds[i]) /\ ~Clashes(ds, i)
<1>1. i \in 1 .. Len(table)
  BY SeqFacts DEF TableOK
<1> QED
  BY <1>1 DEF TableOK

(* A pool is the one registered last. *)
LEMMA PoolsHold == IInv => PoolsAreTheLastRegistered
<1> SUFFICES ASSUME SetupOK, Built, NEW i \in DOMAIN app.table
             PROVE  app.table[i].pool = Pool(LastUrls(app.table[i].service))
  BY DEF IInv, PoolsAreTheLastRegistered
<1>1. CallsOK(calls) /\ BuilderOK(builder, calls, Len(calls))
  BY BuiltParts DEF Built, Setups
<1>2. TableOK(app.table, builder, Declared)
  BY TableFacts DEF Built, MountedApp
<1>3. /\ app.table[i] = TableEntry(builder, Declared[i]) /\ Backed(builder, Declared[i])
  BY <1>2, EntryOfTable
<1> DEFINE s == Declared[i].service.service
<1>4. app.table[i].service = s /\ app.table[i].pool = Pool(builder.backends[s])
  BY <1>3 DEF TableEntry
<1>5. s \in DOMAIN builder.backends
  BY <1>3 DEF Backed
<1> HIDE DEF s
<1>6. builder.backends[s] = LastUrls(s)
  BY <1>1, <1>5, BackendsAreTheLast
<1> QED
  BY <1>4, <1>6

(* A knob of the upstream is always at some list of configurers. *)
LEMMA ConfigurersAreLists ==
  ASSUME CallsOK(calls), NEW field \in {"client_configurers", "connector_configurers"}
  PROVE  IsSequence(WordBy(calls, Len(calls), field, NewUpstream[field]))
<1> DEFINE at == Setting(calls, Len(calls), field)
           c == calls[Max(at)]
<1>1. CASE at = {}
  <2>1. WordBy(calls, Len(calls), field, NewUpstream[field]) = <<>>
    BY <1>1 DEF WordBy, NewUpstream
  <2> QED
    BY <2>1 DEF IsSequence
<1>2. CASE at # {}
  <2>1. at \subseteq 0 .. Len(calls) /\ Len(calls) \in Nat
    BY DEF Setting, CallsOK
  <2>2. Max(at) \in at
    BY <1>2, <2>1, GreatestMember
  <2>3. Max(at) \in 1 .. Len(calls) /\ Sets(c, field)
    BY <2>2 DEF Setting
  <2>4. SetterTakes(c)
    BY <2>3 DEF CallsOK, CallOK
  <2>5. c.field = "upstream"
    BY <2>3, <2>4 DEF Sets, SetterTakes
  <2>6. IsSequence(c.value[field])
    BY <2>4, <2>5 DEF SetterTakes
  <2>7. WordBy(calls, Len(calls), field, NewUpstream[field]) = c.value[field]
    BY <1>2, <2>5 DEF WordBy
  <2> QED
    BY <2>6, <2>7
<1> QED
  BY <1>1, <1>2

(* A knob is where the last call on it left it. *)
LEMMA KnobsHold == IInv => KnobsFollowTheLastCall
<1> SUFFICES ASSUME SetupOK, Built PROVE KnobsFollowTheLastCall
  BY DEF IInv, KnobsFollowTheLastCall
<1> DEFINE u == builder.upstream
           cc == LastWord("connector_configurers", <<>>)
           hc == LastWord("client_configurers", <<>>)
           knob(f) == LastWord(f, NewUpstream[f])
<1>1. CallsOK(calls) /\ BuilderOK(builder, calls, Len(calls)) /\ AppParts(app, builder)
  BY BuiltParts DEF Built, Setups
<1>2. ASSUME NEW f \in DOMAIN NewUpstream PROVE u[f] = knob(f)
  <2>1. u[f] = WordBy(calls, Len(calls), f, NewUpstream[f])
    BY <1>1 DEF BuilderOK
  <2> QED
    BY <1>1, <2>1, LastWordIs
<1>3. /\ NewUpstream.connector_configurers = <<>> /\ NewUpstream.client_configurers = <<>>
      /\ {"connector_configurers", "client_configurers", "tcp_nodelay", "connect_timeout",
          "pool_idle_timeout", "pool_max_idle_per_host"} \subseteq DOMAIN NewUpstream
  BY DEF NewUpstream
<1>4. u.connector_configurers = cc /\ u.client_configurers = hc
  BY <1>2, <1>3
<1>5. IsSequence(cc) /\ IsSequence(hc)
  <2>1. ASSUME NEW f \in {"client_configurers", "connector_configurers"}
        PROVE  IsSequence(LastWord(f, <<>>))
    BY <1>1, <1>3, LastWordIs, ConfigurersAreLists
  <2> QED
    BY <2>1
<1>6. app.client = BuildClient(u)
  BY <1>1 DEF AppParts
<1>7. app.client.connector =
        [nodelay         |-> LastConfigured(cc, "nodelay", knob("tcp_nodelay")),
         connect_timeout |-> LastConfigured(cc, "connect_timeout", knob("connect_timeout")),
         keepalive       |-> LastConfigured(cc, "keepalive", knob("pool_idle_timeout"))]
  <2> DEFINE settings == [nodelay |-> u.tcp_nodelay, connect_timeout |-> u.connect_timeout,
                          keepalive |-> u.pool_idle_timeout]
  <2>1. app.client.connector = RunConfigurers(settings, cc)
    BY <1>4, <1>6 DEF BuildClient
  <2>2. settings = [x \in DOMAIN settings |-> settings[x]]
    OBVIOUS
  <2>3. RunConfigurers(settings, cc) =
          [x \in DOMAIN settings |-> LastConfigured(cc, x, settings[x])]
    <3> HIDE DEF settings, cc
    <3> QED
      BY <1>5, <2>2, LastConfigurerDecides
  <2>4. /\ u.tcp_nodelay = knob("tcp_nodelay")
        /\ u.connect_timeout = knob("connect_timeout")
        /\ u.pool_idle_timeout = knob("pool_idle_timeout")
    BY <1>2, <1>3
  <2> HIDE DEF u, cc, knob
  <2>5. [x \in DOMAIN settings |-> LastConfigured(cc, x, settings[x])] =
          [nodelay         |-> LastConfigured(cc, "nodelay", u.tcp_nodelay),
           connect_timeout |-> LastConfigured(cc, "connect_timeout", u.connect_timeout),
           keepalive       |-> LastConfigured(cc, "keepalive", u.pool_idle_timeout)]
    OBVIOUS
  <2> QED
    BY <2>1, <2>3, <2>4, <2>5
<1>8. app.client.client =
        [pool_idle_timeout      |->
            LastConfigured(hc, "pool_idle_timeout", knob("pool_idle_timeout")),
         pool_max_idle_per_host |->
             LastConfigured(hc, "pool_max_idle_per_host", knob("pool_max_idle_per_host"))]
  <2> DEFINE settings == [pool_idle_timeout |-> u.pool_idle_timeout,
                          pool_max_idle_per_host |-> u.pool_max_idle_per_host]
  <2>1. app.client.client = RunConfigurers(settings, hc)
    BY <1>4, <1>6 DEF BuildClient
  <2>2. settings = [x \in DOMAIN settings |-> settings[x]]
    OBVIOUS
  <2>3. RunConfigurers(settings, hc) =
          [x \in DOMAIN settings |-> LastConfigured(hc, x, settings[x])]
    <3> HIDE DEF settings, hc
    <3> QED
      BY <1>5, <2>2, LastConfigurerDecides
  <2>4. /\ u.pool_idle_timeout = knob("pool_idle_timeout")
        /\ u.pool_max_idle_per_host = knob("pool_max_idle_per_host")
    BY <1>2, <1>3
  <2> HIDE DEF u, hc, knob
  <2>5. [x \in DOMAIN settings |-> LastConfigured(hc, x, settings[x])] =
          [pool_idle_timeout      |-> LastConfigured(hc, "pool_idle_timeout", u.pool_idle_timeout),
           pool_max_idle_per_host |->
             LastConfigured(hc, "pool_max_idle_per_host", u.pool_max_idle_per_host)]
    OBVIOUS
  <2> QED
    BY <2>1, <2>3, <2>4, <2>5
<1>9. \A f \in {"request_timeout", "map_body_limit", "runtime_observer"} :
        app[f] = LastWord(f, NewBuilder[f])
  <2>1. SUFFICES ASSUME NEW f \in {"request_timeout", "map_body_limit", "runtime_observer"}
                 PROVE  app[f] = LastWord(f, NewBuilder[f])
    OBVIOUS
  <2>2. app[f] = builder[f]
    BY <1>1 DEF AppParts
  <2>3. builder[f] = WordBy(calls, Len(calls), f, NewBuilder[f])
    BY <1>1 DEF BuilderOK, Plain
  <2> QED
    BY <1>1, <2>2, <2>3, LastWordIs
<1>10. \A t \in DOMAIN app.state :
         app.state[t] = calls[Max({i \in DOMAIN calls : /\ calls[i].field = "state"
                                                        /\ calls[i].key = t})].value
  <2>1. app.state = builder.state
    BY <1>1 DEF AppParts
  <2> QED
    BY <1>1, <2>1, StateIsTheLast
<1> QED
  BY <1>7, <1>8, <1>9, <1>10 DEF KnobsFollowTheLastCall

(* The policy of a declaration, as the properties have it. *)
LEMMA PolicyOfDeclaration ==
  ASSUME CallsOK(calls), BuilderOK(builder, calls, Len(calls)), NEW d
  PROVE  /\ Resolves(builder, d) <=> HasPolicy(d)
         /\ HasPolicy(d) =>
              ResolvePolicy(builder, PolicyName(d))[1] =
                IF PolicyName(d) = <<>> THEN LastWord("default_policy", NewBuilder.default_policy)
                                        ELSE LastPolicy(PolicyName(d)[1])
<1> DEFINE name == PolicyName(d)
<1>1. builder.default_policy = LastWord("default_policy", NewBuilder.default_policy)
  <2>1. builder.default_policy =
          WordBy(calls, Len(calls), "default_policy", NewBuilder.default_policy)
    BY DEF BuilderOK, Plain
  <2> QED
    BY <2>1, LastWordIs
<1>2. /\ name[1] \in DOMAIN builder.policies <=> Registered(name[1])
      /\ name[1] \in DOMAIN builder.policies => builder.policies[name[1]] = LastPolicy(name[1])
  BY PoliciesAreTheLast
<1>3. HasPolicy(d) <=> (name # <<>> => Registered(name[1]))
  BY DEF HasPolicy
<1>4. Resolves(builder, d) <=> ResolvePolicy(builder, name) # <<>>
  BY DEF Resolves
<1> HIDE DEF name
<1>5. CASE name = <<>>
  <2>1. ResolvePolicy(builder, name) = <<builder.default_policy>>
    BY <1>5 DEF ResolvePolicy
  <2> QED
    BY <1>1, <1>3, <1>4, <1>5, <2>1 DEF name
<1>6. CASE name # <<>> /\ name[1] \in DOMAIN builder.policies
  <2>1. ResolvePolicy(builder, name) = <<builder.policies[name[1]]>>
    BY <1>6 DEF ResolvePolicy
  <2> QED
    BY <1>2, <1>3, <1>4, <1>6, <2>1 DEF name
<1>7. CASE name # <<>> /\ name[1] \notin DOMAIN builder.policies
  <2>1. ResolvePolicy(builder, name) = <<>>
    BY <1>7 DEF ResolvePolicy
  <2> QED
    BY <1>2, <1>3, <1>4, <1>7, <2>1 DEF name
<1> QED
  BY <1>5, <1>6, <1>7

(* Two declarations collide, or neither does. *)
LEMMA CollideBothWays ==
  ASSUME NEW d, NEW e
  PROVE  Collide(d, e) <=> Collide(e, d)
BY DEF Collide

(* A built app has all that is declared. *)
LEMMA AppsAreComplete == IInv => BuiltAppsAreComplete
<1> SUFFICES ASSUME SetupOK, Built PROVE BuiltAppsAreComplete
  BY DEF IInv, BuiltAppsAreComplete
<1>1. CallsOK(calls) /\ BuilderOK(builder, calls, Len(calls))
  BY BuiltParts DEF Built, Setups
<1>2. TableOK(app.table, builder, Declared)
  BY TableFacts DEF Built, MountedApp
<1>3. Len(app.table) = Len(Declared) /\ IsList(app.table) /\ IsList(Declared)
  BY TableFacts DEF Built
<1>4. /\ DOMAIN app.table = DOMAIN Declared /\ DOMAIN Declared = 1 .. Len(Declared)
      /\ Len(Declared) \in Nat
  BY <1>3, SeqFacts
<1>5. ASSUME NEW i \in DOMAIN Declared
      PROVE  /\ app.table[i] = TableEntry(builder, Declared[i])
             /\ Resolves(builder, Declared[i]) /\ ~Clashes(Declared, i)
  BY <1>2, <1>4, EntryOfTable
<1>6. ASSUME NEW i \in DOMAIN Declared
      PROVE  /\ app.table[i].service = Declared[i].service.service
             /\ app.table[i].full = FullPath(Declared[i])
             /\ HasPolicy(Declared[i])
             /\ app.table[i].policy =
                  IF PolicyName(Declared[i]) = <<>>
                  THEN LastWord("default_policy", NewBuilder.default_policy)
                  ELSE LastPolicy(PolicyName(Declared[i])[1])
  <2> DEFINE d == Declared[i]
  <2>1. app.table[i] = TableEntry(builder, d) /\ Resolves(builder, d)
    BY <1>5
  <2> HIDE DEF d
  <2>2. /\ app.table[i].service = d.service.service /\ app.table[i].full = FullPath(d)
        /\ app.table[i].policy = ResolvePolicy(builder, PolicyName(d))[1]
    BY <2>1 DEF TableEntry
  <2>3. HasPolicy(d)
    BY <1>1, <2>1, PolicyOfDeclaration
  <2>4. ResolvePolicy(builder, PolicyName(d))[1] =
          IF PolicyName(d) = <<>> THEN LastWord("default_policy", NewBuilder.default_policy)
                                  ELSE LastPolicy(PolicyName(d)[1])
    BY <1>1, <2>3, PolicyOfDeclaration
  <2> QED
    BY <2>2, <2>3, <2>4 DEF d
<1>7. ASSUME NEW i \in DOMAIN Declared, NEW j \in DOMAIN Declared, i < j
      PROVE  ~Collide(Declared[i], Declared[j])
  <2>1. i \in 1 .. j - 1
    BY <1>4, <1>7
  <2> QED
    BY <1>5, <2>1 DEF Clashes
<1>8. ASSUME NEW i \in DOMAIN Declared, NEW j \in DOMAIN Declared, i # j
      PROVE  ~Collide(Declared[i], Declared[j])
  <2>1. i < j \/ j < i
    BY <1>4, <1>8
  <2> QED
    BY <1>7, <2>1, CollideBothWays
<1> QED
  BY <1>3, <1>6, <1>8 DEF BuiltAppsAreComplete

(* A failed build has its reason. *)
LEMMA RefusalsHold == IInv => RefusalsHaveACause
<1> SUFFICES ASSUME SetupOK, phase \in Failed PROVE RefusalsHaveACause
  BY DEF IInv, RefusalsHaveACause, Failed
<1> DEFINE backed(s) == \E i \in DOMAIN calls : Registers(calls[i], s)
           bad(s) == backed(s) /\ BadUrls(LastUrls(s)) # {}
           kind == app.outcome.kind
           about == app.outcome.about
           n == Len(app.table) + 1
<1>1. /\ CallsOK(calls) /\ BuilderOK(builder, calls, Len(calls))
      /\ MountedApp(app, builder, Declared) \/ UnmountedApp(app, builder)
  BY BuiltParts DEF Failed, Setups
<1>2. app.outcome.result = phase
  BY DEF SetupOK
<1>3. \A s : s \in DOMAIN builder.backends <=> backed(s)
  BY <1>1, BackendsAreTheLast
<1>4. Mounts = builder.mounted
  BY <1>1, MountedIs
<1>5. CASE UnmountedApp(app, builder)
  <2>1. PICK s \in DOMAIN builder.backends :
          /\ BadUrls(builder.backends[s]) # {}
          /\ app.outcome = Outcome("error", "InvalidBackendUri", s)
    BY <1>5 DEF UnmountedApp, UriFailures
  <2>2. app.outcome.result = "error" /\ kind = "InvalidBackendUri" /\ about = s
    BY <2>1 DEF Outcome
  <2>3. builder.backends[s] = LastUrls(s)
    BY <1>1, BackendsAreTheLast
  <2>4. bad(about)
    BY <1>3, <2>1, <2>2, <2>3
  <2> QED
    BY <1>2, <2>2, <2>4 DEF RefusalsHaveACause
<1>6. CASE MountedApp(app, builder, Declared) /\ phase = "error"
  <2>1. BackendMissing(app.outcome, builder) \/ PolicyMissing(app.outcome, builder, Declared)
    BY <1>2, <1>6 DEF MountedApp
  <2>2. CASE BackendMissing(app.outcome, builder)
    <3>1. /\ kind = "BackendNotRegistered" /\ ~backed(about)
          /\ \E i \in DOMAIN Mounts : Mounts[i].service = about
      BY <1>3, <1>4, <2>2 DEF BackendMissing
    <3> QED
      BY <1>6, <3>1 DEF RefusalsHaveACause
  <2>3. CASE PolicyMissing(app.outcome, builder, Declared)
    <3>1. kind = "PolicyNotRegistered"
      BY <2>3 DEF PolicyMissing
    <3>2. PICK i \in 1 .. Len(Declared) :
            PolicyName(Declared[i])[1] = about /\ ~Resolves(builder, Declared[i])
      BY <2>3 DEF PolicyMissing
    <3>3. ~HasPolicy(Declared[i])
      BY <1>1, <3>2, PolicyOfDeclaration
    <3>4. i \in DOMAIN Declared
      BY <1>1, AppIsMounted, SeqFacts
    <3> QED
      BY <1>6, <3>1, <3>2, <3>3, <3>4 DEF RefusalsHaveACause
  <2> QED
    BY <2>1, <2>2, <2>3
<1>7. CASE MountedApp(app, builder, Declared) /\ phase = "panicked"
  <2>1. PanicsAt(n, builder, Declared) /\ TableOK(app.table, builder, Declared)
    BY <1>2, <1>7 DEF MountedApp
  <2>2. \/ Unmountable(Declared[n])
        \/ \E i \in 1 .. n - 1 : Collide(Declared[i], Declared[n])
    BY <2>1 DEF PanicsAt, Clashes
  <2>3. ASSUME NEW i \in 1 .. n
        PROVE  Resolves(builder, Declared[i]) /\ Backed(builder, Declared[i])
    <3>1. CASE i = n
      BY <2>1, <3>1 DEF PanicsAt
    <3>2. CASE i # n
      <4>1. Len(app.table) \in Nat /\ DOMAIN app.table = 1 .. Len(app.table)
        BY <2>1, SeqFacts DEF TableOK
      <4>2. i \in DOMAIN app.table
        BY <3>2, <4>1
      <4> QED
        BY <2>1, <4>2, EntryOfTable
    <3> QED
      BY <3>1, <3>2
  <2>4. ASSUME NEW i \in 1 .. n
        PROVE  HasPolicy(Declared[i]) /\ backed(Declared[i].service.service)
    <3>1. HasPolicy(Declared[i])
      BY <1>1, <2>3, PolicyOfDeclaration
    <3>2. Declared[i].service.service \in DOMAIN builder.backends
      BY <2>3 DEF Backed
    <3> QED
      BY <1>3, <3>1, <3>2
  <2> QED
    BY <1>7, <2>2, <2>4 DEF RefusalsHaveACause
<1> QED
  BY <1>1, <1>5, <1>6, <1>7 DEF Failed

(* What is known of a request that was sent on. *)
LEMMA SentIsOK ==
  ASSUME IInv, NEW e \in Sent
  PROVE  /\ PickOK(Meta(e), e.key, e.backend, program)
         /\ TakenBy(Meta(e), e.request, e.key) /\ WayOK(e, Meta(e)) /\ MetaOK(Meta(e))
<1>1. PICK i \in DOMAIN log : e = log[i]
  BY DEF Sent, Answered
<1>2. e.route # 0 /\ e.outcome # "no_backends_selected"
  BY DEF Sent
<1>3. i \in 1 .. Len(log)
  BY SeqFacts DEF IInv, TrafficOK
<1>4. EntryOK(e, app.table, program)
  BY <1>1, <1>3 DEF IInv, TrafficOK
<1>5. SetupOK /\ phase \in {"built"} \union Bound
  <2>1. Len(log) # 0
    BY <1>3, SeqFacts DEF IInv, TrafficOK
  <2>2. log # <<>>
    BY <2>1, NothingIsList
  <2> QED
    BY <2>2 DEF IInv, TrafficOK, Bound
<1> QED
  BY <1>2, <1>4, <1>5, MetasAreOK DEF EntryOK, Meta

(* A key moves to a new backend or stays. *)
LEMMA KeysHold == IInv => KeysMoveOnlyToTheNewBackend
<1> SUFFICES ASSUME IInv, NEW e \in Sent, Meta(e).policy.balancer = "ConsistentHash",
                    e.key # <<>>
             PROVE  e.backend \in {Len(Meta(e).pool) - 1,
                                  JumpOf(Xxh3(e.key), Len(Meta(e).pool) - 1)}
  BY DEF KeysMoveOnlyToTheNewBackend
<1>1. PickOK(Meta(e), e.key, e.backend, program)
  BY SentIsOK
<1>2. Xxh3(e.key) = HashOf(program, e.key)
  BY DEF Xxh3, HashOf
<1> QED
  BY <1>1, <1>2 DEF PickOK, Hashed

(* What is sent on, and sent back, is what is end to end. *)
LEMMA HeadersHold == IInv => OnlyEndToEndHeadersPass
<1> SUFFICES ASSUME IInv, NEW e \in Sent, e.outcome = "forwarded"
             PROVE  /\ DOMAIN e.headers = EndToEnd(e.request.headers) \union {"host"}
                    /\ \A h \in DOMAIN e.headers \ {"host"} : e.headers[h] = e.request.headers[h]
                    /\ e.headers["host"] = <<HeaderValue(Meta(e).pool[e.backend + 1].authority)>>
                    /\ e.answer = Restrict(e.upstream, EndToEnd(e.upstream))
  BY DEF OnlyEndToEndHeadersPass
<1> DEFINE given == e.request.headers
           base == Meta(e).pool[e.backend + 1]
           kept == EndToEnd(given)
<1>1. e.headers = UpstreamHeaders(given, base) /\ e.answer = StripHopHeaders(e.upstream)
  BY SentIsOK DEF WayOK
<1>2. \A headers : StripHopHeaders(headers) = Restrict(headers, EndToEnd(headers))
  BY DEF StripHopHeaders, EndToEnd
<1>3. e.answer = Restrict(e.upstream, EndToEnd(e.upstream))
  BY <1>1, <1>2
<1>4. e.headers = Over(Restrict(given, kept), "host", <<HeaderValue(base.authority)>>)
  BY <1>1, <1>2 DEF UpstreamHeaders, WithHost
<1> HIDE DEF given, base, kept
<1>5. /\ DOMAIN e.headers = kept \union {"host"}
      /\ \A h \in DOMAIN e.headers \ {"host"} : e.headers[h] = given[h]
      /\ e.headers["host"] = <<HeaderValue(base.authority)>>
  BY <1>4 DEF Over, Restrict
<1> QED
  BY <1>3, <1>5 DEF given, base, kept

(* A list is one over any set that has its members. *)
LEMMA ListAmong ==
  ASSUME NEW S, NEW T, NEW s \in Seq(S), \A i \in 1 .. Len(s) : s[i] \in T
  PROVE  s \in Seq(T)
<1>1. Len(s) \in Nat /\ s \in [1 .. Len(s) -> S]
  BY LenProperties
<1>2. s \in [1 .. Len(s) -> T]
  BY <1>1
<1> QED
  BY <1>1, <1>2, SeqDef

(* So it is one without a thing that is not among them. *)
LEMMA ListWithout ==
  ASSUME NEW S, NEW x, NEW s \in Seq(S), x \notin Range(s)
  PROVE  s \in Seq(S \ {x})
<1> DEFINE T == S \ {x}
<1>1. Len(s) \in Nat /\ s \in [1 .. Len(s) -> S]
  BY LenProperties
<1>2. \A i \in 1 .. Len(s) : s[i] \in T
  BY <1>1 DEF Range
<1> HIDE DEF T
<1>3. s \in Seq(T)
  BY <1>2, ListAmong
<1> QED
  BY <1>3 DEF T

(* And a list over a set without a thing has it not among its members. *)
LEMMA WithoutIn ==
  ASSUME NEW S, NEW x, NEW s \in Seq(S \ {x})
  PROVE  x \notin Range(s)
<1> DEFINE T == S \ {x}
<1>1. s \in Seq(T) /\ x \notin T
  OBVIOUS
<1> HIDE DEF T
<1>2. \A i \in DOMAIN s : s[i] \in T
  BY <1>1, LenProperties, ElementOfSeq
<1> QED
  BY <1>1, <1>2 DEF Range

(* The tokens of a text; that "/" is a string the provers do not know. *)
Tokens == STRING \union {"/"}

(* A text is a list of them. *)
LEMMA TextIsTokens ==
  ASSUME NEW text, IsText(text)
  PROVE  text \in Seq(Tokens)
<1>1. text \in Seq(STRING)
  BY DEF IsText
<1>2. \A i \in 1 .. Len(text) : text[i] \in STRING
  BY <1>1, LenProperties, ElementOfSeq
<1>3. \A i \in 1 .. Len(text) : text[i] \in Tokens
  BY <1>2 DEF Tokens
<1> QED
  BY <1>1, <1>3, ListAmong

(* A plain prefix is literal, as the lemmas about paths say it. *)
LEMMA PlainIsLiteral ==
  ASSUME NEW prefix, PlainPrefix(prefix)
  PROVE  Literally(prefix)
<1>1. ASSUME prefix # <<>> PROVE prefix[Len(prefix)] # "/"
  BY <1>1 DEF PlainPrefix, Last
<1>2. ASSUME prefix # <<>>, NEW i \in DOMAIN prefix PROVE prefix[i] # "{"
  BY <1>2 DEF PlainPrefix, Range
<1> QED
  BY <1>1, <1>2 DEF Literally

(* What a request that was sent on has to do with texts. *)
LEMMA SentIsText ==
  ASSUME IInv, NEW e \in Sent
  PROVE  /\ IsText(e.request.path) /\ UriText(e.request.path)
         /\ e.request.path \in Seq(Tokens)
         /\ Meta(e).prefix \in Seq(Tokens) /\ Meta(e).route_path \in Seq(Tokens)
         /\ Meta(e).full = Join(Meta(e).prefix, Meta(e).route_path)
         /\ PathMatches(Join(Meta(e).prefix, Meta(e).route_path), e.request.path)
<1>1. TakenBy(Meta(e), e.request, e.key) /\ MetaOK(Meta(e))
  BY SentIsOK
<1>2. IsText(e.request.path) /\ UriText(e.request.path)
  BY <1>1, GatewayAssumption DEF TakenBy
<1>3. IsText(Meta(e).prefix) /\ IsText(Meta(e).route_path)
  BY <1>1 DEF MetaOK, RewriteOK
<1> QED
  BY <1>1, <1>2, <1>3, TextIsTokens DEF TakenBy, MetaOK

(* A sticky key is the parameter that the path has for it. *)
LEMMA StickyHold == IInv => StickyKeyIsTheParameter
<1> SUFFICES ASSUME IInv, NEW e \in Sent, Meta(e).policy.router.kind = "PathSticky",
                    Meta(e).policy.router.name \in ParamNames(Meta(e).route_path),
                    PlainPrefix(Meta(e).prefix)
             PROVE  e.key = Captured(Meta(e).full, e.request.path, Meta(e).policy.router.name)
  BY DEF StickyKeyIsTheParameter
<1> DEFINE meta == Meta(e)
           p == meta.prefix
           route == meta.route_path
           path == e.request.path
           name == meta.policy.router.name
<1>1. e.key = Affinity(meta, e.request)
  BY SentIsOK DEF TakenBy
<1>2. e.key = ExtractParam(route, p, path, name)
  BY <1>1 DEF Affinity
<1>3. /\ p \in Seq(Tokens) /\ route \in Seq(Tokens) /\ path \in Seq(Tokens)
      /\ meta.full = Join(p, route) /\ PathMatches(Join(p, route), path)
  BY SentIsText
<1>4. PlainPrefix(p) /\ name \in ParamNames(route)
  OBVIOUS
<1>5. "/" \in Tokens
  BY DEF Tokens
<1> HIDE DEF p, route, path, name, meta
<1>6. Literally(p)
  BY <1>4, PlainIsLiteral
<1>7. ExtractParam(route, p, path, name) = Captured(Join(p, route), path, name)
  BY <1>3, <1>4, <1>5, <1>6, KeyIsCaptured
<1> QED
  BY <1>2, <1>3, <1>7 DEF meta, path, name

(* A rendered template is a URI's path, and what the route declares. *)
LEMMA TemplateHolds ==
  ASSUME NEW meta, MetaOK(meta), meta.rewrite.kind = "Template",
         PlainPrefix(meta.prefix), PlainPath(meta.full), UriText(meta.to[1]),
         NEW path, IsText(path), UriText(path), PathMatches(meta.full, path)
  PROVE  /\ Rewritable(meta, path)
         /\ RewritePath(meta, path) = SubstitutedIn(meta.to[1], meta.full, path)
<1> DEFINE p == meta.prefix
           route == meta.route_path
           f == Join(p, route)
           to == meta.to[1]
           A == STRING \ {"bad"}
           tpl == Template(route, to)
           stripped == StripPrefix(path, p)
<1>1. /\ IsText(p) /\ IsText(route) /\ meta.full = f /\ IsText(to)
      /\ TemplateCompiles(route, to) /\ meta.rewrite.template = tpl
  BY DEF MetaOK, RewriteOK
<1>2. p \in Seq(Tokens) /\ Literally(p)
  <2>1. IsText(p) /\ PlainPrefix(p)
    BY <1>1
  <2> HIDE DEF p
  <2> QED
    BY <2>1, TextIsTokens, PlainIsLiteral
<1>3. /\ route \in Seq(Tokens) /\ path \in Seq(Tokens) /\ "/" \in Tokens
      /\ path \in Seq(STRING) /\ to \in Seq(STRING)
  <2> HIDE DEF route, to
  <2>1. "/" \in Tokens
    BY DEF Tokens
  <2>2. route \in Seq(Tokens) /\ path \in Seq(Tokens)
    BY <1>1, TextIsTokens
  <2>3. path \in Seq(STRING) /\ to \in Seq(STRING)
    BY <1>1 DEF IsText
  <2> QED
    BY <2>1, <2>2, <2>3
<1>4. path \in Seq(A) /\ to \in Seq(A)
  BY <1>3, ListWithout DEF UriText
<1>5. PathMatches(f, path) /\ PlainPath(f)
  BY <1>1
<1> HIDE DEF f
<1>6. Single(f)
  BY <1>5 DEF PlainPath, Single
<1>7. \A k \in 1 .. Len(Pieces(f)) : IsParam(Pieces(f)[k]) => Braced(Pieces(f)[k])
  <2>1. f \in Seq(Tokens)
    <3>1. f = p \o Rooted(route)
      BY <1>2, JoinIs DEF f
    <3>2. Rooted(route) \in Seq(Tokens)
      BY <1>3, RootedIs
    <3> HIDE DEF p, route
    <3> QED
      BY <1>2, <3>1, <3>2, ConcatProperties
  <2>2. DOMAIN Pieces(f) = 1 .. Len(Pieces(f))
    BY <2>1, PiecesType, LenProperties
  <2> QED
    BY <1>5, <2>2 DEF PlainPath, ParamsIn, Braced
<1> HIDE DEF p, route, to, A, tpl, stripped
<1>8. /\ CapturesMatch(tpl.src, stripped)
      /\ RenderTemplate(tpl, stripped) = SubstitutedIn(to, f, path)
      /\ SubstitutedIn(to, f, path) \in Seq(A)
  BY <1>1, <1>2, <1>3, <1>4, <1>5, <1>6, <1>7, TemplateRenders DEF f, tpl, stripped
<1>9. UriText(RenderTemplate(tpl, stripped))
  BY <1>8, WithoutIn DEF UriText, A
<1>10. Rewritable(meta, path)
  BY <1>1, <1>8, <1>9 DEF Rewritable, stripped, p
<1>11. RewritePath(meta, path) = RenderTemplate(tpl, stripped)
  BY <1>1 DEF RewritePath, stripped, p
<1> QED
  BY <1>1, <1>8, <1>10, <1>11 DEF to

(* A request that was sent on was forwarded where its route says. *)
LEMMA UpstreamHold == IInv => UpstreamPathIsAsDeclared
<1> SUFFICES ASSUME IInv, NEW e \in Sent, PlainPrefix(Meta(e).prefix), PlainPath(Meta(e).full),
                    Meta(e).to # <<>> => UriText(Meta(e).to[1])
             PROVE  e.outcome = "forwarded" /\ e.path = DeclaredPath(e)
  BY DEF UpstreamPathIsAsDeclared
<1> DEFINE meta == Meta(e)
           path == e.request.path
<1>1. MetaOK(meta) /\ WayOK(e, meta)
  BY SentIsOK
<1>2. /\ IsText(path) /\ UriText(path) /\ path \in Seq(Tokens)
      /\ meta.prefix \in Seq(Tokens) /\ meta.route_path \in Seq(Tokens)
      /\ meta.full = Join(meta.prefix, meta.route_path)
      /\ PathMatches(Join(meta.prefix, meta.route_path), path)
  BY SentIsText
<1>3. SUFFICES Rewritable(meta, path) /\ RewritePath(meta, path) = DeclaredPath(e)
  BY <1>1 DEF WayOK
<1>4. CASE meta.to = <<>> /\ meta.rewrite.kind = "StripPrefix"
  <2>1. Literally(meta.prefix) /\ "/" \in Tokens
    BY PlainIsLiteral DEF Tokens
  <2>2. DeclaredPath(e) = Without(meta.prefix, path)
    BY <1>4 DEF DeclaredPath
  <2>3. Rewritable(meta, path) /\ RewritePath(meta, path) = StripPrefix(path, meta.prefix)
    BY <1>4 DEF Rewritable, RewritePath
  <2> HIDE DEF meta, path
  <2>4. StripPrefix(path, meta.prefix) = Without(meta.prefix, path)
    BY <1>2, <2>1, RestIs
  <2> QED
    BY <2>2, <2>3, <2>4
<1>5. CASE /\ meta.to # <<>> /\ "{" \notin Range(meta.to[1])
           /\ meta.rewrite.kind = "Static" /\ meta.rewrite.to = meta.to[1]
  BY <1>5 DEF Rewritable, RewritePath, DeclaredPath
<1>6. CASE /\ meta.to # <<>> /\ "{" \in Range(meta.to[1])
           /\ meta.rewrite.kind = "Template"
  <2>1. /\ Rewritable(meta, path)
        /\ RewritePath(meta, path) = SubstitutedIn(meta.to[1], meta.full, path)
    <3>1. /\ PlainPrefix(meta.prefix) /\ PlainPath(meta.full) /\ UriText(meta.to[1])
          /\ PathMatches(meta.full, path) /\ meta.rewrite.kind = "Template"
      BY <1>2, <1>6
    <3> HIDE DEF meta, path
    <3> QED
      BY <1>1, <1>2, <3>1, TemplateHolds
  <2>2. DeclaredPath(e) = Substituted(meta.to[1], e)
    BY <1>6 DEF DeclaredPath
  <2>3. Substituted(meta.to[1], e) = SubstitutedIn(meta.to[1], meta.full, path)
    BY DEF Substituted, SubstitutedIn
  <2> QED
    BY <2>1, <2>2, <2>3
<1> QED
  BY <1>1, <1>4, <1>5, <1>6 DEF MetaOK, RewriteOK

(***************************************************************************)
(* Every variable of the program holds what it is for; in particular a     *)
(* request that has picked a backend has picked one of its route's pool,   *)
(* so that the `pool.get` of dispatch.rs finds it.                         *)
(***************************************************************************)
THEOREM TypesAreRight == Spec => []TypeOK
BY TypesHold, Invariance, PTL

(***************************************************************************)
(* In every app that was built, a route balances over the URLs of the last *)
(* `backend` or `mount_service` call of its service, whatever was mounted  *)
(* before or after it (app/build.rs).                                      *)
(***************************************************************************)
THEOREM PoolsAreRight == Spec => []PoolsAreTheLastRegistered
BY PoolsHold, Invariance, PTL

(***************************************************************************)
(* Every knob of a built app is where the last call on it left it, and a   *)
(* configurer of the upstream in force is never overwritten (app/build.rs, *)
(* app/upstream.rs).                                                       *)
(***************************************************************************)
THEOREM KnobsAreRight == Spec => []KnobsFollowTheLastCall
BY KnobsHold, Invariance, PTL

(***************************************************************************)
(* A built app has every route that was declared, in order, each under its *)
(* policy, and no two of them collide (mount_routes in app/build.rs).      *)
(***************************************************************************)
THEOREM BuiltIsComplete == Spec => []BuiltAppsAreComplete
BY AppsAreComplete, Invariance, PTL

(***************************************************************************)
(* `build` fails for the reason its error gives, and panics only where     *)
(* axum or http does (app/build.rs).                                       *)
(***************************************************************************)
THEOREM RefusalsAreJustified == Spec => []RefusalsHaveACause
BY RefusalsHold, Invariance, PTL

(***************************************************************************)
(* A gateway that listens does so on a socket that was configured as its   *)
(* ServeConfig says, before bind where that matters (serve.rs).            *)
(***************************************************************************)
THEOREM ListenersAreConfigured == Spec => []ListenerIsAsConfigured
<1>1. IInv => ListenerIsAsConfigured
  BY SocketIsAsConfigured DEF IInv
<1> QED
  BY <1>1, Invariance, PTL

(***************************************************************************)
(* A request with an affinity key goes to the last backend of its pool, or *)
(* to where the pool without that backend sends it (consistent_hash.rs,    *)
(* through the dispatch of app/dispatch.rs).                               *)
(***************************************************************************)
THEOREM KeysStay == Spec => []KeysMoveOnlyToTheNewBackend
BY KeysHold, Invariance, PTL

(***************************************************************************)
(* What is forwarded, and what is returned, has the end-to-end headers     *)
(* that came in, and no others but the backend's Host (strip_hop_headers   *)
(* in proxy.rs).                                                           *)
(***************************************************************************)
THEOREM HeadersAreEndToEnd == Spec => []OnlyEndToEndHeadersPass
BY HeadersHold, Invariance, PTL

(***************************************************************************)
(* The key of a path-sticky route is the segment that the router matched   *)
(* with the parameter, as it was sent and not percent-decoded, whatever    *)
(* prefix stands before it (extract_param in path_sticky.rs).              *)
(***************************************************************************)
THEOREM StickyKeysAreParameters == Spec => []StickyKeyIsTheParameter
BY StickyHold, Invariance, PTL

(***************************************************************************)
(* A request that a route took is forwarded to the path that the route     *)
(* declares: its own without the prefix, `to`, or `to` with its parameters *)
(* replaced by the segments matched with them (template.rs, proxy.rs).     *)
(***************************************************************************)
THEOREM PathsAreAsDeclared == Spec => []UpstreamPathIsAsDeclared
BY UpstreamHold, Invariance, PTL

=============================================================================
