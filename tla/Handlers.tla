------------------------------ MODULE Handlers ------------------------------
(***************************************************************************)
(* #[apigate::hook] and #[apigate::map] (expand.rs): which signatures the  *)
(* macros accept and what they bind each parameter to.  A parameter is its *)
(* form and the type behind it; peeled parentheses, lifetimes and spelling *)
(* of paths are left out.                                                  *)
(***************************************************************************)
EXTENDS Sequences, SequencesExt, RequestScope

Special == {"PartsCtx", "RequestScope", "RawBody"}
Forms   == {"own", "ref", "mut", "self"}
Param(form, type) == [form |-> form, type |-> type]
Params  == [form : Forms \ {"self"}, type : DataTypes \union Special]
           \union {Param("self", "PartsCtx")}

Signatures == [macro : {"hook", "map"}, params : Seq(Params), isAsync : BOOLEAN,
               output : {"unit", "value", "undeclared"}]
Signature(macro, params, isAsync, output) ==
  [macro |-> macro, params |-> params, isAsync |-> isAsync, output |-> output]

(* classify_param and classify_ref_param. *)
Source(p) ==
  CASE p.type \in {"PartsCtx", "RequestScope"} /\ p.form = "mut" -> p.type
    [] p.type = "RawBody"  /\ p.form = "own" -> "RawBody"
    [] p.type \in DataTypes /\ p.form = "own" -> "Take"
    [] p.type \in DataTypes /\ p.form = "ref" -> "Ref"
    [] p.type \in DataTypes /\ p.form = "mut" -> "Mut"
    [] OTHER -> "error"

Owned(p) == Source(p) \in {"Take", "RawBody"}

(* build_param_plans: a map keeps its first owned parameter as the input,  *)
(* everything else is a plan.                                              *)
InputIndex(sig) ==
  LET owned == {i \in DOMAIN sig.params : Owned(sig.params[i])}
  IN  IF sig.macro = "map" /\ owned # {} THEN Min(owned) ELSE 0
Input(sig) == sig.params[InputIndex(sig)]
Plans(sig) == IF InputIndex(sig) = 0 THEN sig.params
                                     ELSE RemoveAt(sig.params, InputIndex(sig))

(* The plans of one source, in the order of the parameters. *)
PlansOf(sig, source) ==
  LET plans == Plans(sig)
      upTo[k \in 0 .. Len(plans)] ==
        IF k = 0 THEN <<>>
        ELSE IF Source(plans[k]) = source THEN Append(upTo[k - 1], plans[k]) ELSE upTo[k - 1]
  IN  upTo[Len(plans)]

CountOf(sig, source) == Len(PlansOf(sig, source))

(* What each parameter must be on its own ... *)
WellFormed(sig) ==
  /\ sig.isAsync
  /\ \A i \in DOMAIN sig.params :
       /\ sig.params[i].form # "self"
       /\ Source(sig.params[i]) # "error"
       /\ sig.macro = "hook" => Source(sig.params[i]) # "RawBody"
  /\ sig.macro = "map" => InputIndex(sig) # 0 /\ sig.output # "undeclared"

(* ... and validate_plans: what they may not be together. *)
ValidatePlansIgnoresScope(sig) ==
  /\ CountOf(sig, "PartsCtx") <= 1
  /\ CountOf(sig, "RequestScope") <= 1
  /\ CountOf(sig, "Mut") <= 1
  /\ ~(CountOf(sig, "Mut") > 0 /\ CountOf(sig, "Ref") > 0)

ValidatePlans(sig) ==
  /\ CountOf(sig, "PartsCtx") <= 1
  /\ CountOf(sig, "RequestScope") <= 1
  /\ CountOf(sig, "Mut") <= 1
  /\ ~(CountOf(sig, "RequestScope") > 0
       /\ (CountOf(sig, "Ref") > 0 \/ CountOf(sig, "Mut") > 0))
  /\ ~(CountOf(sig, "Mut") > 0 /\ CountOf(sig, "Ref") > 0)

Accepts(sig) == WellFormed(sig) /\ ValidatePlans(sig)

(* build_bindings: one let per plan, grouped by source in this order. *)
Bindings(sig) ==
  PlansOf(sig, "RawBody") \o PlansOf(sig, "PartsCtx") \o PlansOf(sig, "Take")
  \o PlansOf(sig, "Ref") \o PlansOf(sig, "Mut") \o PlansOf(sig, "RequestScope")

(* The generated parameter list: the kept input, then ctx and scope, named *)
(* only when a binding reads them.                                         *)
BindsCtx(sig)   == CountOf(sig, "PartsCtx") > 0
BindsScope(sig) == \E i \in DOMAIN Plans(sig) : Source(Plans(sig)[i]) # "PartsCtx"

-----------------------------------------------------------------------------
(* What the compiler says of the generated lets, given that the user's     *)
(* body uses every parameter after all of them ran: a shared or exclusive  *)
(* loan that a parameter keeps may not meet another use of the same value. *)

Uses(source) ==
  CASE source = "PartsCtx"     -> [of |-> "ctx",   loan |-> "exclusive", kept |-> TRUE]
    [] source = "RequestScope" -> [of |-> "scope", loan |-> "exclusive", kept |-> TRUE]
    [] source = "Mut"          -> [of |-> "scope", loan |-> "exclusive", kept |-> TRUE]
    [] source = "Ref"          -> [of |-> "scope", loan |-> "shared",    kept |-> TRUE]
    [] source = "Take"         -> [of |-> "scope", loan |-> "exclusive", kept |-> FALSE]
    [] source = "RawBody"      -> [of |-> "scope", loan |-> "shared",    kept |-> FALSE]

BorrowsClash(lets) ==
  \E i, j \in DOMAIN lets :
    LET early == Uses(Source(lets[i]))
        late  == Uses(Source(lets[j]))
    IN  /\ i < j /\ early.kept /\ early.of = late.of
        /\ "exclusive" \in {early.loan, late.loan}

-----------------------------------------------------------------------------
(* Running the lets on a scope: the scope they leave, or the first value   *)
(* that was missing.                                                       *)

Found(s, p) ==
  CASE Source(p) \in {"Take", "Ref"} -> Get(s, p.type)
    [] Source(p) = "Mut"             -> GetMut(s, p.type)
    [] Source(p) = "RawBody"         -> IF RawBody(s) = "none" THEN Absent ELSE RawBody(s)
    [] OTHER                         -> "bound"

BindStep(b, p) ==
  IF b.missing THEN b
  ELSE [scope   |-> IF Source(p) = "Take" THEN AfterTake(b.scope, p.type) ELSE b.scope,
        missing |-> Found(b.scope, p) = Absent,
        seen    |-> Append(b.seen, <<Source(p), p.type, Found(b.scope, p)>>)]

Bind(sig, s) ==
  LET lets == Bindings(sig)
      after[k \in 0 .. Len(lets)] ==
        IF k = 0 THEN [scope |-> s, missing |-> FALSE, seen |-> <<>>]
                 ELSE BindStep(after[k - 1], lets[k])
  IN  after[Len(lets)]
=============================================================================
