-------------------------- MODULE RouteAttributes --------------------------
(***************************************************************************)
(* #[apigate::get(...)] and its siblings (route.rs, parse.rs, codegen.rs   *)
(* of apigate-macros): from the attributes on a function to its route and  *)
(* the steps of the pipeline generated for it.  An optional value is a     *)
(* sequence of at most one element.                                        *)
(***************************************************************************)
EXTENDS Handlers

Methods     == {"get", "post", "put", "delete", "patch", "head", "options"}
BodyInQuery(method) == method \in {"get", "head"}

Attr(name, path, args) == [name |-> name, path |-> path, args |-> args]
Arg(key, value)        == [key |-> key, bare |-> FALSE, value |-> value]
Multipart              == [key |-> "multipart", bare |-> TRUE, value |-> "none"]

(* What the grammar of an argument lets its value be. *)
WellTyped(arg) ==
  /\ arg.key \in {"path", "query", "json", "form"} => arg.value \in DataTypes
  /\ arg.key = "before" => arg.value \in Seq(Signatures)
  /\ arg.key = "map" => arg.value \in Signatures

(* RouteArg::parse: what may be assigned and what must stand alone. *)
Assignable == {"to", "policy", "before", "map", "query", "json", "form", "path"}
Parses(arg) == IF arg.bare THEN arg.key = "multipart" ELSE arg.key \in Assignable

(* RouteArgsBuilder: json, form and multipart fill the same slot. *)
EmptyArgs == [to |-> <<>>, policy |-> <<>>, before |-> <<>>, map |-> <<>>,
              query |-> <<>>, data |-> <<>>, path |-> <<>>, valid |-> TRUE]
Slot(arg) == IF arg.key \in {"json", "form", "multipart"} THEN "data" ELSE arg.key
SlotValue(arg) == IF Slot(arg) = "data" THEN [kind |-> arg.key, type |-> arg.value]
                                        ELSE arg.value

(* parse.rs: set_once. *)
SetOnceLastWins(b, slot, value) ==
  IF b.valid THEN [b EXCEPT ![slot] = <<value>>] ELSE b

SetOnce(b, slot, value) ==
  IF b.valid /\ b[slot] = <<>> THEN [b EXCEPT ![slot] = <<value>>]
                               ELSE [b EXCEPT !.valid = FALSE]

Apply(b, arg) == IF Parses(arg) THEN SetOnce(b, Slot(arg), SlotValue(arg))
                                ELSE [b EXCEPT !.valid = FALSE]

RouteArgs(args) ==
  LET after[k \in 0 .. Len(args)] ==
        IF k = 0 THEN EmptyArgs ELSE Apply(after[k - 1], args[k])
  IN  after[Len(args)]

OrElse(option, default) == IF option = <<>> THEN default ELSE option[1]

(* build_rewrite_spec, as far as the kind of the rewrite. *)
RewriteKind(to) == IF to = <<>> THEN "StripPrefix"
                   ELSE IF "{" \in Range(to[1]) THEN "Template" ELSE "Static"

(* find_route_attr and expand_route_from_fn; a function with none of the   *)
(* attributes is left as it is.                                            *)
RouteAttrs(attrs) == {i \in DOMAIN attrs : attrs[i].name \in Methods}

Expands(attrs) ==
  \A i \in RouteAttrs(attrs) :
    RouteArgs(attrs[i].args).valid /\ \A j \in RouteAttrs(attrs) : j = i

ExpandRoute(attrs) ==
  LET a == attrs[CHOOSE i \in RouteAttrs(attrs) : TRUE]
      b == RouteArgs(a.args)
  IN  [method |-> a.name,
       path   |-> a.path,
       policy |-> b.policy,
       to     |-> b.to,
       before |-> OrElse(b.before, <<>>),
       map    |-> b.map,
       data   |-> OrElse(b.data, [kind |-> "none", type |-> "none"]),
       pathType  |-> b.path,
       queryType |-> b.query]

-----------------------------------------------------------------------------
(* generate_pipeline_wrapper: the phases, in the order they are emitted. *)

HasPipeline(route) ==
  \/ route.before # <<>> \/ route.map # <<>>
  \/ route.pathType # <<>> \/ route.queryType # <<>>
  \/ route.data.kind \in {"json", "form"}

Step(op, arg) == [op |-> op, arg |-> arg]

PathPhase(route)  == [i \in DOMAIN route.pathType  |-> Step("path", route.pathType[i])]
QueryPhase(route) == [i \in DOMAIN route.queryType |-> Step("query", route.queryType[i])]
HookPhase(route)  == [i \in DOMAIN route.before    |-> Step("hook", route.before[i])]

Guard(kind) == IF kind \in {"form", "multipart"} THEN <<Step("guard", kind)>> ELSE <<>>

(* form_get_branch: the data is the query string, the body is not touched. *)
FormQueryPhase(route) ==
  <<Step("parse_query", "form")>>
  \o [i \in DOMAIN route.map |-> Step("map_query", route.map[i])]
  \o <<Step("take_body", "none")>>

(* json_phase, form_post_branch and none_map_phase. *)
BufferedPhase(route) ==
  LET kind == route.data.kind
  IN  Guard(kind)
      \o <<Step("read_body", "none"),
           IF kind \in {"json", "form"} THEN Step("parse", kind) ELSE Step("raw", "none")>>
      \o IF route.map = <<>> THEN <<Step("keep_bytes", "none")>>
                             ELSE <<Step("map_body", route.map[1])>>

BodyPhaseOfAnyMethod(route) ==
  IF route.map = <<>> /\ route.data.kind \in {"none", "multipart"}
  THEN <<Step("take_body", "none")>> ELSE BufferedPhase(route)

BodyPhase(route) ==
  CASE route.data.kind = "form" /\ BodyInQuery(route.method) -> FormQueryPhase(route)
    [] route.map = <<>> /\ route.data.kind \in {"none", "multipart"} ->
         <<Step("take_body", "none")>>
    [] OTHER -> BufferedPhase(route)

PipelineStepsHooksFirst(route) ==
  PathPhase(route) \o HookPhase(route) \o QueryPhase(route) \o BodyPhase(route)

PipelineSteps(route) ==
  IF HasPipeline(route)
  THEN PathPhase(route) \o QueryPhase(route) \o HookPhase(route) \o BodyPhase(route)
  ELSE <<>>

(* The type the generated call passes to the map, which rustc checks. *)
MapInput(route) == IF route.data.kind \in {"json", "form"} THEN route.data.type
                                                           ELSE "RawBody"
RouteHandlers(route) == Range(route.before) \union Range(route.map)
MapFits(route) ==
  \A i \in DOMAIN route.map : Input(route.map[i]) = Param("own", MapInput(route))
=============================================================================
