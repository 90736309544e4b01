------------------------------ MODULE Services ------------------------------
(***************************************************************************)
(* #[apigate::service(...)] on a module (service.rs, lib.rs and            *)
(* template.rs of apigate-macros): its functions become the Routes that    *)
(* its generated routes() returns, or none of them does.                   *)
(***************************************************************************)
EXTENDS RouteAttributes, RoutePaths

(* A module: its attribute's arguments, its name, its body's functions. *)
Module(args, ident, inline, fns) ==
  [args |-> args, ident |-> ident, inline |-> inline, fns |-> fns]

EmptyService == [name |-> <<>>, prefix |-> <<>>, policy |-> <<>>, valid |-> TRUE]
ServiceArg(b, arg) ==
  IF ~arg.bare /\ arg.key \in {"name", "prefix", "policy"}
  THEN SetOnce(b, arg.key, arg.value) ELSE [b EXCEPT !.valid = FALSE]
ServiceArgs(args) ==
  LET b[k \in 0 .. Len(args)] == IF k = 0 THEN EmptyService ELSE ServiceArg(b[k - 1], args[k])
  IN  b[Len(args)]

Routed(fns) ==
  LET r[k \in 0 .. Len(fns)] ==
        IF k = 0 THEN <<>>
        ELSE IF RouteAttrs(fns[k]) = {} THEN r[k - 1] ELSE Append(r[k - 1], fns[k])
  IN  r[Len(fns)]

(* A rewrite template that does not compile rejects its function too. *)
FnExpands(attrs) ==
  /\ Expands(attrs)
  /\ RouteAttrs(attrs) # {} =>
       LET r == ExpandRoute(attrs)
       IN  RewriteKind(r.to) = "Template" => TemplateCompiles(r.path, r.to[1])

ServiceExpands(m) ==
  /\ ServiceArgs(m.args).valid
  /\ m.inline
  /\ \A i \in DOMAIN m.fns : FnExpands(m.fns[i])

(* build_rewrite_spec, with what the rewrite is made of. *)
RewriteSpec(r) ==
  CASE RewriteKind(r.to) = "StripPrefix" -> [kind |-> "StripPrefix"]
    [] RewriteKind(r.to) = "Static"      -> [kind |-> "Static", to |-> r.to[1]]
    [] RewriteKind(r.to) = "Template"    ->
         [kind |-> "Template", template |-> Template(r.path, r.to[1])]

RouteDef(attrs) ==
  LET r == ExpandRoute(attrs)
  IN  [method |-> r.method, path |-> r.path, to |-> r.to,
       rewrite |-> RewriteSpec(r), policy |-> r.policy]

ExpandService(m) ==
  LET s == ServiceArgs(m.args)
      fns == Routed(m.fns)
  IN  [service |-> OrElse(s.name, m.ident), prefix |-> OrElse(s.prefix, <<>>),
       policy |-> s.policy, routes |-> [i \in DOMAIN fns |-> RouteDef(fns[i])]]
=============================================================================
