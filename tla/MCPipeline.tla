----------------------------- MODULE MCPipeline -----------------------------
(***************************************************************************)
(* Instance of Pipeline for TLC: every way to combine the parts of a route *)
(* with requests that each have at most one defect, every signature of up  *)
(* to three parameters, and every list of up to three arguments.           *)
(***************************************************************************)
EXTENDS Pipeline

TwoTypes == {"A", "B"}

Hook(params) == Signature("hook", params, TRUE, "unit")
Map(params, output) == Signature("map", params, TRUE, output)
Ctx      == Param("mut", "PartsCtx")
WholeScope == Param("mut", "RequestScope")
Own(t) == Param("own", t)
Ref(t) == Param("ref", t)
Mut(t) == Param("mut", t)

Hooks == {Hook(<<Ctx, Own("A")>>), Hook(<<WholeScope>>), Hook(<<Ref("A"), Ref("B")>>),
          Hook(<<Mut("A")>>)}
HookLists == {<<>>, <<Hook(<<WholeScope>>), Hook(<<Mut("A")>>)>>,
              <<Hook(<<Mut("A"), Own("B")>>), Hook(<<Ref("A"), Ref("B")>>)>>}
             \union {<<h>> : h \in Hooks}

MapLists(input) == {<<>>, <<Map(<<Own(input), Ctx, Own("RawBody"), Ref("A")>>, "value")>>,
                    <<Map(<<WholeScope, Own(input)>>, "unit")>>}

Optional(key, values) == {<<>>} \union {<<Arg(key, v)>> : v \in values}
DataArgs == {<<>>, <<Arg("json", "B")>>, <<Arg("form", "B")>>, <<Multipart>>}
DataInput(data) == IF data = <<>> \/ data[1].bare THEN "RawBody" ELSE data[1].value

Declared(method, args) == <<Attr(method, "/", args)>>
Routes ==
  UNION {{Declared(method, path \o query \o data \o before \o maps) :
            method \in {"get", "post"}, path \in Optional("path", {"A"}),
            query \in Optional("query", {"A"}),
            before \in {IF h = <<>> THEN <<>> ELSE <<Arg("before", h)>> : h \in HookLists},
            maps \in {IF m = <<>> THEN <<>> ELSE <<Arg("map", m[1])>> :
                        m \in MapLists(DataInput(data))}} : data \in DataArgs}

Good(ctype) == [path |-> "good", query |-> "good", ctype |-> ctype, clen |-> "client",
                body |-> [bytes |-> "good", len |-> 2, broken |-> FALSE]]
SomeRequests ==
  {Good("json"), [Good("form") EXCEPT !.query = "none"],
   [Good("multipart") EXCEPT !.clen = "none"],
   [Good("json") EXCEPT !.path = "bad"], [Good("form") EXCEPT !.query = "bad"],
   [Good("form") EXCEPT !.body.bytes = "bad"], [Good("multipart") EXCEPT !.body.len = 3],
   [Good("json") EXCEPT !.body.broken = TRUE]}

State == [t \in DataTypes |-> IF t = "B" THEN "state" ELSE Absent]
Case(routes, requests, levels, calls) ==
  [routes |-> routes, requests |-> requests, levels |-> levels, state |-> State,
   calls |-> calls]

(* Handlers that call twice: a hook with all there is to reach before every *)
(* kind of body, and a map with the same.                                   *)
TwoCallRoutes ==
  UNION {{Declared(method, data \o <<handler>>) :
            method \in {"get", "post"},
            handler \in {Arg("before", <<Hook(<<Ctx, WholeScope>>)>>),
                        Arg("map", Map(<<Own(DataInput(data)), Ctx>>, "value"))}} :
         data \in DataArgs}

(* Every signature, in a route of its own; a map's route must fit it. *)
ShortParams == UNION {[1 .. n -> Params] : n \in 0 .. 3}
SignatureRoutes ==
  {Declared("post", <<Arg("before", <<Signature("hook", p, a, "unit")>>)>>) :
     p \in ShortParams, a \in {TRUE}}
  \union {Declared("post", <<Arg("map", Signature("map", p, TRUE, "unit"))>>) :
            p \in ShortParams}
  \union {Declared("post", <<Arg("map", Signature("map", <<Own("RawBody")>>, a, o))>>) :
            a \in BOOLEAN, o \in {"unit", "undeclared"}}

(* Argument lists, with repetitions and mistakes. *)
SomeArgs == {Arg("path", "A"), Arg("query", "A"), Arg("query", "B"), Arg("json", "B"),
             Arg("form", "B"), Multipart, Arg("multipart", "B"), Arg("unknown", "A"),
             Arg("to", <<"/">>), Arg("policy", "p")}
ArgumentRoutes ==
  {Declared("put", args) : args \in UNION {[1 .. n -> SomeArgs] : n \in 0 .. 3}}
  \union {Declared("get", <<>>) \o <<Attr("allow", "", <<>>)>> \o Declared("head", <<>>)}

MCErrors == {Http(403), Http(500), Custom(409), Custom(503),
             Core("invalid_header_value"), Pipe("missing_from_scope")}

MCCases ==
  {Case(Routes, SomeRequests, {"debug"}, 1),
   Case(Routes, {Good("json")}, {"info", "warn"}, 1),
   Case(TwoCallRoutes, {Good("form"), Good("multipart")}, {"warn"}, 2),
   Case(SignatureRoutes, {Good("json")}, {"info"}, 1),
   Case(ArgumentRoutes, {Good("json")}, {"info"}, 1)}
=============================================================================
