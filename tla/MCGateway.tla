------------------------------ MODULE MCGateway ------------------------------
(***************************************************************************)
(* Instance of Gateway for TLC: every sequence of up to three of           *)
(* twenty-one builder calls; every ServeConfig of two values an option, on *)
(* both address families; and requests of every kind through every kind of *)
(* route, with every hash a key can have.                                  *)
(***************************************************************************)
EXTENDS Gateway, TLC

S(name)  == <<"/", name>>
P(name)  == <<"/", "{", name, "}">>
Str(key, text) == Arg(key, text)
Route1(method, path, args) == <<Attr(method, path, args)>>

(* The services. *)
Sales ==
  Module(<<Str("prefix", S("sales"))>>, "sales", TRUE,
         <<Route1("get", S("ping"), <<>>),
           Route1("get", P("id"), <<Str("to", S("items") \o P("id"))>>),
           Route1("post", S("ping") \o P("id"), <<Str("to", S("fixed"))>>),
           <<Attr("inline", <<>>, <<>>)>>,
           Route1("get", P("a") \o S("of") \o P("id"),
                  <<Str("to", P("id") \o <<"-", "{", "a", "}">>)>>)>>)
Users ==
  Module(<<Str("name", "users"), Str("policy", "sticky")>>, "module", TRUE,
         <<Route1("get", P("id"), <<>>),
           Route1("head", P("id"), <<Str("policy", "spread")>>),
           Route1("delete", <<>>, <<>>)>>)
Clash == Module(<<Str("prefix", <<"/", "sales", "/">>), Str("policy", "absent")>>, "clash", TRUE,
                <<Route1("get", P("other"), <<Str("policy", "spread")>>)>>)
Same  == Module(<<Str("prefix", S("sales"))>>, "same", TRUE,
                <<Route1("post", S("new"), <<>>), Route1("get", <<"ping">>, <<>>)>>)
Rooted == Module(<<Str("prefix", <<"api">>)>>, "rooted", TRUE,
                 <<Route1("get", S("x"), <<>>)>>)
Spaced == Module(<<>>, "spaced", TRUE,
                 <<Route1("get", S("x"), <<Str("to", S("bad"))>>)>>)
Slashed == Module(<<Str("prefix", <<"/", "sales", "/">>)>>, "sales", TRUE,
                  <<Route1("get", S("ping"), <<>>), Route1("get", P("id"), <<>>)>>)

Broken(fn) == Module(<<>>, "broken", TRUE, <<fn>>)
MCSources ==
  <<Sales, Users, Clash, Same, Rooted, Spaced, Slashed,
    Module(<<Str("prefix", S("a")), Str("prefix", S("b"))>>, "twice", TRUE, <<>>),
   Module(<<Str("path", S("a"))>>, "unknown", TRUE, <<>>),
   Module(<<>>, "outline", FALSE, <<>>),
   Broken(Route1("get", P("id"), <<Str("to", P("other"))>>)),
   Broken(Route1("get", P("id"), <<Str("to", <<"/", "{", "id">>)>>)),
   Broken(Route1("get", P("id"), <<Str("to", P("id") \o <<"}">>)>>)),
   Broken(Route1("get", P("id") \o P("id"), <<Str("to", P("id"))>>)),
   Broken(Route1("get", <<"/", "{", "}">>, <<Str("to", <<"/", "{", "}">>)>>)),
   Broken(Route1("get", P("a") \o P("b") \o P("c"), <<Str("to", P("a"))>>)),
   Broken(Route1("get", P("id"), <<Str("to", S("a")), Str("to", S("b"))>>)),
   Broken(Route1("get", P("id"), <<>>) \o Route1("post", P("id"), <<>>))>>

(* The calls. *)
Url(name)   == [valid |-> TRUE, scheme |-> "http", authority |-> name]
NoScheme    == [valid |-> TRUE, scheme |-> "none", authority |-> "b9"]
NotUri      == [valid |-> FALSE, scheme |-> "none", authority |-> "none"]
B(field, key, value) == [field |-> field, key |-> key, value |-> value]
Set(field, value)    == B(field, "none", value)

Nodelay(v) == [field |-> "connector_configurers", value |-> [field |-> "nodelay", value |-> v]]
Connect(v) == [field |-> "connector_configurers",
               value |-> [field |-> "connect_timeout", value |-> v]]
Idle(v)    == [field |-> "client_configurers",
               value |-> [field |-> "pool_idle_timeout", value |-> v]]

Five == [i \in 1 .. 5 |-> Url(<<"b1", "b2", "b3", "b4", "b5">>[i])]

SetupCalls ==
  <<B("mount", "none", 1), B("mount", "none", 2),
    B("mount_service", <<Url("b4")>>, 1), B("mount_service", <<Url("b5")>>, 2),
    B("mount_service", <<Url("b6")>>, 3), B("mount_service", <<Url("b6")>>, 4),
    B("mount_service", <<Url("b6")>>, 5), B("mount_service", <<Url("b6")>>, 6),
    B("backend", "sales", <<Url("b1"), Url("b2")>>),
    B("backend", "sales", <<Url("b3"), NotUri>>), B("backend", "users", <<NoScheme>>),
    B("policy", "sticky", PathStickyPolicy("p1", <<"id">>)),
    B("policy", "spread", LeastTimePolicy("p2")),
    Set("default_policy", LeastRequestPolicy("p3")),
    Set("connect_timeout", 7), Set("pool_idle_timeout", 8), Set("runtime_observer", "custom"),
    Set("upstream", UpstreamOf(<<Connect(9), [field |-> "connect_timeout", value |-> 10],
                                 Idle(11), Connect(12), Nodelay(FALSE)>>)),
    Set("upstream", UpstreamOf(<<[field |-> "tcp_nodelay", value |-> FALSE]>>)),
    B("state", "A", 1), B("state", "A", 2)>>
Base == Len(SetupCalls)
TrafficCalls ==
  <<B("policy", "sticky", PathStickyPolicy("p1", <<"id">>)),
    B("policy", "sticky", HeaderStickyPolicy("p1", "user")),
    B("policy", "spread", HashPolicy("p2")),
    Set("default_policy", PathStickyPolicy("p4", <<"id">>)),
    B("mount_service", Five, 1), B("mount_service", <<Url("u1"), Url("u2")>>, 2),
    B("mount_service", <<>>, 1), B("mount_service", <<Url("s1")>>, 7)>>
MCCalls == SetupCalls \o TrafficCalls
Traffic(some) == [i \in DOMAIN some |-> Base + some[i]]
Scripts == UNION {[1 .. n -> 1 .. Base] : n \in 0 .. 3}

Keys == {<<"k1">>, <<"of">>, <<"7">>, <<"ping">>, <<"x">>, <<"sales">>}
Program(services, script, config, family, load, seed) ==
  [services |-> services, script |-> script, config |-> config, family |-> family,
   load |-> load, hash |-> [k \in Keys |-> seed]]
Plain(services, script, load, seed) ==
  Program(services, script, NewServeConfig, "V4", load, seed)

AllConfigs ==
  {[f \in ConfigFields |-> IF f \in on THEN v[f] ELSE <<>>] :
     on \in SUBSET ConfigFields, v \in {[f \in ConfigFields |->
       CASE f = "backlog" -> <<b>> [] f \in {"recv_buffer_size", "send_buffer_size"} -> <<1>>
         [] OTHER -> <<t>>] : b \in {1, 5}, t \in BOOLEAN}}

MCPrograms ==
  {Plain({m}, <<>>, 0, 0) : m \in 8 .. Len(MCSources)}
  \union {Plain(1 .. 6, s, 0, 0) : s \in Scripts}
  \union {Program({7}, Traffic(<<8>>), c, f, 0, 0) : c \in AllConfigs, f \in {"V4", "V6"}}
  \union {Plain({1, 2}, Traffic(<<p, 3, 4, 5, 6>>), 1, k) : p \in {1, 2}, k \in 0 .. Word - 1}
  \union {Plain({1}, Traffic(<<7>>), 2, 0)}

(* A service whose prefix ends in a slash, and nothing else. *)
SlashedOnly == {Plain({7}, Traffic(<<8>>), 1, 0)}

(* The requests. *)
Text(tokens)   == [ascii |-> TRUE, text |-> tokens]
Binary         == [ascii |-> FALSE, text |-> <<"user">>]
HeaderSets ==
  {("user" :> <<Text(<<"k1">>)>>) @@ ("host" :> <<Text(<<"gateway">>)>>),
   ("user" :> <<Binary>>) @@ ("te" :> <<Text(<<"trailers">>)>>)
     @@ ("connection" :> <<Binary, Text(<<"host", "x">>)>>)
     @@ ("x" :> <<Text(<<"1">>)>>) @@ ("y" :> <<Text(<<"2">>)>>)}
RequestPaths == {S("sales") \o S("ping"), S("sales") \o S("7"), S("sales") \o S("ping") \o S("7"),
                 S("sales") \o S("x") \o S("of") \o S("7"), S("sales"), S("x") \o S("ping"),
                 <<"/">>, S("sales") \o <<"/">>}
MCRequests == {[method |-> m, path |-> p, headers |-> h] :
                 m \in {"get", "head", "post"}, p \in RequestPaths, h \in HeaderSets}
MCResponses == {"server" :> <<Text(<<"up">>)>>,
                ("server" :> <<Text(<<"up">>)>>) @@ ("upgrade" :> <<Text(<<"h2c">>)>>)
                  @@ ("connection" :> <<Text(<<"server">>)>>)}
=============================================================================
