------------------------------- MODULE Gateway -------------------------------
(***************************************************************************)
(* The whole program, front to back: services are compiled, a builder is   *)
(* configured and built, the listener is bound, and requests are matched,  *)
(* balanced, rewritten and forwarded.  One request is in flight at a time; *)
(* what concurrent requests share is the subject of Dispatch and of the    *)
(* balancers' modules, and what a pipeline does to a request of Pipeline.  *)
(*                                                                         *)
(* Here and in the modules this one extends, a definition just before one  *)
(* it is named after is the same code with a plausible bug in it; the      *)
(* mutation runs put it in its place.                                      *)
(***************************************************************************)
EXTENDS AppBuilder, ConsistentHash, Listener

CONSTANTS
  Sources,     \* modules that #[apigate::service] is put on
  Calls,       \* calls on an AppBuilder: the setter, its key and its value
  Programs,    \* what applications are made of, by index in the two above
  Requests,    \* what clients may send
  Responses    \* header sets upstreams may answer with

IsSequence(s) == Len(s) \in Nat /\ DOMAIN s = 1 .. Len(s)
IsText(s)     == s \in Seq(STRING)
IsArgs(args, key) ==
  IsSequence(args) /\ \A i \in DOMAIN args : args[i].key = key => IsText(args[i].value)

(* What the grammar of the attributes knows of a module, and hyper of a    *)
(* request: paths are texts, a request's a URI's.                          *)
Written(m) ==
  /\ IsArgs(m.args, "prefix") /\ IsSequence(m.fns)
  /\ \A i \in DOMAIN m.fns : \A a \in DOMAIN m.fns[i] :
       IsText(m.fns[i][a].path) /\ IsArgs(m.fns[i][a].args, "to")

(* What rustc knows of the calls of a program: they are methods that an    *)
(* AppBuilder has, a list is given where one is asked for, and the routes  *)
(* that are mounted are those of a module that is compiled with it.        *)
SetterTakes(c) ==
  /\ {"field", "key", "value"} \subseteq DOMAIN c
  /\ c.field \in {"backend", "policy", "state", "mount", "mount_service", "upstream",
                  "connect_timeout", "pool_idle_timeout", "pool_max_idle_per_host",
                  "default_policy", "request_timeout", "map_body_limit", "error_renderer",
                  "runtime_observer"}
  /\ c.field = "backend" => IsSequence(c.value)
  /\ c.field = "mount_service" => IsSequence(c.key)
  /\ c.field = "upstream" =>
       /\ DOMAIN c.value = DOMAIN NewUpstream
       /\ IsSequence(c.value.client_configurers) /\ IsSequence(c.value.connector_configurers)

ASSUME GatewayAssumption ==
  /\ \A s \in DOMAIN Sources : Written(Sources[s])
  /\ \A r \in Requests : IsText(r.path) /\ UriText(r.path)
  /\ \A c \in DOMAIN Calls : SetterTakes(Calls[c])
  /\ \A p \in Programs :
       /\ IsSequence(p.script) /\ p.load \in Nat
       /\ \A i \in DOMAIN p.script :
            /\ p.script[i] \in DOMAIN Calls
            /\ Calls[p.script[i]].field \in {"mount", "mount_service"} =>
                 Calls[p.script[i]].value \in p.services
       /\ \A t \in DOMAIN p.hash : p.hash[t] \in 0 .. Word - 1
       /\ p.family \in {"V4", "V6"}
       /\ \A f \in ConfigFields : p.config[f] = <<>> \/ p.config[f] = <<p.config[f][1]>>
       /\ p.config.backlog # <<>> => p.config.backlog[1] \in Nat

VARIABLES
  program,   \* what was written: it never changes
  phase,     \* source, refused, configuring, error, panicked, built, binding,
             \* io_error, listening
  calls,     \* the calls on an AppBuilder, once the services are compiled
  builder,   \* the AppBuilder
  done,      \* calls made on it
  app,       \* what build returned
  pending,   \* system calls still to make
  socket,    \* system calls made, in order
  flight,    \* the request in flight: where it is, its route, key and backend
  loop,      \* the loop of jump_consistent_hash
  log        \* what became of each request

setup == <<phase, calls, builder, done, app, pending, socket>>
traffic == <<flight, loop, log>>
vars == <<program, phase, calls, builder, done, app, pending, socket, flight, loop, log>>

NoRequest == [stage |-> "idle"]

-----------------------------------------------------------------------------
(* The setup. *)

(* What routes() of each module returns, and the calls as they are made.   *)
Expanded == [s \in {t \in DOMAIN Sources : ServiceExpands(Sources[t])} |->
               ExpandService(Sources[s])]
Made(c) == IF c.field \in {"mount", "mount_service"} THEN [c EXCEPT !.value = Expanded[@]] ELSE c

Compile ==
  /\ phase = "source"
  /\ IF program.services \subseteq DOMAIN Expanded
     THEN /\ phase' = "configuring"
          /\ calls' = [i \in DOMAIN program.script |-> Made(Calls[program.script[i]])]
     ELSE phase' = "refused" /\ UNCHANGED calls
  /\ UNCHANGED <<program, builder, done, app, pending, socket, traffic>>

CallBuilder ==
  /\ phase = "configuring" /\ done < Len(calls)
  /\ builder' = Configure(builder, calls[done + 1])
  /\ done' = done + 1
  /\ UNCHANGED <<program, phase, calls, app, pending, socket, traffic>>

Build ==
  /\ phase = "configuring" /\ done = Len(calls)
  /\ app' \in Builds(builder)
  /\ phase' = app'.outcome.result
  /\ UNCHANGED <<program, calls, builder, done, pending, socket, traffic>>

RunRouterWith ==
  /\ phase = "built"
  /\ phase' = "binding"
  /\ pending' = BindListener(program.family, program.config)
  /\ UNCHANGED <<program, calls, builder, done, app, socket, traffic>>

(* The calls are made in order, up to the first that fails. *)
Succeed ==
  /\ phase = "binding"
  /\ socket' = Append(socket, Head(pending))
  /\ pending' = Tail(pending)
  /\ phase' = IF pending' = <<>> THEN "listening" ELSE "binding"
  /\ UNCHANGED <<program, calls, builder, done, app, traffic>>

FailToBind ==
  /\ phase = "binding"
  /\ phase' = "io_error"
  /\ UNCHANGED <<program, calls, builder, done, app, pending, socket, traffic>>

-----------------------------------------------------------------------------
(* axum's router: the path first, static segments before parameters, then  *)
(* the method; get answers head where nothing else does.                   *)

Paths(path) == {p \in {app.table[i].full : i \in DOMAIN app.table} : PathMatches(p, path)}
Beats(p, q) == \E k \in DOMAIN Pieces(p) :
                 /\ ~ParamAt(p, k) /\ ParamAt(q, k)
                 /\ \A i \in 1 .. k - 1 : ParamAt(p, i) = ParamAt(q, i)
Best(paths) == {p \in paths : \A q \in paths \ {p} : Beats(p, q)}

Answering(paths, method) ==
  {i \in DOMAIN app.table : app.table[i].full \in paths /\ app.table[i].method = method}
Endpoints(paths, method) ==
  IF method = "head" /\ Answering(paths, "head") = {} THEN Answering(paths, "get")
                                                      ELSE Answering(paths, method)

-----------------------------------------------------------------------------
(* dispatch.rs, proxy.rs and the routing strategies. *)

(* RouteStrategy::route; every built-in one leaves all backends eligible.  *)
Affinity(meta, request) ==
  CASE meta.policy.router.kind = "NoRouteKey" -> <<>>
    [] meta.policy.router.kind = "HeaderSticky" ->
         LET name == meta.policy.router.name[1]
         IN  IF name \in DOMAIN request.headers /\ request.headers[name][1].ascii
             THEN request.headers[name][1].text ELSE <<>>
    [] meta.policy.router.kind = "PathSticky" ->
         ExtractParam(meta.route_path, meta.prefix, request.path, meta.policy.router.name)

(* xxh3_64, external: some function of the key's text. *)
Xxh3(text) == IF text \in DOMAIN program.hash THEN program.hash[text] ELSE 0

Entry(request, route, outcome) ==
  [request |-> request, route |-> route, outcome |-> outcome, key |-> <<>>, backend |-> 0,
   path |-> <<>>, headers |-> NoEntries, answer |-> NoEntries, upstream |-> NoEntries]

Unrouted(request, code) ==
  /\ log' = Append(log, Entry(request, 0, code))
  /\ UNCHANGED <<flight, loop>>

(* pick: none of no backends, the jump hash of a key, or, in a balancer    *)
(* whose own module says which, any index of the pool.                     *)
Route(request, i) ==
  LET meta == app.table[i]
      key == Affinity(meta, request)
      f == [stage |-> "picked", request |-> request, route |-> i, key |-> key, backend |-> 0]
  IN  \/ /\ meta.pool = <<>>
         /\ log' = Append(log, [Entry(request, i, "no_backends_selected") EXCEPT !.key = key])
         /\ UNCHANGED <<flight, loop>>
      \/ /\ meta.pool # <<>> /\ meta.policy.balancer = "ConsistentHash" /\ key # <<>>
         /\ flight' = [f EXCEPT !.stage = "hashing"]
         /\ loop' = NewJump(Xxh3(key))
         /\ UNCHANGED log
      \/ /\ meta.pool # <<>> /\ ~(meta.policy.balancer = "ConsistentHash" /\ key # <<>>)
         /\ \E n \in DOMAIN meta.pool : flight' = [f EXCEPT !.backend = n - 1]
         /\ UNCHANGED <<loop, log>>

Arrive(request) ==
  /\ phase = "listening" /\ flight.stage = "idle" /\ Len(log) < program.load
  /\ LET paths == Paths(request.path)
         routes == Endpoints(Best(paths), request.method)
     IN  \/ paths = {} /\ Unrouted(request, "route_not_found")
         \/ paths # {} /\ routes = {} /\ Unrouted(request, "method_not_allowed")
         \/ \E i \in routes : Route(request, i)
  /\ UNCHANGED <<program, setup>>

TurnByRemainder ==
  /\ flight.stage = "hashing"
  /\ flight' = [flight EXCEPT !.stage = "picked",
                              !.backend = Xxh3(flight.key) % Len(app.table[flight.route].pool)]
  /\ UNCHANGED <<program, setup, loop, log>>

Turn ==
  /\ flight.stage = "hashing"
  /\ LET buckets == Len(app.table[flight.route].pool)
     IN  IF Jumping(loop, buckets)
         THEN loop' = JumpStep(loop) /\ UNCHANGED flight
         ELSE /\ flight' = [flight EXCEPT !.stage = "picked", !.backend = loop.b]
              /\ UNCHANGED loop
  /\ UNCHANGED <<program, setup, log>>

(* strip_hop_headers; a Connection value that is not text names nothing. *)
HopByHop == {"proxy-authenticate", "proxy-authorization", "te", "trailer",
             "transfer-encoding", "upgrade", "keep-alive", "proxy-connection"}
Nominated(headers) ==
  IF "connection" \notin DOMAIN headers THEN {}
  ELSE UNION {ToSet(headers["connection"][i].text) :
                i \in {k \in DOMAIN headers["connection"] : headers["connection"][k].ascii}}
StripHopHeaders(headers) ==
  Restrict(headers, DOMAIN headers \ (HopByHop \union {"connection"} \union Nominated(headers)))

HeaderValue(text) == [ascii |-> TRUE, text |-> text]
WithHost(headers, base) == Over(headers, "host", <<HeaderValue(base.authority)>>)

UpstreamHeadersStripLast(headers, base) == StripHopHeaders(WithHost(headers, base))

UpstreamHeaders(headers, base) == WithHost(StripHopHeaders(headers), base)

(* proxy_request: nothing is sent when the rewritten URI is not one. *)
Forward ==
  LET meta == app.table[flight.route]
      e == [Entry(flight.request, flight.route, "invalid_upstream_uri")
              EXCEPT !.key = flight.key, !.backend = flight.backend]
      base == meta.pool[flight.backend + 1]
  IN  /\ flight.stage = "picked"
      /\ flight' = NoRequest
      /\ \/ /\ ~Rewritable(meta, flight.request.path)
            /\ log' = Append(log, e)
         \/ /\ Rewritable(meta, flight.request.path)
            /\ \E r \in Responses :
                 log' = Append(log, [e EXCEPT
                   !.outcome = "forwarded",
                   !.path    = RewritePath(meta, flight.request.path),
                   !.headers = UpstreamHeaders(flight.request.headers, base),
                   !.upstream = r,
                   !.answer  = StripHopHeaders(r)])
      /\ UNCHANGED <<program, setup, loop>>

-----------------------------------------------------------------------------

Init ==
  /\ program \in Programs
  /\ phase = "source" /\ calls = <<>> /\ builder = NewBuilder /\ done = 0
  /\ app = BuildFrom(NewBuilder, Outcome("none", "none", "none"))
  /\ pending = <<>> /\ socket = <<>>
  /\ flight = NoRequest /\ loop = NewJump(0) /\ log = <<>>

Next ==
  \/ Compile \/ CallBuilder \/ Build \/ RunRouterWith \/ Succeed \/ FailToBind
  \/ \E request \in Requests : Arrive(request)
  \/ Turn \/ Forward

Spec == Init /\ [][Next]_vars

(* A thread inside pick keeps running. *)
FairSpec == Spec /\ WF_vars(Turn)

-----------------------------------------------------------------------------

Built == phase = "built"   \* the app does not change after that

(* Every variable holds what its declaration says; in particular a request *)
(* that has picked a backend has picked one of its route's pool, so that   *)
(* `pool.get` cannot fail on a built-in balancer's index (dispatch.rs).    *)
TypeOK ==
  /\ phase \in {"source", "refused", "configuring", "error", "panicked", "built",
                "binding", "io_error", "listening"}
  /\ done \in 0 .. Len(calls)
  /\ flight.stage \in {"idle", "hashing", "picked"}
  /\ flight # NoRequest => flight.route \in DOMAIN app.table
  /\ flight.stage = "picked" => flight.backend \in 0 .. Len(app.table[flight.route].pool) - 1
  /\ Len(log) <= program.load
  /\ phase # "listening" => log = <<>> /\ flight = NoRequest
  /\ phase \in {"error", "panicked"} => app.outcome.result = phase

-----------------------------------------------------------------------------
(* The builder. *)

Registers(c, service) ==
  \/ c.field = "backend" /\ c.key = service
  \/ c.field = "mount_service" /\ c.value.service = service
UrlsOf(c) == IF c.field = "backend" THEN c.value ELSE c.key
LastUrls(service) ==
  UrlsOf(calls[Max({i \in DOMAIN calls : Registers(calls[i], service)})])

(* Wherever a service's routes were mounted, they balance over the URLs    *)
(* that the last backend or mount_service call of that service gave, and   *)
(* over no other: registration order decides, mounting order does not.     *)
PoolsAreTheLastRegistered ==
  Built => \A i \in DOMAIN app.table :
               app.table[i].pool = Pool(LastUrls(app.table[i].service))

(* What the calls on one knob leave it at: `upstream` sets all of its.     *)
Sets(c, field) ==
  \/ c.field = field
  \/ c.field = "upstream" /\ field \in DOMAIN NewUpstream
LastWord(field, default) ==
  LET at == {i \in DOMAIN calls : Sets(calls[i], field)}
      c  == calls[Max(at)]
  IN  IF at = {} THEN default
      ELSE IF c.field = "upstream" THEN c.value[field] ELSE c.value
LastConfigured(configurers, field, value) ==
  LET at == {i \in DOMAIN configurers : configurers[i].field = field}
  IN  IF at = {} THEN value ELSE configurers[Max(at)].value

(* Each knob of the built app is at its last call's value: a later call on *)
(* AppBuilder, or a later `upstream`, undoes an earlier one, and what a    *)
(* configurer of the upstream in force sets is never overwritten by the    *)
(* gateway's own settings, whichever was called first.                     *)
KnobsFollowTheLastCall ==
  Built =>
    LET connector(field, knob) ==
          LastConfigured(LastWord("connector_configurers", <<>>), field,
                         LastWord(knob, NewUpstream[knob]))
        client(field) ==
          LastConfigured(LastWord("client_configurers", <<>>), field,
                         LastWord(field, NewUpstream[field]))
    IN  /\ app.client.connector =
             [nodelay         |-> connector("nodelay", "tcp_nodelay"),
              connect_timeout |-> connector("connect_timeout", "connect_timeout"),
              keepalive       |-> connector("keepalive", "pool_idle_timeout")]
        /\ app.client.client =
             [pool_idle_timeout      |-> client("pool_idle_timeout"),
              pool_max_idle_per_host |-> client("pool_max_idle_per_host")]
        /\ \A f \in {"request_timeout", "map_body_limit", "runtime_observer"} :
             app[f] = LastWord(f, NewBuilder[f])
        /\ \A t \in DOMAIN app.state :
             app.state[t] = calls[Max({i \in DOMAIN calls : /\ calls[i].field = "state"
                                                            /\ calls[i].key = t})].value

(* The routes in mounting order, each with the service that declares it. *)
MountedBy(n) ==
  LET m[k \in 0 .. Len(calls)] ==
        IF k = 0 THEN <<>>
        ELSE IF calls[k].field \in {"mount", "mount_service"}
        THEN Append(m[k - 1], calls[k].value) ELSE m[k - 1]
  IN  m[n]
Mounts == MountedBy(Len(calls))
DeclaredIn(s) == [i \in DOMAIN s.routes |-> [service |-> s, route |-> s.routes[i]]]
DeclaredBy(n) ==
  LET d[k \in 0 .. Len(Mounts)] ==
        IF k = 0 THEN <<>> ELSE d[k - 1] \o DeclaredIn(Mounts[k])
  IN  d[n]
Declared == DeclaredBy(Len(Mounts))

PolicyName(d) == IF d.route.policy # <<>> THEN d.route.policy ELSE d.service.policy
LastPolicy(name) ==
  calls[Max({i \in DOMAIN calls : calls[i].field = "policy" /\ calls[i].key = name})].value
Registered(name) == \E i \in DOMAIN calls : calls[i].field = "policy" /\ calls[i].key = name
HasPolicy(d) == PolicyName(d) # <<>> => Registered(PolicyName(d)[1])

FullPath(d) == Join(d.service.prefix, d.route.path)
Collide(d, e) ==
  /\ Shape(FullPath(d)) = Shape(FullPath(e))
  /\ FullPath(d) # FullPath(e) \/ d.route.method = e.route.method
Unmountable(d) == \/ FullPath(d) = <<>> \/ Head(FullPath(d)) # "/"
                  \/ d.route.rewrite.kind = "Static" /\ ~UriText(d.route.rewrite.to)

(* An app that was built has every route of every mounted service, in the  *)
(* order of the calls, under the policy named by the route or, failing     *)
(* that, by its service, as last registered; and no request can be meant   *)
(* for two of them.                                                        *)
BuiltAppsAreComplete ==
  Built =>
    /\ Len(app.table) = Len(Declared)
    /\ \A i \in DOMAIN Declared :
         LET name == PolicyName(Declared[i])
         IN  /\ app.table[i].service = Declared[i].service.service
             /\ app.table[i].full = FullPath(Declared[i])
             /\ HasPolicy(Declared[i])
             /\ app.table[i].policy =
                  IF name = <<>> THEN LastWord("default_policy", NewBuilder.default_policy)
                                 ELSE LastPolicy(name[1])
    /\ \A i, j \in DOMAIN Declared : i # j => ~Collide(Declared[i], Declared[j])

(* `build` refuses for the reason it gives and for nothing else; and it    *)
(* panics only over a route that axum, or the URI of a fixed rewrite,      *)
(* cannot take, with all that it does check in order up to that route.     *)
RefusalsHaveACause ==
  LET backed(s) == \E i \in DOMAIN calls : Registers(calls[i], s)
      bad(s) == backed(s) /\ BadUrls(LastUrls(s)) # {}
      kind == app.outcome.kind
      about == app.outcome.about
  IN  /\ phase = "error" =>
           CASE kind = "InvalidBackendUri" -> bad(about)
             [] kind = "BackendNotRegistered" ->
                  /\ ~backed(about)
                  /\ \E i \in DOMAIN Mounts : Mounts[i].service = about
             [] kind = "PolicyNotRegistered" ->
                  \E i \in DOMAIN Declared :
                    ~HasPolicy(Declared[i]) /\ PolicyName(Declared[i])[1] = about
      /\ phase = "panicked" =>
           LET n == Len(app.table) + 1
           IN  /\ \/ Unmountable(Declared[n])
                  \/ \E i \in 1 .. n - 1 : Collide(Declared[i], Declared[n])
               /\ \A i \in 1 .. n : HasPolicy(Declared[i]) /\ backed(Declared[i].service.service)

-----------------------------------------------------------------------------
(* The listener. *)

(* A gateway that listens does so on a socket on which every option its    *)
(* ServeConfig gives, if it applies to the address, was set before bind,   *)
(* where the kernel still takes it, with the backlog as given or the       *)
(* nearest listen accepts; and leaving reuse_address out means the same    *)
(* whether or not some other option takes the custom path of serve.rs.     *)
ListenerIsAsConfigured ==
  phase = "listening" =>
    LET config == program.config
        made(op) == {i \in DOMAIN socket : socket[i].op = op}
        atBind == Max(made("bind"))
        inForce(option, value) ==
          /\ made(option) # {} /\ \A i \in made(option) : i < atBind
          /\ socket[Max(made(option))].value = value
    IN  /\ \A f \in SocketOptions : config[f] # <<>> =>
             (f = "ipv6_only" /\ program.family = "V4") \/ inForce(f, config[f][1])
        /\ config.reuse_address = <<>> => inForce("reuse_address", OnUnix)
        /\ config.backlog # <<>> =>
             socket[Max(made("listen"))].value = Min({config.backlog[1], MaxI32})
        /\ inForce("nonblocking", TRUE)

-----------------------------------------------------------------------------
(* The requests. *)

Answered == {log[i] : i \in DOMAIN log}
Sent == {e \in Answered : e.route # 0 /\ e.outcome # "no_backends_selected"}
Meta(e) == app.table[e.route]

(* A prefix the documentation shows: "", or literal and without a last "/",*)
(* and a path: no "//", and parameters with nothing but a name in them.    *)
PlainPrefix(prefix) ==
  prefix # <<>> => Head(prefix) = "/" /\ Last(prefix) # "/" /\ "{" \notin Range(prefix)
PlainPath(path) ==
  /\ \A i \in 1 .. Len(path) - 1 : path[i] # "/" \/ path[i + 1] # "/"
  /\ \A k \in ParamsIn(Pieces(path)) :
       Len(Pieces(path)[k]) = 3 /\ Pieces(path)[k][2] \notin {"{", "}"}

Substituted(to, e) ==
  Flatten([i \in DOMAIN to |->
    IF to[i] \in {"{", "}"} THEN <<>>
    ELSE IF i > 1 /\ to[i - 1] = "{" THEN Captured(Meta(e).full, e.request.path, <<to[i]>>)
    ELSE <<to[i]>>])

DeclaredPath(e) ==
  CASE Meta(e).to = <<>> -> Without(Meta(e).prefix, e.request.path)
    [] Meta(e).to # <<>> /\ "{" \notin Range(Meta(e).to[1]) -> Meta(e).to[1]
    [] OTHER -> Substituted(Meta(e).to[1], e)

(* A request that a route matched is forwarded, and to the path that the   *)
(* route declares: its own, without the service's prefix, or `to`, with    *)
(* every parameter replaced by what the route's path captured.  The two    *)
(* sides are parsed by different code, at different times (template.rs     *)
(* when compiling, axum when matching, proxy.rs when forwarding).          *)
UpstreamPathIsAsDeclared ==
  \A e \in Sent :
    PlainPrefix(Meta(e).prefix) /\ PlainPath(Meta(e).full)
    /\ (Meta(e).to # <<>> => UriText(Meta(e).to[1])) =>
      e.outcome = "forwarded" /\ e.path = DeclaredPath(e)

(* docs/reference.md:82 makes no exception for a prefix that ends in "/",  *)
(* which build.rs's join accepts: without `to`, the remaining path is      *)
(* forwarded.                                                              *)
RemainingPathIsForwarded ==
  \A e \in Sent : Meta(e).to = <<>> /\ Meta(e).prefix # <<>> /\ Last(Meta(e).prefix) = "/" =>
    e.path = Without(TrimSlashes(Meta(e).prefix), e.request.path)

(* A path-sticky route keys a request by the segment of its path that the  *)
(* router matched with the parameter, whatever stands before it.  The key  *)
(* is the segment as it was sent: an extractor gets it percent-decoded, so *)
(* /%61 and /a are one value to a handler and two keys.                    *)
StickyKeyIsTheParameter ==
  \A e \in Sent :
    LET p == Meta(e).policy.router
    IN  p.kind = "PathSticky" /\ p.name \in ParamNames(Meta(e).route_path)
        /\ PlainPrefix(Meta(e).prefix) =>
          e.key = Captured(Meta(e).full, e.request.path, p.name)

(* The jump hash of one backend less, run to its end. *)
JumpOf(hash, buckets) ==
  LET run[i \in 0 .. buckets] ==
        IF i = 0 THEN NewJump(hash)
        ELSE IF Jumping(run[i - 1], buckets) THEN JumpStep(run[i - 1]) ELSE run[i - 1]
  IN  run[buckets].b

(* Adding a backend at the end of a pool moves keys to that backend only:  *)
(* a key that the larger pool does not send to its last backend stays      *)
(* where the smaller pool had it.                                          *)
KeysMoveOnlyToTheNewBackend ==
  \A e \in Sent :
    LET n == Len(Meta(e).pool)
    IN  Meta(e).policy.balancer = "ConsistentHash" /\ e.key # <<>> /\ n > 1 =>
          e.backend \in {n - 1, JumpOf(Xxh3(e.key), n - 1)}

(* What reaches either side is the other side's end-to-end headers, as     *)
(* they were: no hop-by-hop header, none that Connection nominates, nothing*)
(* else missing.  Host is the picked backend's, even if Connection names   *)
(* it.                                                                     *)
EndToEnd(headers) == DOMAIN headers \ (HopByHop \union {"connection"} \union Nominated(headers))
OnlyEndToEndHeadersPass ==
  \A e \in Sent : e.outcome = "forwarded" =>
    /\ DOMAIN e.headers = EndToEnd(e.request.headers) \union {"host"}
    /\ \A h \in DOMAIN e.headers \ {"host"} : e.headers[h] = e.request.headers[h]
    /\ e.headers["host"] = <<HeaderValue(Meta(e).pool[e.backend + 1].authority)>>
    /\ e.answer = Restrict(e.upstream, EndToEnd(e.upstream))

(* The jump hash ends, for every key and pool, with a backend picked: no   *)
(* key keeps a thread in its loop for ever (consistent_hash.rs).           *)
EveryPickEnds == flight.stage = "hashing" ~> flight.stage = "picked"
=============================================================================
