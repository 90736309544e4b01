----------------------------- MODULE AppBuilder -----------------------------
(***************************************************************************)
(* app/build.rs and app/upstream.rs, with policy.rs, backend.rs and the    *)
(* core's route.rs: what each call on an AppBuilder does to it, and what   *)
(* build makes of the result: an app, an ApigateBuildError or a panic.     *)
(***************************************************************************)
EXTENDS Services

Over(f, key, value) == [k \in DOMAIN f \union {key} |-> IF k = key THEN value ELSE f[k]]
NoEntries == [k \in {} |-> "none"]

(* policy.rs; `id` tells the Arc'd objects of different policies apart. *)
NoRouteKey       == [kind |-> "NoRouteKey", name |-> <<>>]
HeaderSticky(h)  == [kind |-> "HeaderSticky", name |-> <<h>>]
PathSticky(p)    == [kind |-> "PathSticky", name |-> p]
NewPolicy(id)    == [id |-> id, router |-> NoRouteKey, balancer |-> "RoundRobin"]
Router(p, r)     == [p EXCEPT !.router = r]
Balancer(p, b)   == [p EXCEPT !.balancer = b]

HeaderStickyPolicy(id, h) == Balancer(Router(NewPolicy(id), HeaderSticky(h)), "ConsistentHash")
PathStickyPolicy(id, p)   == Balancer(Router(NewPolicy(id), PathSticky(p)), "ConsistentHash")
HashPolicy(id)            == Balancer(NewPolicy(id), "ConsistentHash")
LeastRequestPolicy(id)    == Balancer(NewPolicy(id), "LeastRequest")
LeastTimePolicy(id)       == Balancer(NewPolicy(id), "LeastTime")
RoundRobinPolicy(id)      == Balancer(NewPolicy(id), "RoundRobin")

-----------------------------------------------------------------------------
(* upstream.rs.  A configurer is what user code does to the hyper objects. *)

NewUpstream == [connect_timeout |-> 5, pool_idle_timeout |-> 90,
                pool_max_idle_per_host |-> "max", tcp_nodelay |-> TRUE,
                client_configurers |-> <<>>, connector_configurers |-> <<>>]

ConfigureUpstream(u, c) ==
  IF c.field \in {"client_configurers", "connector_configurers"}
  THEN [u EXCEPT ![c.field] = Append(@, c.value)]
  ELSE [u EXCEPT ![c.field] = c.value]
UpstreamOf(calls) == FoldLeft(ConfigureUpstream, NewUpstream, calls)

RunConfigurers(settings, configurers) ==
  LET s[k \in 0 .. Len(configurers)] ==
        IF k = 0 THEN settings
        ELSE [s[k - 1] EXCEPT ![configurers[k].field] = configurers[k].value]
  IN  s[Len(configurers)]

BuildClientSettingsLast(u) ==
  LET connector == RunConfigurers([nodelay |-> TRUE, connect_timeout |-> 0, keepalive |-> 0],
                                  u.connector_configurers)
      client == RunConfigurers([pool_idle_timeout |-> 0, pool_max_idle_per_host |-> 0],
                               u.client_configurers)
  IN  [connector |-> [connector EXCEPT !.nodelay = u.tcp_nodelay,
                                       !.connect_timeout = u.connect_timeout,
                                       !.keepalive = u.pool_idle_timeout],
       client |-> [client EXCEPT !.pool_idle_timeout = u.pool_idle_timeout,
                                 !.pool_max_idle_per_host = u.pool_max_idle_per_host]]

BuildClient(u) ==
  [connector |-> RunConfigurers([nodelay |-> u.tcp_nodelay,
                                 connect_timeout |-> u.connect_timeout,
                                 keepalive |-> u.pool_idle_timeout], u.connector_configurers),
   client |-> RunConfigurers([pool_idle_timeout |-> u.pool_idle_timeout,
                              pool_max_idle_per_host |-> u.pool_max_idle_per_host],
                             u.client_configurers)]

-----------------------------------------------------------------------------
(* The builder. *)

NewBuilder ==
  [backends |-> NoEntries, mounted |-> <<>>, policies |-> NoEntries,
   default_policy |-> RoundRobinPolicy("default"), request_timeout |-> 30,
   upstream |-> NewUpstream, map_body_limit |-> 2, state |-> NoEntries,
   error_renderer |-> "default", runtime_observer |-> "none"]

Register(b, service, urls) == [b EXCEPT !.backends = Over(@, service, urls)]
RegisterFirst(b, service, urls) ==
  IF service \in DOMAIN b.backends THEN b ELSE Register(b, service, urls)
Mount(b, routes) == [b EXCEPT !.mounted = Append(@, routes)]

MountServiceKeepsPool(b, routes, urls) == Mount(RegisterFirst(b, routes.service, urls), routes)

MountService(b, routes, urls) == Mount(Register(b, routes.service, urls), routes)

(* One call: `field` is the setter's, "backend", "policy", "state", ...    *)
Configure(b, c) ==
  CASE c.field = "backend"       -> Register(b, c.key, c.value)
    [] c.field = "policy"        -> [b EXCEPT !.policies = Over(@, c.key, c.value)]
    [] c.field = "state"         -> [b EXCEPT !.state = Over(@, c.key, c.value)]
    [] c.field = "mount"         -> Mount(b, c.value)
    [] c.field = "mount_service" -> MountService(b, c.value, c.key)
    [] c.field \in {"connect_timeout", "pool_idle_timeout", "pool_max_idle_per_host"} ->
         [b EXCEPT !.upstream[c.field] = c.value]
    [] OTHER                     -> [b EXCEPT ![c.field] = c.value]

-----------------------------------------------------------------------------
(* build. *)

(* BaseUri::parse: a URL is what http::Uri makes of it, which has an       *)
(* authority whenever it has a scheme; the path of the URL is dropped.     *)
UriError(url) ==
  CASE ~url.valid              -> "InvalidUri"
    [] url.valid /\ url.scheme = "none" -> "MissingScheme"
    [] OTHER                   -> "none"
BaseUri(url) == [scheme |-> url.scheme, authority |-> url.authority]
Pool(urls)   == [i \in DOMAIN urls |-> BaseUri(urls[i])]

BadUrls(urls) == {i \in DOMAIN urls : UriError(urls[i]) # "none"}

Outcome(result, kind, about) == [result |-> result, kind |-> kind, about |-> about]
Stopped(acc) == acc.outcome.result # "built"
Stop(acc, result, kind, about) == [acc EXCEPT !.outcome = Outcome(result, kind, about)]

(* The service map is iterated in no particular order. *)
UriFailures(backends) ==
  {Outcome("error", "InvalidBackendUri", s) : s \in {t \in DOMAIN backends : BadUrls(backends[t]) # {}}}

EffectivePolicyOfService(routes, rd) ==
  IF routes.policy # <<>> THEN routes.policy ELSE rd.policy

EffectivePolicy(routes, rd) == IF rd.policy # <<>> THEN rd.policy ELSE routes.policy

ResolvePolicyOrDefault(b, name) ==
  IF name # <<>> /\ name[1] \in DOMAIN b.policies THEN <<b.policies[name[1]]>>
                                                  ELSE <<b.default_policy>>

ResolvePolicy(b, name) ==
  CASE name = <<>> -> <<b.default_policy>>
    [] name # <<>> /\ name[1] \in DOMAIN b.policies -> <<b.policies[name[1]]>>
    [] OTHER -> <<>>

(* axum panics on a path without its "/", on the same method twice, and on *)
(* two paths that differ in the names of their parameters only.            *)
Shape(path) == [k \in DOMAIN Pieces(path) |->
                  IF ParamAt(path, k) THEN <<"{", "}">> ELSE Pieces(path)[k]]
Overlaps(meta, method, path) ==
  Shape(meta.full) = Shape(path) /\ (meta.full # path \/ meta.method = method)
AxumPanics(table, method, path) ==
  \/ path = <<>> \/ Head(path) # "/"
  \/ \E i \in DOMAIN table : Overlaps(table[i], method, path)

(* mount_routes, one route; `acc` is the table so far and how it went. *)
MountRoute(acc, b, routes, rd) ==
  LET name == EffectivePolicy(routes, rd)
      full == Join(routes.prefix, rd.path)
      meta == [service |-> routes.service, route_path |-> rd.path, prefix |-> routes.prefix,
               rewrite |-> rd.rewrite, pool |-> Pool(b.backends[routes.service]),
               policy |-> ResolvePolicy(b, name), method |-> rd.method, full |-> full,
               to |-> rd.to]
      panics == \/ rd.rewrite.kind = "Static" /\ ~UriText(rd.rewrite.to)
                \/ AxumPanics(acc.table, rd.method, full)
  IN  IF Stopped(acc) THEN acc
      ELSE IF meta.policy = <<>> THEN Stop(acc, "error", "PolicyNotRegistered", name[1])
      ELSE IF panics THEN Stop(acc, "panicked", "none", "none")
      ELSE [acc EXCEPT !.table = Append(@, [meta EXCEPT !.policy = @[1]])]

MountRoutes(acc, b, routes) ==
  LET a[k \in 0 .. Len(routes.routes)] ==
        IF k = 0 THEN acc ELSE MountRoute(a[k - 1], b, routes, routes.routes[k])
  IN  IF Stopped(acc) THEN acc
      ELSE IF routes.service \notin DOMAIN b.backends
      THEN Stop(acc, "error", "BackendNotRegistered", routes.service)
      ELSE a[Len(routes.routes)]

(* mount_routes for every service, in the order they were mounted. *)
MountAll(b, outcome) ==
  LET a[k \in 0 .. Len(b.mounted)] ==
        IF k = 0 THEN [table |-> <<>>, outcome |-> outcome]
        ELSE MountRoutes(a[k - 1], b, b.mounted[k])
  IN  a[Len(b.mounted)]

BuildFrom(b, outcome) ==
  LET end == MountAll(b, outcome)
  IN  [outcome |-> end.outcome, table |-> end.table, client |-> BuildClient(b.upstream),
       state |-> b.state, request_timeout |-> b.request_timeout,
       map_body_limit |-> b.map_body_limit, error_renderer |-> b.error_renderer,
       runtime_observer |-> b.runtime_observer]

(* The apps, or the failures to build one, that a builder can end as. *)
Builds(b) == IF UriFailures(b.backends) = {} THEN {BuildFrom(b, Outcome("built", "none", "none"))}
             ELSE {BuildFrom(b, f) : f \in UriFailures(b.backends)}
=============================================================================
