# Verification of apigate

apigate is an HTTP API gateway written in Rust: attribute macros declare routes,
a builder mounts them on backend pools, and a handler per request runs the
route's pipeline, picks a backend and proxies the request. This directory holds
TLA+ models of the gateway, the TLC configurations that check them on small
instances, and TLAPS proofs of what holds for all of them. `PROJECT.json` lists
the runs, the theorems, the mapping from definitions to source lines, the
hazards and the findings. Paths below are relative to `apigate-core/src/`
unless they name another crate.

Run a configuration with `tlc -config LeastRequestCounters.cfg MCLeastRequest`
and a proof with `tlapm LeastRequestProofs.tla`.

## The system and its parts

| Part | State | Operations | Interacts with |
|---|---|---|---|
| Dispatch (`app/dispatch.rs`) | the locals of one handler future | `proxy_handler`: start event, pipeline, `select_backend`, `proxy_to_backend` under `request_timeout`, upstream events, `on_result` | awaits the pipeline and the HTTP client; calls the policy's strategy and balancer, the observer, the error renderer |
| Least-request balancer | `in_flight` (a `OnceLock` slice of atomics), `offset` | `pick`, `on_start`, `on_result` | called by all handlers of all routes that share the policy object |
| Least-time balancer | `ewma_us` (likewise), `offset` | `pick`, `on_result` | the same |
| Round-robin balancer | `next` | `pick` | the same |
| Consistent-hash balancer | `offset` | `pick`: jump hash of the affinity key, or rotation | the same; keys come from the strategy |
| Routing strategies (`routing/`) | none | `route`: affinity key, candidate list | called by dispatch |
| Policy, backend pool | none after `build` | lookups | shared by `Arc` among routes and services |
| Proxy (`proxy.rs`) | none | rewrite the URI, strip hop-by-hop headers, send | called by dispatch |
| Builder (`app/build.rs`) | maps of pools and policies, mounted routes | setters, `build` | creates everything above |
| Request scope (`pipeline.rs`), parts context (`parts_ctx.rs`) | body, cached raw body, local values; URI and headers | `take_body`, `read_body_bytes`, `get`/`insert`/`take`, `set_encoded_query`, ... | used by generated pipelines and user hooks |
| Errors, events | none | mapping to statuses and texts; default log observer | used by all |
| Server, upstream settings | none beyond configuration | bind, serve, build the client | tokio, hyper |
| Macros (`apigate-macros`) | none (compile time) | parse attributes and templates, generate route tables and pipelines | emits calls of the facade crate |

The hard behaviours are in the balancers and in dispatch. The balancers are
lock-free objects shared by every handler thread; their `pick` and `on_result`
are sequences of relaxed atomics. Dispatch pairs its calls (`on_start` with
`on_result`, events with outcomes) across an await that races with a deadline
and at which the future can be dropped. Policy objects can be shared by services
with different pools. The rest is sequential: its hazards are boundaries
(prefixes, queries, hash buckets) and sequences of legal calls (body taken
twice, values taken from the scope, registrations overwritten).

What makes each part correct, as properties: see the hazard list in
`PROJECT.json`, where each hazard names the properties that would notice it.

The models cut the program in three, along its own seams:

* the shared, lock-free state: `LeastScan`, `LeastRequest`, `LeastTime`,
  `RoundRobin`, each with several handlers racing;
* the life of one request among others: `Dispatch`, and `Pipeline`, which is the
  inside of one of its steps;
* the program front to back, one request at a time: `Gateway`.

## The modules

**LeastScan** is the code that the least-request and the least-time balancer
share line by line: select a smallest value from a slice of atomics that
other handlers change meanwhile. Each atomic operation is an action:
`GetOrInit`, `TakeOffset` (`fetch_add` on the offset), one `LoadCell` per turn
of the loop. `PickNone` and `Reject` are the early returns of `pick` and of
`select_backend`. A slot is a handler; `stage` is where it is, and `first`,
`step`, `best`, `bestValue` are the locals `offset`, `i`, `best_index` and
`best_count` (`best_latency`). Words wrap at `W`, which stands for 2^64 (or
2^32). An index that the slice does not have reads 0, as in the code.

**LeastRequest** extends it with `OnStart`, `OnResult` and `Disconnect` (the
handler's future is dropped while upstream). `leaked` is a history variable.
**LeastRequestHistory** adds the lowest and highest load each backend really had
while a handler was scanning, to state what "fewest in flight" can mean.

**LeastTime** extends LeastScan with `on_result` of a success: `LoadAverage`,
then `Swap` or `SwapFails` until the weak compare-exchange gets through.
`NoSample` is everything else that can happen to a call that was started: an
error (an early return), an index the slice does not have, a dropped handler.
**Ewma** is the average; **Averages** is the abstract board, where a measured
sample is folded in atomically. `LeastTime!Board` is the refinement mapping: the
cells are the board, and a sample is pending while its handler is in the loop.

**RoundRobin** is `pick` of the round-robin balancer and of the consistent-hash
balancer without an affinity key; `served` is a history variable.

**Dispatch** is one handler per request. Between awaits a handler is not
interrupted by its own environment; its steps are still separate actions,
because other handlers run in between. `Handler` is the code; `Environment` is
the pipeline's result, the upstream, the timer, the client and a panicking
observer. The balancer is any implementation of the trait: it may pick any
index, one outside the pool, or none. `wire` is the upstream exchange as the
upstream sees it; `events`, `calls` and `answer` are the accounts that observer,
balancer and client have of the request.

**Errors**, **Observer**, **RequestScope**, **Handlers**, **RouteAttributes**
have no state of their own; each is a source file's functions as operators, named
as there:

* `Errors`: statuses, which errors carry details, and what the renderer is
  asked (`error/*.rs`);
* `Observer`: which lines the default observer writes of an event
  (`observability.rs`);
* `RequestScope`: every operation on body, raw body and values (`pipeline.rs`);
* `Handlers`: the signatures `#[apigate::hook]` and `#[apigate::map]` accept and
  how each parameter is bound (`apigate-macros/src/expand.rs`). `BorrowsClash` is
  external: what rustc would say of the bindings;
* `RouteAttributes`: from the arguments of `#[apigate::get(...)]` to the route
  and to the ordered steps of its generated pipeline (`route.rs`, `parse.rs`,
  `codegen.rs`).

**Pipeline** runs those steps for one request: `Expand` is the macro, `Start` the
entry of `run_pipeline_if_needed`, and there is one action for each kind of
generated step (`ExtractPath`, `ExtractQuery`, `RunHook`, `CheckContentType`,
`ParseQueryData`, `ReadBody`, `ParseBody`, `CloneRaw`, `RunMapOnBody`,
`RunMapOnQuery`, `KeepBytes`, `TakeBody`). A hook's or a map's body is
user code (`UserCode`): any calls its parameters let it make, one after the other, up
to `calls` of them. `CtxEffects` are those on the request head: the query, the URI as
a whole (also one in authority form, without a path), Content-Type and Content-Length
(`set_query`, `uri_mut`, `headers_mut`, `set_header`, `remove_header`, ...);
`ScopeEffects` and `MutEffects` those on body and values. A handler whose call failed
may return that error, or swallow it and go on, and any handler may return an error
of its own making (`Returns`; `HandlerErrors` are those it makes up). What a map returns
may not be serializable, and what becomes a query may not fit the URI
(`rebuild_uri_failed`). `trail` is a history variable: every write, what each
bound parameter found, and the errors that handlers made up.

What is promised of the head takes that into account. `ForwardedBodyIsDescribed`: a
body that a map replaced goes on without Content-Length, whoever wrote one, and with
its format's Content-Type; with any other body both are the client's, unless a hook or
the map wrote them. A hook that removes or invents a Content-Length and leaves the
body alone is believed, by the code as by the property. `OnlyValidRequestsAreForwarded`
has a clause for each check the code generates: path, query and body hold of the
request as the client sent it, because they are extracted before the hooks or from
bytes that no hook can replace; the data of a GET or HEAD form (`parse_form_query`) and
the Content-Type guards of forms and of mapped multipart bodies hold of the head as the
hooks left it, so of the client's own only if no hook wrote there.

`Pipeline!D` maps it to `Dispatch`: a pipeline is one step of it, `gone` is a
client that left at an await.

**RoutePaths** (`join`, matching, prefix stripping, templates, the sticky
parameter), **Services** (`#[apigate::service]`), **AppBuilder** (`build.rs`,
`upstream.rs`, policies), **ConsistentHash** (the jump hash, one turn at a time)
and **Listener** (`serve.rs`) are again operators. A path or a template is a
sequence of tokens, in which "/", "{" and "}" are themselves and any other token
is some text without them. What axum, http::Uri, hyper and socket2 do is modelled
as far as the code relies on it, and marked external in the map.

**Gateway** puts them in sequence: `Compile` (the macros), `CallBuilder` (one
call on `AppBuilder`), `Build`, `RunRouterWith`, then `Succeed` or `FailToBind`
for every system call, and, once listening, `Arrive` (routing, the strategy and the
balancer's pick), `Turn` (one turn of the jump hash) and `Forward` (`proxy.rs`).
`log` keeps what became of every request. Balancers other than the consistent
hash pick any backend here: which one is what their own modules are about.

An operator whose name marks a deviation (`Plus1Unbounded`, `SwapStores`,
`PollTimeoutDetaches`, ...) is not used by any specification. It is the
definition below it with a plausible bug, and `PROJECT.json` pairs it with the
property that notices.

## The runs

| Run | Instance | What it shows |
|---|---|---|
| LeastRequestCounters | 2 handlers, 2 services (pools of 1 and 2) on one policy, candidate lists that are empty, whole, repeated, out of the pool; 1 drop | counters are exact, also for indices of a pool other than the one that sized them; a pick is a candidate |
| LeastRequestFewest | 3 handlers, pool of 2, no drops | `NeverClearlyBusier` |
| LeastTimeSamples | 2 handlers, 2 services on one policy, samples 0, 1, 3, weight 2, 1 spurious failure | averages move towards samples, observed backends stay observed |
| LeastTimeBoard | 2 handlers on 1 backend, samples 1 and 4, weight 2, 1 spurious failure | the board implements `Averages` with its liveness |
| RoundRobinTurns | 3 overlapping picks, 3 candidates | turns are even |
| DispatchRequests | 2 requests, pool of 2, panicking observer | the accounts agree; every start is reported, every pick answered |
| PipelineRoutes | every combination of path, query, data, hooks, map and get/post, with requests of at most one defect, at three verbosities; every signature of up to 3 parameters over two types; every list of up to 3 of 10 arguments | who reads the body, what parameters find, what is forwarded and how it is described, that nothing unchecked passes, who is blamed and logged; the macros refuse what could not be bound and nothing else; the whole is one step of `Dispatch` |
| GatewayRequests | 18 service modules; every sequence of up to 3 of 21 builder calls; every `ServeConfig` of two values an option, on both address families; 48 requests on 2 route tables for each of 64 hashes | the built app is what the last calls say, or the failure has its cause; the socket is as configured; path, key, backend and headers are as declared; every pick ends |

Four more runs end in a violation, and that is their result. Each states what
a comment or a document says, and `findings` in `PROJECT.json` quotes it:

* **LeastRequestDropped** checks `NeverClearlyBusier` once a handler is dropped
  while upstream: its count is never taken back.
* **RoundRobinShared**: with the default policy shared by two services, the
  turns of a service depend on the other's traffic.
* **DispatchTotalTimeout**: the "total timeout" stops at the response head.
* **GatewaySlashedPrefix**: a prefix that ends in "/" is accepted and matched, and
  then every request of the service is forwarded as "/".

`NeverClearlyBusier` has two more limits, which the instance of LeastRequestFewest
stays within: one service per policy object (services that share one share its
counters, by pool position), and a list whose length divides the word (the one
scan that straddles the end of the word visits a candidate twice otherwise).
Two comments describe cases the code does not have: `NoBackends` ("Service has no
configured backends", `error/core_runtime.rs`) is never produced, an empty pool is
answered with the balancer's error (`Dispatch!RejectPick`); and a URI that cannot
be rewritten is reported as `UpstreamFailed` (`Dispatch!RewriteFails`), not as a
dispatch failure "before upstream I/O" (`observability.rs`).

Bounds. Two racing handlers are enough for a lost update, three for a pick that
sees one backend before and another after a change. Pools of 1 and 2 give an
index beyond the slice and a shared index. `W` is as small as the values allow, so the offset wraps in
every run; in the passing runs the pool's length divides it, as a power of two
does in the code. `MaxDisconnects` and `MaxSpurious` bound faults. A weight of 2
keeps averages small; the theorems do not depend on it. Dispatch needs no bound
but the number of requests. Its terminal stages are real ends, so those runs
switch deadlock checking off; so are a pipeline's result and a program's last
request.

A pipeline has no loop, so two user types (one that the application's state has, one
that it has not) and a body limit of 2 bytes, with a body that
fits and one that does not, are all its cases; a request with two defects fails
at the first. A handler makes one call, and two in a row on a route of each kind of
body (`TwoCallRoutes`), so that one can undo, or hide, what the other did; a header
removed and a body read, say. `MCErrors` has an error of every family, on
both sides of 500. The theorems have no such bounds: any number of calls, and any public
error with a status of 100 to 599 (the log levels of a status of 600 and more, which
`StatusCode` can hold, are not modelled). Three builder calls show every pair in both orders with a third
between or after them. `Word = 64`, `Top = 16`, `Multiplier = 13` shrink the jump
hash to where every key can be enumerated, with the same arithmetic; pools of
5, 2 and 0 backends meet it. `MaxCaptures = 2` (256 in the code) makes the template
that addresses one parameter too many short, and `MaxI32 = 2` the backlog that does
not fit. `program.load` bounds the requests of a run: one, or two for the empty pool, since
a request leaves nothing behind in this module.

Atomics. Every atomic operation acts on the latest value of its cell. For
`fetch_add`, `fetch_sub` and compare-exchange that is what the memory model
says, so the statements about counts, turns and averages hold as they stand. A
relaxed load may return an older value; `NeverClearlyBusier` holds for loads
that see what has happened, not for a delayed one.

Fairness. `Dispatch!Fairness` says that a woken handler is polled and that a
timer that is due fires: tokio's scheduling. Nothing is assumed of upstreams,
clients and pipelines. `LeastTime!FairSpec` says that a thread inside `on_result`
keeps running; it does not say who wins a race, and spurious failures are
finitely many. A single sample may wait for ever while others land (the loop is
lock-free, not wait-free), so `Averages` promises progress of some sample only.
`Gateway!FairSpec` says that a thread in the loop of the jump hash keeps running,
and nothing else.

## The proofs

`LeastScanProofs` proves what every step of `select_backend` preserves, as long
as no cell holds the greatest word (`CellsBelowMax`). `ScanIInv` adds to the types
and to `PicksACandidate` that the slice exists once anyone scans, that a handler
past `select_backend` holds an index of its pool, and that a scan past its first
turn has a candidate. The greatest word matters because the scan starts from it
and takes what is strictly smaller: a cell that reached it could never be
picked, and `pick` could end with `None`.

`LeastRequestProofs` proves `TypeOK`, `Accounting` and `PicksACandidate` for all
parameters. Neither of the last two is provable without the other: a choice
keeps a count exact only if it is an index of the pool, and counts bounded by
the number of handlers (plus those dropped) keep a cell below the greatest word.
The bound is `SlotsAssumption`: handlers and drops together are fewer than a
word can count. `NoEarlyLoss` and `LossesBounded` account for drops.

The same module proves `NeverClearlyBusier` under its two limits and without
drops (`Undisturbed`), for any number of handlers and backends. Its invariant says how far a scan has come: the best count is at most the highest load
of every candidate looked at (`BestIsLeast`) and at least the lowest load of the
one it was read from (`BestIsReal`), because a counter is the load (`Accounting`) and
the window holds the load of this moment (`WindowIsOpen`). `TurnsCoverTheList` is
where the offset's wrap comes in: `TurnOf` numbers the candidates 0 to n - 1 in the
order of the scan, so after n turns all have been looked at.

`LeastTimeProofs` proves that the average lies between the old average and the
sample and does not return to 0, for every weight above 1; hence the u64 expression
cannot overflow, and the models need no wrap-around there. From that it
proves that the averages stay below the greatest word (`CellsBelowMax`,
given that no latency is u64::MAX microseconds), `PicksACandidate`, both action
properties, and the safety part of the refinement (`BoardIsAverages`): a load is
`Measure`, a successful compare-exchange is `Record`, the rest stutters.

`DispatchProofs` proves `TypeOK`, `BalancerProtocol`, `EventsTellTheStory` and
`AccountsAgree` for any number of requests, any pool and any balancer. None of
them is inductive: they look at what has been said, and the next step adds to it.
The inductive invariant `IInv` gives, for every place a handler can be at, the very
events and calls made so far and the answer given (`Silent`, `Open`, `Chosen`,
`Accepted`, `Counted`, `Observed`, `Told`, or an early end), and ties the wire to
the result (`Resolved`). A step moves one request from one of these to another and
leaves the rest alone (`Moves`, `OthersStay`), so there is one lemma an action. A
handler that is gone can have stopped at five of the places, which is why the
properties ask for prefixes.

`RoundRobinProofs` proves `TurnsAreEven` for a policy of one service whose list
names no index twice and has a length that divides the word (`Rotation`; otherwise
the wrap starts a new round early). The invariant ties turns to the counter: the
candidates before the one that is due have had one turn more than the rest, turns in
hand included. `fetch_add` moves both sides by the candidate that is due, and
returning a pick moves its turn from in hand to served.

`NumbersAndLists` holds the facts about truncating division, remainders, maxima and
lists that the other proofs share.

`PipelineProofs` proves every property of the run PipelineRoutes for every
constant `Cases` that `CasesAssumption` allows: attributes and signatures of any
length over the data types, requests with any mixture of defects, any values in
the state of the application, any number of calls a handler makes; and for every
set of errors that handlers make up out of the public ones (`HandlerErrorsAssumption`).
Nothing is assumed of what user code does beyond what its parameters let it reach:
`UserCodeIsOK` shows, by induction over the calls (`CallsOneByOne`, again by a least
counterexample), that what every single call keeps is kept. The invariant, `IInv`, has four parts, and the
run's instance satisfies it:

* `LifeOK`: what was given stays; the route is what the macros make of the
  attributes; events and log lines are a function of the stage and the error
  (`AccountOK`). It is inductive by itself, because every action of a running
  pipeline is one of three things (`StepsOfAPipeline`): it goes on, fails or ends.
  `FailuresAreLogged` follows, and, together with the shape of the events, the
  refinement of `Dispatch`: a pipeline that goes on is a stutter there.
* `TodoOK`: what is left to do is the end of the generated program. `ProgramInOrder`
  says of every route that its program has exactly the steps that its declaration asks
  for, ordered by phase (`Rank`), with a handing over of the body last. So the step
  that is due tells which phases are over.
* `DataOK`: the trail tells the truth. The latest entry of a type is what the
  scope holds (`LastIn`), the entry of a parameter is what was there when it was
  bound (`EntryOK`), query, Content-Type, Content-Length and body are the
  client's unless an entry says otherwise,
  and for each check of the declaration, it is passed or its step is still pending
  (`PromisesOK`). That holds through user code because every effect it may have on
  the scope or the head is in the trail (`KeepsOK`, proved once for each kind of
  effect).
* `OutcomeOK`: a failure has somebody to blame, a success delivers what the
  declaration says. None of the properties of Pipeline is inductive: they look at the
  trail and the outcome, and the step that fails or forwards must know that the
  phases before it did their work, which is what the other parts say.

Two theorems there are about the macros alone. `MacrosRefuseWhatCannotBind`:
bindings come in six blocks, one per source (`BindingsInBlocks`), and a `&mut`
clashes exactly with what stands before or after it, which is what
`validate_plans` counts. `ArgumentsInAnyOrder`: after n arguments a slot holds
the value of the one argument that names it, and none is in error unless
two name one slot (`RouteArgsSumUp`); neither speaks of order. Both are about
recursive functions, whose equations are proved by the least counterexample
(`NoLeastBad`) instead of an induction theorem.

`GatewayProofs` proves all ten invariants of GatewayRequests for every
`GatewayAssumption`: any modules and calls that compile, in any number; any
`ServeConfig`; any hash function into words; any requests and responses. The
assumption is what rustc, the grammar of the attributes and hyper guarantee
(`SetterTakes`: a call is a method that there is, with a list where it takes one, and
a route that is mounted is compiled; `Written`: prefixes, paths and `to` are string
literals; the path of a request is the path of a URI). The invariant, `IInv`, has
three parts:

* `SetupOK`: after `done` calls the builder is what those calls make of it
  (`BuilderOK`): each map has exactly the keys that calls wrote, with the value of
  the last (`Follows`), each knob its last word (`WordBy`), `mounted` the services
  mounted so far. After that the app is one of those that `build` can return. From it
  follow, by what mounting keeps at every route (`AccOK`: the table is
  the first declarations, resolved, and if it stopped, then for a reason that the next
  one gives), `PoolsAreTheLastRegistered`, `KnobsFollowTheLastCall`,
  `BuiltAppsAreComplete` and `RefusalsHaveACause`.
* `SocketOK`: the system calls made, followed by those to make, are the list that
  `bind_listener` computes. That list does what the configuration asks
  (`BindIsConfigured`), and `ListenerIsAsConfigured` is what is left when none is
  still to make.
* `TrafficOK`: a request in flight was matched by its route and has the key that the
  route's strategy gives (`TakenBy`); it is in a loop that is `LoopOK`, or has picked a
  backend that is `PickOK`. Every entry of the log that was sent on is one of the
  latter, and was forwarded to what `RewritePath` makes of its path, or that is no
  path of a URI (`WayOK`). `LoopOK`
  is the reason why consistent hashing works: until the loop passes the last backend
  of the pool, it is the loop of the pool without it, turn by turn (`JumpRun`), so a
  key goes to the last backend or where it went before. `TheLoopAdvances` says that `j`
  grows at every turn, whatever the key. Numbers are unbounded here. In the code `j` and `b`
  are i64, and `j <= (b + 1) * 2^31` stays below 2^63 for every pool below 2^32
  backends.

Two of the ten are about texts. What the router sees is the whole path, matched
against prefix and route joined; what `proxy.rs` and `path_sticky.rs` see is a rest of
it, cut in segments by code of their own, against a template the macro compiled. The
argument that they agree goes in four steps:

1. Cutting a text in pieces is compositional: the pieces of a text, "/" and another
   are those of the one and those of the other (`PiecesJoin`, `PiecesRooted`,
   `PiecesSplit`). So a path that matches a literal prefix joined with a route begins
   with that prefix, and the rest of it matches the route piece by piece.
2. A parameter matches a piece that is not empty, and any other piece matches
   itself. So the pieces of the rest are empty where the route's are, its n-th segment
   stands where the route's does, and the sticky key is the segment that the router
   matched with the parameter (`KeyIsCaptured`), as it was sent. `capture_raw` does not skip empty segments; where the route has no
   doubled slash there are none, but for what follows a last slash, and it captures, in
   order, the segments that the router matches by name (`RawCaptures`).
3. `parse_rewrite_target` is followed token by token (`KeepsUp`): what a text read up
   to here comes to, with every parameter replaced, is what is rendered of the chunks
   emitted so far. It is outside braces, just inside, inside with a name, or in a state
   that it will refuse. A template that compiled ended outside, so it renders what
   the text says (`TemplateRenders`).
4. That a mounted route's template is the compiled one, of its own path and `to`, is
   carried from the attributes through `expand_service`, the mounting and the
   route table (`DeclarationsAreOK`, `MetasAreOK`).

`UpstreamPathIsAsDeclared` also says that such a request is not refused: the segments
match (step 2), and what is rendered is of tokens that a URI can hold, because
those of the request and of `to` are.

None of the ten is inductive: they look at the calls as a whole, at the end of
`build`, or at the log. Mounting, configurers, declarations, the jump hash,
the pieces of a text, templates and the arguments of `#[service]` are
recursive functions in the model. For each, one lemma shows that the recursion
defines a function (`...AreDefined`, by the least counterexample), one gives its
equations, and one what it keeps from turn to turn. TLC cannot evaluate `IInv` (it
speaks of those functions by what defines them); it checks the ten properties.
The model writes filters, searches and concatenations as such functions too
(`Chosen`, `First`, `Flatten` in `RoutePaths`), since the community modules' operators
for them are recursive operators underneath, and the router's choice as a set (`Best`)
instead of a `CHOOSE`, since that two paths which match one request are the same if
neither beats the other is not needed for anything here. No prover knows that the
literal "/" is a string, so the lemmas are about texts of any tokens, and are used with
`Tokens`.

Only model-checked: liveness (`EveryStartIsReported`, `EveryPickIsAnswered`,
`EveryPickEnds`, the liveness in `ImplementsAverages`), which is out of the prover's reach. Every invariant and every
action property of the passing runs is a theorem.

## Edges of the code that the models show

None of these contradicts a promise of the repository; they are where a reader of
the models should not expect more than the code does.

* A prefix that contains a parameter (`/{tenant}`) matches, but `strip_prefix`
  compares text, so it is not stripped, and a path-sticky policy below it reads the
  wrong segment. `UpstreamPathIsAsDeclared` and `StickyKeyIsTheParameter` are for
  literal prefixes (`PlainPrefix`), the only ones the documentation shows.
* Keys and templates take the segment as it was sent; axum percent-decodes what it
  hands to extractors. `/%61` and `/a` are one captured value and two keys, so a client
  that encodes a path in more than one way is spread over backends. The documentation
  does not speak of it, and `StickyKeyIsTheParameter` is about the segment as sent.
* A hook can rewrite the path (`uri_mut`) after the router matched it, and strategy and
  rewrite then see the new one. `Gateway` has no hooks: what it says of keys and
  upstream paths is for requests whose path no hook wrote.
* Parameters that share a name are refused in a route with a template only
  (`RouteSourceParses`); without one, a path-sticky policy takes the first of them.
* A template's rewrite matches the request against the route's own segments; with
  doubled slashes in the route's path, or a wildcard `{*rest}`, it does not match
  and every request is answered 502. `UpstreamPathIsAsDeclared` is for paths without
  them, whose parameters are a name in one pair of braces (`PlainPath`).
* A `to` that is not text of a URI panics in `build` when it is fixed, and is a 502 of
  every request when it is a template. A `to` with "}" and no "{" is fixed.
* Two routes of one method and path, and a path that axum refuses, panic in
  `build` instead of being an `ApigateBuildError`.
* The path of a backend's URL is dropped. A pool may be empty: the error
  comes with the first request.
* Every error while a body is read, a broken connection too, is a 413.
* Without any socket option the listener gets tokio's backlog, with any it gets
  `default_listen_backlog`.

## What is left, in order

1. Dispatch composed with a balancer: handlers that drive LeastRequest through the
   whole of `proxy_to_backend`, drops and panics included. The parts meet at
   `BalancerProtocol`, which LeastRequest relies on and Dispatch is proved to keep.
2. A history for LeastTime like the one for LeastRequest.
3. `TurnsAreEven` and `NeverClearlyBusier` where the length of the list does not
   divide the word: how far a wrap sets them back.

## Not modelled

* The query string along a rewrite (it is passed on as it is); headers other than
  Content-Type and Content-Length, and extensions, in `parts_ctx.rs`; `tcp_nodelay` of
  accepted connections (a closure that tokio runs for each stream), TLS and HTTP/2 of
  the client: I/O of libraries.
* `HrtbRewriter`, `finish_predicate`, `apply_map_output`: type plumbing of the
  generated code with no effect at run time; the compiler checks it.
* `candidate_backend` and `is_candidate` of the balancer interface: read-only
  lookups for user code. `route_stub`: never called.
* A user's `error_renderer`: the builder stores it, but no property compares it, and errors
  are rendered with the default one.
* Texts of errors and of log lines.
