------------------------------ MODULE Pipeline ------------------------------
(***************************************************************************)
(* One route, from its attributes to what its pipeline does with one       *)
(* request: the code generated by codegen.rs running on RequestScope and   *)
(* PartsCtx, inside run_pipeline_if_needed of dispatch.rs.  What a hook or *)
(* a map does is up to its author, within what its parameters let it       *)
(* reach.                                                                  *)
(*                                                                         *)
(* Here and in the modules this one extends, a definition just before one  *)
(* it is named after is the same code with a plausible bug in it; the      *)
(* mutation runs put it in its place.                                      *)
(***************************************************************************)
EXTENDS Observer, RouteAttributes

CONSTANTS
  Cases,          \* which routes meet which requests, at which log levels, and
                  \* how many calls a handler of theirs may make
  HandlerErrors   \* the errors that handlers make up and return

ContentTypes == {"json", "form", "multipart", "other"}
ClientRequests ==
  [path : {"good", "bad"}, query : {"none", "good", "bad"},
   ctype : ContentTypes, clen : {"none", "client"},
   body : [bytes : {"good", "bad"}, len : Nat, broken : BOOLEAN]]

ASSUME CasesAssumption ==
  \A c \in Cases :
    /\ \A attrs \in c.routes :
         /\ RouteAttrs(attrs) # {}
         /\ \A i \in DOMAIN attrs :
              /\ Len(attrs[i].args) \in Nat
              /\ DOMAIN attrs[i].args = 1 .. Len(attrs[i].args)
              /\ \A k \in DOMAIN attrs[i].args : WellTyped(attrs[i].args[k])
    /\ c.requests \subseteq ClientRequests
    /\ c.levels \subseteq DOMAIN Severity
    /\ c.calls \in Nat
    /\ c.state \in [DataTypes -> Origins \union {Absent}]

ASSUME HandlerErrorsAssumption == HandlerErrors \subseteq AnyError

VARIABLES
  given,     \* the case: what never changes
  route,     \* what the attributes expand to
  stage,     \* declared, rejected, ready, running, forwarded, failed, gone
  todo,      \* generated steps still to run
  head,      \* the parts of the request head that steps rewrite
  scope,     \* the RequestScope
  bytes,     \* the local the generated code reads the body into
  sent,      \* the body handed to the proxy
  error,     \* the ApigateError the pipeline returned
  emitted,   \* runtime events: kind and error
  logs,      \* lines of the default observer
  trail      \* every write, and what every bound parameter found, in order

work == <<head, scope, bytes, trail>>
told == <<error, emitted, logs>>
vars == <<given, route, stage, todo, head, scope, bytes, sent, error, emitted, logs, trail>>

Request == given.request
Now     == todo[1]
Reaches(op) == stage = "running" /\ Now.op = op

Valid(text) == text # "bad"     \* the declared type deserializes from it

-----------------------------------------------------------------------------
(* Compilation: the macros, and rustc on the type of the map's input. *)

Compiles(r) == (\A sig \in RouteHandlers(r) : Accepts(sig)) /\ MapFits(r)

Expand ==
  /\ stage = "declared"
  /\ route' = IF Expands(given.attrs) THEN ExpandRoute(given.attrs) ELSE route
  /\ stage' = IF Expands(given.attrs) /\ Compiles(route') THEN "ready" ELSE "rejected"
  /\ UNCHANGED <<given, todo, sent, work, told>>

(* dispatch.rs: the event goes to the observer. *)
Emit(kind, e) ==
  /\ emitted' = Append(emitted, [kind |-> kind, error |-> e])
  /\ logs' = logs \o Observe(kind, e, given.verbosity)

(* The handler starts: no pipeline means the body goes on as it came. *)
Start ==
  /\ stage = "ready"
  /\ todo' = PipelineSteps(route)
  /\ stage' = IF HasPipeline(route) THEN "running" ELSE "forwarded"
  /\ sent' = IF HasPipeline(route) THEN sent ELSE "stream"
  /\ Emit("RequestStart", NoError)
  /\ UNCHANGED <<given, route, work, error>>

Advance == todo' = Tail(todo) /\ UNCHANGED <<given, route, stage, sent, told>>

(* Any `?` or Err of the pipeline: emit_pipeline_failure, then the answer. *)
FailWithoutReturn(e) ==
  /\ error' = e /\ todo' = Tail(todo)
  /\ Emit("PipelineFailedFramework", e)
  /\ UNCHANGED <<given, route, stage, sent>>

FailIgnoresCustom(e) ==
  /\ stage' = "failed" /\ error' = e /\ todo' = <<>>
  /\ Emit("PipelineFailedFramework", e)
  /\ UNCHANGED <<given, route, sent>>

Fail(e) ==
  /\ stage' = "failed" /\ error' = e /\ todo' = <<>>
  /\ Emit(IF IsFramework(e) THEN "PipelineFailedFramework"
                            ELSE "PipelineFailedCustom", e)
  /\ UNCHANGED <<given, route, sent>>

Forward(body) ==
  /\ stage' = "forwarded" /\ sent' = body /\ todo' = <<>>
  /\ UNCHANGED <<given, route, told>>

-----------------------------------------------------------------------------
(* Path and query values, extracted before any hook runs. *)

Extract(op, ok, err) ==
  /\ Reaches(op)
  /\ \/ /\ ok /\ Advance
        /\ scope' = Insert(scope, Now.arg, op)
        /\ trail' = Append(trail, <<"set", Now.arg, op>>)
        /\ UNCHANGED <<head, bytes>>
     \/ ~ok /\ Fail(err) /\ UNCHANGED work

ExtractPath  == Extract("path", Request.path = "good", Core("invalid_path_parameters"))
ExtractQuery == Extract("query", Valid(head.query), Pipe("invalid_query"))

-----------------------------------------------------------------------------
(* Hooks and maps: the bindings, then user code. *)

Outcome(h, s, t, e) == [head |-> h, scope |-> s, trail |-> t, error |-> e]

(* set_encoded_query: nothing to do, or a URI that has a path and a text   *)
(* that a URI has room for.  If neither, it fails and changes nothing.     *)
QueryFits(h, text) ==
  \/ text = "empty" /\ h.query = "none"
  \/ h.path # "none" /\ text # "oversized"
SetEncodedQuery(h, text) == [h EXCEPT !.query = IF text = "empty" THEN "none" ELSE text]

(* What a handler may put in the place of the URI: one in origin or        *)
(* absolute form, or one without a path (authority form).                  *)
HookedUris == [path : {"hooked"}, query : {"none", "hooked", "bad"}]
              \union [path : {"none"}, query : {"none"}]

(* What one call does, or an assignment through what it returns.  A call   *)
(* on PartsCtx that is refused does nothing.                               *)
CtxEffects(h, s, t) ==
  {Outcome(SetEncodedQuery(h, q), s, Append(t, <<"head", "query", q>>), NoError) :
     q \in {text \in {"hooked", "bad", "empty"} : QueryFits(h, text)}}
  \union {Outcome([h EXCEPT !.path = u.path, !.query = u.query], s,
                  Append(t, <<"head", "query", u.query>>), NoError) : u \in HookedUris}
  \union {Outcome([h EXCEPT !.ctype = c], s, Append(t, <<"head", "ctype", c>>), NoError) :
            c \in ContentTypes}
  \union {Outcome([h EXCEPT !.clen = n], s, Append(t, <<"head", "clen", n>>), NoError) :
            n \in {"none", "hooked"}}

MutEffects(h, s, t, types) ==
  {Outcome(h, Insert(s, x, "hook"), Append(t, <<"set", x, "hook">>), NoError) : x \in types}

BodyNote(s) == <<"body", "handler", IF HasBody(s) THEN "taken" ELSE "gone">>

ScopeEffects(h, s, t) ==
  MutEffects(h, s, t, DataTypes)
  \union {Outcome(h, AfterTake(s, x), Append(t, <<"Take", x, Get(s, x)>>), NoError) :
            x \in DataTypes}
  \union {Outcome(h, AfterTakeBody(s), Append(t, BodyNote(s)), NoError),
          Outcome(h, AfterRead(s, Request.body), Append(t, BodyNote(s)),
                  IF CanRead(s, Request.body) THEN NoError ELSE Pipe(ReadFailure(s)))}

Effects(sig, h, s, t) ==
  (IF BindsCtx(sig) THEN CtxEffects(h, s, t) ELSE {})
  \union (IF CountOf(sig, "RequestScope") > 0 THEN ScopeEffects(h, s, t) ELSE {})
  \union MutEffects(h, s, t, {p.type : p \in {q \in Range(Plans(sig)) : Source(q) = "Mut"}})

(* How a handler returns: with the error of its last read, without it, or  *)
(* with an error of its own, any public one included.                      *)
Returns(o) ==
  {o, Outcome(o.head, o.scope, o.trail, NoError)}
  \union {Outcome(o.head, o.scope, Append(o.trail, <<"handler", "returned", e.code>>), e) :
            e \in HandlerErrors}

(* User code: up to given.calls calls, one after the other, and a return. *)
UserCode(sig, h, s, t) ==
  LET upTo[n \in 0 .. given.calls] ==
        IF n = 0 THEN {Outcome(h, s, t, NoError)}
        ELSE UNION {{o} \union Effects(sig, o.head, o.scope, o.trail) : o \in upTo[n - 1]}
  IN  UNION {Returns(o) : o \in upTo[given.calls]}

Call(sig) ==
  LET b == Bind(sig, scope)
      t == trail \o b.seen
  IN  IF b.missing THEN {Outcome(head, b.scope, t, Pipe("missing_from_scope"))}
                   ELSE UserCode(sig, head, b.scope, t)

RunHook ==
  /\ Reaches("hook")
  /\ \E o \in Call(Now.arg) :
       /\ scope' = o.scope /\ trail' = o.trail /\ head' = o.head
       /\ IF o.error = NoError THEN Advance ELSE Fail(o.error)
  /\ UNCHANGED bytes

(* Finish: a () output keeps what is there; anything else is serialized,  *)
(* which only raw payloads cannot fail to be, and may be too long for a    *)
(* query.                                                                  *)
Payloads(sig, kind) ==
  IF sig.output = "unit" THEN {"keep"}
  ELSE {"mapped", "empty"}
       \union (IF kind \in {"json", "form", "query"} THEN {"unserializable"} ELSE {})
       \union (IF kind = "query" THEN {"oversized"} ELSE {})

(* map_replace_or_keep: only a replaced body is described anew. *)
DescribedOnlyByType(h, kind, payload) ==
  IF payload = "keep" THEN h
  ELSE [h EXCEPT !.ctype = IF kind \in {"json", "form"} THEN kind ELSE @]

Described(h, kind, payload) ==
  IF payload = "keep" THEN h
  ELSE [h EXCEPT !.clen = "none",
                 !.ctype = IF kind \in {"json", "form"} THEN kind ELSE @]

RunMapOnBody ==
  /\ Reaches("map_body")
  /\ LET kind == route.data.kind
     IN  \E o \in Call(Now.arg), payload \in Payloads(Now.arg, kind) :
           /\ scope' = o.scope /\ trail' = o.trail
           /\ IF o.error # NoError THEN Fail(o.error) /\ head' = o.head
              ELSE IF payload = "unserializable"
              THEN /\ head' = o.head
                   /\ Fail(Pipe(IF kind = "json" THEN "serialize_mapped_json_failed"
                                                 ELSE "serialize_mapped_form_failed"))
              ELSE /\ head' = Described(o.head, kind, payload)
                   /\ Forward(IF payload = "keep" THEN bytes ELSE payload)
  /\ UNCHANGED bytes

RunMapOnQuery ==
  /\ Reaches("map_query")
  /\ \E o \in Call(Now.arg), payload \in Payloads(Now.arg, "query") :
       /\ scope' = o.scope /\ trail' = o.trail
       /\ IF o.error # NoError THEN Fail(o.error) /\ head' = o.head
          ELSE IF payload = "unserializable"
          THEN Fail(Pipe("serialize_mapped_form_failed")) /\ head' = o.head
          ELSE IF payload # "keep" /\ ~QueryFits(o.head, payload)
          THEN Fail(Pipe("rebuild_uri_failed")) /\ head' = o.head
          ELSE /\ head' = IF payload = "keep" THEN o.head
                                              ELSE SetEncodedQuery(o.head, payload)
               /\ Advance
  /\ UNCHANGED bytes

-----------------------------------------------------------------------------
(* The body phase. *)

(* content_type_guard and the parsers: a test that lets the request pass. *)
Check(op, ok, e) ==
  /\ Reaches(op)
  /\ IF ok THEN Advance ELSE Fail(e)
  /\ UNCHANGED work

(* The type "form" or "multipart" stands for one that starts with the full *)
(* media type and, for multipart, has a boundary.                          *)
CheckContentType ==
  Check("guard", head.ctype = Now.arg,
        Pipe(IF Now.arg = "form" THEN "expected_form_urlencoded"
                                 ELSE "expected_multipart_form_data"))
ParseQueryData == Check("parse_query", Valid(head.query), Pipe("invalid_form_query"))
ParseBody ==
  Check("parse", Valid(bytes), Pipe(IF Now.arg = "json" THEN "invalid_json_body"
                                                        ELSE "invalid_form_body"))
CloneRaw == Check("raw", RawBody(scope) # "none", Pipe("missing_from_scope"))

ReadBody ==
  /\ Reaches("read_body")
  /\ scope' = AfterRead(scope, Request.body)
  /\ trail' = Append(trail, <<"body", "route", "taken">>)
  /\ IF CanRead(scope, Request.body)
     THEN Advance /\ bytes' = Request.body.bytes
     ELSE Fail(Pipe(ReadFailure(scope))) /\ UNCHANGED bytes
  /\ UNCHANGED head

TakeBodyOrDefault ==
  /\ Reaches("take_body")
  /\ Forward("stream")
  /\ scope' = AfterTakeBody(scope)
  /\ UNCHANGED <<head, bytes, trail>>

TakeBody ==
  /\ Reaches("take_body")
  /\ IF HasBody(scope) THEN Forward("stream") ELSE Fail(Pipe("request_body_already_consumed"))
  /\ scope' = AfterTakeBody(scope)
  /\ UNCHANGED <<head, bytes, trail>>

KeepBytes == Reaches("keep_bytes") /\ Forward(bytes) /\ UNCHANGED work

(* The client leaves while the pipeline awaits: its future is dropped. *)
Disconnect ==
  /\ stage = "running" /\ Now.op \in {"path", "hook", "read_body", "map_body", "map_query"}
  /\ stage' = "gone" /\ todo' = <<>>
  /\ UNCHANGED <<given, route, sent, work, told>>

-----------------------------------------------------------------------------

Init ==
  /\ \E c \in Cases :
       \E attrs \in c.routes, request \in c.requests, verbosity \in c.levels :
         given = [attrs |-> attrs, request |-> request, shared |-> c.state,
                  verbosity |-> verbosity, calls |-> c.calls]
  /\ route = "none" /\ stage = "declared" /\ todo = <<>>
  /\ head = [path |-> "client", query |-> given.request.query,
             ctype |-> given.request.ctype, clen |-> given.request.clen]
  /\ scope = NewScope(given.shared)
  /\ bytes = "none" /\ sent = "none" /\ error = NoError
  /\ emitted = <<>> /\ logs = <<>> /\ trail = <<>>

Next ==
  \/ Expand \/ Start \/ ExtractPath \/ ExtractQuery
  \/ RunHook \/ RunMapOnBody \/ RunMapOnQuery
  \/ CheckContentType \/ ParseQueryData \/ ParseBody \/ CloneRaw
  \/ ReadBody \/ TakeBody \/ KeepBytes \/ Disconnect

Spec == Init /\ [][Next]_vars

-----------------------------------------------------------------------------
(* Properties. *)

Stages == {"declared", "rejected", "ready", "running", "forwarded", "failed", "gone"}
Replaced == sent \in {"mapped", "empty"}
Wrote(entry) == \E k \in DOMAIN trail : trail[k] = entry
HookTook == Wrote(<<"body", "handler", "taken">>)
(* A hook or a map wrote it, by a call or through a &mut. *)
HookWrote(field) == \E k \in DOMAIN trail : trail[k][1] = "head" /\ trail[k][2] = field
DataInBody ==
  \/ route.data.kind = "json"
  \/ route.data.kind = "form" /\ ~BodyInQuery(route.method)
DataInQuery == route.data.kind = "form" /\ BodyInQuery(route.method)
TypeIsChecked ==
  \/ route.data.kind = "form" /\ ~BodyInQuery(route.method)
  \/ route.data.kind = "multipart" /\ route.map # <<>>

(* Types of the variables; an outcome is there exactly when it is due. *)
TypeOK ==
  /\ stage \in Stages /\ given.verbosity \in DOMAIN Severity
  /\ scope.body \in {"stream", "taken"}
  /\ scope.local \in [DataTypes -> Origins \union {Absent}]
  /\ (sent # "none") = (stage = "forwarded")
  /\ (error # NoError) = (stage = "failed")
  /\ (todo # <<>>) = (stage = "running")

(***************************************************************************)
(* The forwarded head describes the forwarded body.  A replaced body has   *)
(* no Content-Length, whoever wrote one, and its own type if it has a      *)
(* format; with any other body the generated code leaves both alone, also  *)
(* when a map ran: each is the client's unless a hook or the map itself    *)
(* wrote it (codegen.rs, map_replace_or_keep).                             *)
(***************************************************************************)
ForwardedBodyIsDescribed ==
  stage = "forwarded" =>
    /\ Replaced => head.clen = "none" /\ (DataInBody => head.ctype = route.data.kind)
    /\ ~Replaced => /\ HookWrote("clen")  \/ head.clen = Request.clen
                    /\ HookWrote("ctype") \/ head.ctype = Request.ctype

(***************************************************************************)
(* The client's body has one reader: if a hook took it, it is not sent,    *)
(* truncated or otherwise, and whoever is given RawBody is given exactly   *)
(* the client's bytes (pipeline.rs, take_body and read_body_bytes).        *)
(***************************************************************************)
ClientBodyHasOneReader ==
  /\ stage = "forwarded" /\ ~Replaced =>
       ~HookTook /\ sent \in {"stream", Request.body.bytes}
  /\ \A k \in DOMAIN trail :
       trail[k][1] = "RawBody" => trail[k][3] \in {Absent, Request.body.bytes}

(***************************************************************************)
(* Generated code buffers a body only on a route that validates or maps    *)
(* it, and never more than map_body_limit; every other body streams,       *)
(* whatever its length (docs/reference.md, body handling).                 *)
(***************************************************************************)
OnlyDeclaredBodiesAreBuffered ==
  /\ Wrote(<<"body", "route", "taken">>) =>
       DataInBody \/ (route.map # <<>> /\ route.data.kind # "form")
  /\ bytes # "none" => Request.body.len <= BodyLimit /\ ~Request.body.broken
  /\ sent = "stream" => bytes = "none"

(***************************************************************************)
(* A failure blames the right side.  A 4xx of the framework means that the *)
(* client's own request, or what a hook made of its head, is at fault; a   *)
(* 500 means that handlers of the route took or never provided something,  *)
(* or that a map's output cannot be serialized or made the query.  An      *)
(* error that a handler makes up and returns has the status of its kind.   *)
(***************************************************************************)
Returned(code) == Wrote(<<"handler", "returned", code>>)

ClientAtFault(code) ==
  CASE code = "invalid_path_parameters" -> ~Valid(Request.path)
    [] code = "invalid_query"           -> ~Valid(Request.query)
    [] code = "invalid_form_query"      -> ~Valid(Request.query) \/ HookWrote("query")
    [] code \in {"invalid_json_body", "invalid_form_body"} -> ~Valid(Request.body.bytes)
    [] code = "request_body_too_large"  -> Request.body.len > BodyLimit \/ Request.body.broken
    [] code = "expected_form_urlencoded" ->
         Request.ctype # "form" \/ HookWrote("ctype")
    [] code = "expected_multipart_form_data" ->
         Request.ctype # "multipart" \/ HookWrote("ctype")
    [] OTHER -> FALSE

HandlersAtFault(code) ==
  CASE code = "missing_from_scope" -> \E k \in DOMAIN trail : trail[k][3] = Absent
    [] code = "request_body_already_consumed" ->
         HookTook \/ Wrote(<<"body", "handler", "gone">>)
    [] OTHER -> \E i \in DOMAIN route.map : route.map[i].output # "unit"

BlameIsFair ==
  error.family \in {"core", "pipeline"} =>
    \/ Returned(error.code)
    \/ IF IsServerError(error) THEN HandlersAtFault(error.code)
                               ELSE ClientAtFault(error.code)

(***************************************************************************)
(* Nothing invalid is forwarded, or given to a map.  Path, query and body  *)
(* that the route declares are valid as the client sent them, whatever the *)
(* hooks did.  The data of a GET or HEAD form and the Content-Type of a    *)
(* form, or of a multipart body that is mapped, are valid as the hooks     *)
(* left them, when a map gets the data and, if none does, when they go to  *)
(* the backend; so they are as the client sent them if no handler wrote    *)
(* them.  Multipart without a map streams unchecked (codegen.rs,           *)
(* build_body_phase).                                                      *)
(***************************************************************************)
DataIsAsDeclared ==
  /\ DataInQuery => Valid(head.query)
  /\ TypeIsChecked => head.ctype = route.data.kind

OnlyValidRequestsAreForwarded ==
  /\ stage = "forwarded" =>
       /\ route.pathType # <<>>  => Valid(Request.path)
       /\ route.queryType # <<>> => Valid(Request.query)
       /\ DataInBody => Valid(Request.body.bytes)
       /\ DataInQuery   => HookWrote("query") \/ Valid(Request.query)
       /\ TypeIsChecked => HookWrote("ctype") \/ Request.ctype = route.data.kind
       /\ route.map = <<>> => DataIsAsDeclared
  /\ Reaches("map_query") \/ Reaches("map_body") =>
       DataIsAsDeclared /\ (DataInBody => Valid(bytes))

(***************************************************************************)
(* A parameter sees the latest value of its type: the last one written by  *)
(* an extraction or a hook and not taken since, else the application's.    *)
(* &mut never reaches the application's value, so a request cannot change  *)
(* what another one sees (pipeline.rs, get, get_mut and take).             *)
(***************************************************************************)
LastWrite(k, t) ==
  LET touched == {j \in 1 .. k - 1 : trail[j][1] \in {"set", "Take"} /\ trail[j][2] = t}
  IN  IF touched = {} \/ trail[Max(touched)][1] = "Take" THEN Absent
                                                       ELSE trail[Max(touched)][3]

ParametersSeeTheLatestValue ==
  \A k \in DOMAIN trail :
    LET local == LastWrite(k, trail[k][2])
        found == trail[k][3]
    IN  /\ trail[k][1] \in {"Take", "Ref"} =>
             found = IF local # Absent THEN local ELSE given.shared[trail[k][2]]
        /\ trail[k][1] = "Mut" => found = local

(***************************************************************************)
(* The macros refuse a handler exactly when its generated bindings could   *)
(* not compile: an accepted signature never meets a borrow error in code   *)
(* its author cannot see, and no signature that would work is refused      *)
(* (expand.rs, validate_plans against build_bindings).                     *)
(***************************************************************************)
RefusedExactlyWhenUnbindable ==
  stage \in {"rejected", "ready"} /\ Expands(given.attrs) =>
    \A sig \in RouteHandlers(route) :
      WellFormed(sig) => (ValidatePlans(sig) <=> ~BorrowsClash(Bindings(sig)))

(***************************************************************************)
(* The arguments of a route attribute may be given in any order: the same  *)
(* route, or an error, results (route.rs, RouteArgsBuilder::apply).        *)
(***************************************************************************)
ArgumentOrderIsIrrelevant ==
  stage \in {"rejected", "ready"} =>
    \A i \in DOMAIN given.attrs :
      LET args == given.attrs[i].args
      IN  \A p \in Bijection(DOMAIN args, DOMAIN args) :
            LET other == RouteArgs([k \in DOMAIN args |-> args[p[k]]])
            IN  IF RouteArgs(args).valid THEN other = RouteArgs(args) ELSE ~other.valid

(***************************************************************************)
(* Every failed pipeline is logged once, as a warning exactly when the     *)
(* client is told it is the server's fault; details are written at debug   *)
(* level only and never sent (observability.rs, error/framework.rs).       *)
(***************************************************************************)
FailuresAreLogged ==
  LET failures == {i \in DOMAIN logs : logs[i].target = "pipeline" /\ ~logs[i].details}
  IN  /\ Cardinality(failures) =
           IF stage = "failed" /\ (IsServerError(error) \/ given.verbosity # "warn")
           THEN 1 ELSE 0
      /\ \A i \in failures : (logs[i].level = "warn") = (Render(error).status >= 500)
      /\ \A i \in DOMAIN logs : logs[i].details => given.verbosity = "debug"

(***************************************************************************)
(* Dispatch takes the pipeline for one step of a request that has not      *)
(* selected a backend yet: it is silent until it ends, it ends once, and   *)
(* its failure is an event and an answer at once (dispatch.rs).            *)
(***************************************************************************)
Family(e) == IF e = NoError THEN "pending" ELSE IF IsFramework(e) THEN "framework" ELSE "custom"

D == INSTANCE Dispatch WITH
       Requests <- {1}, PoolLen <- 1, PanicsAllowed <- FALSE,
       stage   <- [r \in {1} |-> CASE stage = "running"   -> "pipeline"
                                   [] stage = "forwarded" -> "selecting"
                                   [] stage = "failed"    -> "closed"
                                   [] stage = "gone"      -> "gone"
                                   [] OTHER               -> "received"],
       chosen  <- [r \in {1} |-> -1],
       wire    <- [r \in {1} |-> "quiet"],
       expired <- [r \in {1} |-> FALSE],
       outcome <- [r \in {1} |-> "pending"],
       calls   <- [r \in {1} |-> <<>>],
       answer  <- [r \in {1} |-> Family(error)],
       events  <- [r \in {1} |-> [k \in DOMAIN emitted |->
                    [kind |-> emitted[k].kind, idx |-> -1, err |-> Family(emitted[k].error)]]]

IsOneStepOfDispatch == D!Spec
=============================================================================
