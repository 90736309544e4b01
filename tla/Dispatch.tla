------------------------------ MODULE Dispatch ------------------------------
(***************************************************************************)
(* The life of a request in the gateway: app/dispatch.rs and the part of   *)
(* proxy.rs it awaits.  Each request is one handler future.  It runs       *)
(* without interruption between its awaits (the pipeline, the upstream     *)
(* call under a timeout, the streamed body) and can be dropped only there. *)
(* The policy's balancer is any implementation of the Balancer trait: pick *)
(* may return any index, or none.                                          *)
(*                                                                         *)
(* A named action just before another is the same handler step with a      *)
(* plausible bug in it; the mutation runs put it in its place.             *)
(***************************************************************************)
EXTENDS Integers, Sequences, SequencesExt

CONSTANTS
  Requests,
  PoolLen,        \* backends in the service's pool
  PanicsAllowed   \* whether the runtime observer (user code) may panic

ASSUME DispatchAssumption == PoolLen \in Nat /\ PanicsAllowed \in BOOLEAN

VARIABLES
  stage,     \* where the handler is
  chosen,    \* backend_index returned by pick
  wire,      \* the upstream exchange: quiet, sent, head, failed, cut, done
  expired,   \* whether request_timeout has elapsed since on_start
  outcome,   \* `result` of the timed proxy call
  events,    \* RuntimeEvents the observer has received, in order
  calls,     \* calls the balancer has received, in order
  answer     \* code of the response handed back to axum

vars == <<stage, chosen, wire, expired, outcome, events, calls, answer>>

None    == -1
Pending == "pending"

Stages == {"received", "pipeline", "selecting", "picked", "starting", "sending",
           "upstream", "resolved", "reporting", "responding", "streaming",
           "closed", "gone"}
Terminal == {"closed", "gone"}

ProxyErrors == {"invalid_upstream_uri", "upstream_request_failed", "upstream_timeout"}
SelectErrors == {"no_backends_selected", "invalid_backend_index"}
PipelineErrors == {"framework", "custom"}
Answers == ProxyErrors \union SelectErrors \union PipelineErrors \union {Pending, "upstream"}

(* ApigateCoreError::status_code, for the errors dispatch can produce. *)
Status(code) == IF code = "upstream_timeout" THEN 504 ELSE 502

Note(kind, idx, err) == [kind |-> kind, idx |-> idx, err |-> err]

Emit(r, kind, idx, err) == events' = [events EXCEPT ![r] = Append(@, Note(kind, idx, err))]
Call(r, kind, idx, err) == calls'  = [calls EXCEPT ![r] = Append(@, Note(kind, idx, err))]
Goto(r, from, to) == stage[r] = from /\ stage' = [stage EXCEPT ![r] = to]
Answer(r, code) == answer' = [answer EXCEPT ![r] = code]

-----------------------------------------------------------------------------
(* The handler's own steps. *)

(* into_parts, emit_request_start; the route's pipeline, if it has one, is *)
(* awaited next.                                                           *)
Begin(r, piped) ==
  /\ Goto(r, "received", IF piped THEN "pipeline" ELSE "selecting")
  /\ Emit(r, "RequestStart", None, Pending)
  /\ UNCHANGED <<chosen, wire, expired, outcome, calls, answer>>

PipelineSucceeds(r) ==
  /\ Goto(r, "pipeline", "selecting")
  /\ UNCHANGED <<chosen, wire, expired, outcome, events, calls, answer>>

PipelineFails(r, e) ==
  /\ Goto(r, "pipeline", "closed")
  /\ Emit(r, IF e = "framework" THEN "PipelineFailedFramework"
                                ELSE "PipelineFailedCustom", None, e)
  /\ Answer(r, e)
  /\ UNCHANGED <<chosen, wire, expired, outcome, calls>>

(* select_backend: the balancer picks ... *)
Pick(r, idx) ==
  /\ Goto(r, "selecting", "picked")
  /\ chosen' = [chosen EXCEPT ![r] = idx]
  /\ Call(r, "pick", idx, Pending)
  /\ UNCHANGED <<wire, expired, outcome, events, answer>>

(* ... and what it returned is looked up in the pool. *)
RejectPickForgetsNone(r) ==
  /\ chosen[r] > PoolLen - 1
  /\ Goto(r, "picked", "closed")
  /\ Emit(r, "DispatchFailed", None, "invalid_backend_index")
  /\ Answer(r, "invalid_backend_index")
  /\ UNCHANGED <<chosen, wire, expired, outcome, calls>>

RejectPick(r) ==
  LET e == IF chosen[r] = None THEN "no_backends_selected" ELSE "invalid_backend_index"
  IN  /\ chosen[r] \notin 0 .. PoolLen - 1
      /\ Goto(r, "picked", "closed")
      /\ Emit(r, "DispatchFailed", None, e)
      /\ Answer(r, e)
      /\ UNCHANGED <<chosen, wire, expired, outcome, calls>>

AcceptPickInclusive(r) ==
  /\ chosen[r] \in 0 .. PoolLen
  /\ Goto(r, "picked", "starting")
  /\ Emit(r, "BackendSelected", chosen[r], Pending)
  /\ UNCHANGED <<chosen, wire, expired, outcome, calls, answer>>

AcceptPick(r) ==
  /\ chosen[r] \in 0 .. PoolLen - 1
  /\ Goto(r, "picked", "starting")
  /\ Emit(r, "BackendSelected", chosen[r], Pending)
  /\ UNCHANGED <<chosen, wire, expired, outcome, calls, answer>>

OnStart(r) ==
  /\ Goto(r, "starting", "sending")
  /\ Call(r, "on_start", chosen[r], Pending)
  /\ UNCHANGED <<chosen, wire, expired, outcome, events, answer>>

(* First poll of proxy_request: the URI is rewritten before anything is sent. *)
RewriteFails(r) ==
  /\ Goto(r, "sending", "resolved")
  /\ outcome' = [outcome EXCEPT ![r] = "invalid_upstream_uri"]
  /\ UNCHANGED <<chosen, wire, expired, events, calls, answer>>

Send(r) ==
  /\ Goto(r, "sending", "upstream")
  /\ wire' = [wire EXCEPT ![r] = "sent"]
  /\ UNCHANGED <<chosen, expired, outcome, events, calls, answer>>

(* tokio::time::timeout polls the call first: an answer that is there wins *)
(* over a deadline that has passed too.                                    *)
PollAnswer(r) ==
  /\ wire[r] \in {"head", "failed"}
  /\ Goto(r, "upstream", "resolved")
  /\ outcome' = [outcome EXCEPT ![r] =
                   IF wire[r] = "head" THEN "upstream" ELSE "upstream_request_failed"]
  /\ UNCHANGED <<chosen, wire, expired, events, calls, answer>>

PollTimeoutDetaches(r) ==
  /\ wire[r] = "sent" /\ expired[r]
  /\ Goto(r, "upstream", "resolved")
  /\ outcome' = [outcome EXCEPT ![r] = "upstream_timeout"]
  /\ UNCHANGED <<chosen, wire, expired, events, calls, answer>>

PollTimeout(r) ==
  /\ wire[r] = "sent" /\ expired[r]
  /\ Goto(r, "upstream", "resolved")
  /\ outcome' = [outcome EXCEPT ![r] = "upstream_timeout"]
  /\ wire' = [wire EXCEPT ![r] = "cut"]
  /\ UNCHANGED <<chosen, expired, events, calls, answer>>

EmitUpstreamReturnsOnError(r) ==
  /\ Goto(r, "resolved",
          IF outcome[r] = "upstream" THEN "reporting" ELSE "responding")
  /\ IF outcome[r] = "upstream"
       THEN Emit(r, "UpstreamSucceeded", chosen[r], Pending)
       ELSE Emit(r, "UpstreamFailed", chosen[r], outcome[r])
  /\ UNCHANGED <<chosen, wire, expired, outcome, calls, answer>>

EmitUpstreamSuccessOnly(r) ==
  /\ Goto(r, "resolved", "reporting")
  /\ IF outcome[r] = "upstream"
       THEN Emit(r, "UpstreamSucceeded", chosen[r], Pending)
       ELSE UNCHANGED events
  /\ UNCHANGED <<chosen, wire, expired, outcome, calls, answer>>

EmitUpstreamThenRetry(r) ==
  /\ Goto(r, "resolved",
          IF outcome[r] = "upstream" THEN "reporting" ELSE "sending")
  /\ IF outcome[r] = "upstream"
       THEN Emit(r, "UpstreamSucceeded", chosen[r], Pending)
       ELSE Emit(r, "UpstreamFailed", chosen[r], outcome[r])
  /\ UNCHANGED <<chosen, wire, expired, outcome, calls, answer>>

EmitUpstream(r) ==
  /\ Goto(r, "resolved", "reporting")
  /\ IF outcome[r] = "upstream"
       THEN Emit(r, "UpstreamSucceeded", chosen[r], Pending)
       ELSE Emit(r, "UpstreamFailed", chosen[r], outcome[r])
  /\ UNCHANGED <<chosen, wire, expired, outcome, calls, answer>>

OnResult(r) ==
  /\ Goto(r, "reporting", "responding")
  /\ Call(r, "on_result", chosen[r],
          IF outcome[r] = "upstream" THEN Pending ELSE outcome[r])
  /\ UNCHANGED <<chosen, wire, expired, outcome, events, answer>>

(* The upstream's response is passed on with its body still open; an error *)
(* is mapped to a core error and rendered.                                 *)
Respond(r) ==
  /\ Goto(r, "responding", IF outcome[r] = "upstream" THEN "streaming" ELSE "closed")
  /\ Answer(r, outcome[r])
  /\ UNCHANGED <<chosen, wire, expired, outcome, events, calls>>

-----------------------------------------------------------------------------
(* The environment. *)

UpstreamHead(r) ==
  /\ stage[r] = "upstream" /\ wire[r] = "sent"
  /\ wire' = [wire EXCEPT ![r] = "head"]
  /\ UNCHANGED <<stage, chosen, expired, outcome, events, calls, answer>>

UpstreamFails(r) ==
  /\ stage[r] = "upstream" /\ wire[r] = "sent"
  /\ wire' = [wire EXCEPT ![r] = "failed"]
  /\ UNCHANGED <<stage, chosen, expired, outcome, events, calls, answer>>

(* The body ends, or breaks off: nothing in the gateway hears of it. *)
BodyEnds(r) ==
  /\ Goto(r, "streaming", "closed")
  /\ wire' = [wire EXCEPT ![r] = "done"]
  /\ UNCHANGED <<chosen, expired, outcome, events, calls, answer>>

DeadlinePasses(r) ==
  /\ stage[r] \in {"upstream", "streaming"} /\ ~ expired[r]
  /\ expired' = [expired EXCEPT ![r] = TRUE]
  /\ UNCHANGED <<stage, chosen, wire, outcome, events, calls, answer>>

(* The client goes away: the future (or the body it returned) is dropped. *)
Disconnect(r) ==
  /\ stage[r] \in {"pipeline", "upstream", "streaming"}
  /\ stage' = [stage EXCEPT ![r] = "gone"]
  /\ wire' = [wire EXCEPT ![r] = IF @ = "quiet" THEN @ ELSE "cut"]
  /\ UNCHANGED <<chosen, expired, outcome, events, calls, answer>>

(* The observer panics while it is given an event.  At an upstream event   *)
(* the unwinding skips on_result, which comes after it.                    *)
ObserverPanics(r) ==
  /\ PanicsAllowed
  /\ stage[r] \in {"received", "picked", "resolved"}
  /\ stage' = [stage EXCEPT ![r] = "gone"]
  /\ wire' = [wire EXCEPT ![r] = IF @ = "quiet" THEN @ ELSE "cut"]
  /\ UNCHANGED <<chosen, expired, outcome, events, calls, answer>>

-----------------------------------------------------------------------------

Init ==
  /\ stage   = [r \in Requests |-> "received"]
  /\ chosen  = [r \in Requests |-> None]
  /\ wire    = [r \in Requests |-> "quiet"]
  /\ expired = [r \in Requests |-> FALSE]
  /\ outcome = [r \in Requests |-> Pending]
  /\ events  = [r \in Requests |-> <<>>]
  /\ calls   = [r \in Requests |-> <<>>]
  /\ answer  = [r \in Requests |-> Pending]

SelectBackend(r) ==
  \/ \E idx \in {None} \union 0 .. PoolLen : Pick(r, idx)
  \/ RejectPick(r)
  \/ AcceptPick(r)

ProxyToBackend(r) ==
  \/ OnStart(r) \/ RewriteFails(r) \/ Send(r)
  \/ PollAnswer(r) \/ PollTimeout(r)
  \/ EmitUpstream(r) \/ OnResult(r) \/ Respond(r)

(* What the executor does once the handler's future is woken. *)
Handler(r) ==
  \/ \E piped \in BOOLEAN : Begin(r, piped)
  \/ SelectBackend(r)
  \/ ProxyToBackend(r)

Environment(r) ==
  \/ PipelineSucceeds(r) \/ \E e \in PipelineErrors : PipelineFails(r, e)
  \/ UpstreamHead(r) \/ UpstreamFails(r) \/ BodyEnds(r)
  \/ DeadlinePasses(r) \/ Disconnect(r) \/ ObserverPanics(r)

Next == \E r \in Requests : Handler(r) \/ Environment(r)

Spec == Init /\ [][Next]_vars

(***************************************************************************)
(* tokio polls a woken future and fires a timer that is due.  Nothing else *)
(* is assumed: a hook may never return, an upstream may never answer.      *)
(***************************************************************************)
Fairness == \A r \in Requests : WF_vars(Handler(r)) /\ WF_vars(DeadlinePasses(r))

FairSpec == Spec /\ Fairness

-----------------------------------------------------------------------------

Kinds(log) == [k \in DOMAIN log |-> log[k].kind]

(* Types of the variables. *)
TypeOK ==
  /\ stage \in [Requests -> Stages]
  /\ chosen \in [Requests -> {None} \union 0 .. PoolLen]
  /\ wire \in [Requests -> {"quiet", "sent", "head", "failed", "cut", "done"}]
  /\ expired \in [Requests -> BOOLEAN]
  /\ outcome \in [Requests -> ProxyErrors \union {Pending, "upstream"}]
  /\ \A r \in Requests : Len(events[r]) <= 3 /\ Len(calls[r]) <= 3
  /\ answer \in [Requests -> Answers]

(***************************************************************************)
(* What a Balancer implementation may rely on: pick, then on_start with    *)
(* the picked index and only if the pool has it, then at most one          *)
(* on_result, with the same index.  A balancer that counts in on_start and *)
(* uncounts in on_result cannot go below zero or move another backend.     *)
(***************************************************************************)
BalancerProtocol ==
  \A r \in Requests :
    /\ IsPrefix(Kinds(calls[r]), <<"pick", "on_start", "on_result">>)
    /\ \A k \in DOMAIN calls[r] : calls[r][k].idx = calls[r][1].idx
    /\ Len(calls[r]) > 1 => calls[r][1].idx \in 0 .. PoolLen - 1

(* Complete event sequences of a request whose handler returned. *)
CompleteRuns ==
  {<<"RequestStart", "PipelineFailedFramework">>,
   <<"RequestStart", "PipelineFailedCustom">>,
   <<"RequestStart", "DispatchFailed">>,
   <<"RequestStart", "BackendSelected", "UpstreamSucceeded">>,
   <<"RequestStart", "BackendSelected", "UpstreamFailed">>}

(***************************************************************************)
(* An observer can follow a request: its events are always a prefix of one *)
(* of the complete sequences, and a complete one once there is an answer,  *)
(* however the deadline, the upstream and the client race.                 *)
(***************************************************************************)
EventsTellTheStory ==
  \A r \in Requests :
    /\ \E run \in CompleteRuns : IsPrefix(Kinds(events[r]), run)
    /\ answer[r] # Pending => Kinds(events[r]) \in CompleteRuns

(***************************************************************************)
(* The four accounts of one upstream call agree: what the client receives, *)
(* what the observer saw, what the balancer was told and what happened on  *)
(* the wire.  In particular a request counted as timed out never delivers  *)
(* an upstream response, and only those answer 504.                        *)
(***************************************************************************)
AccountsAgree ==
  \A r \in Requests :
    Len(calls[r]) = 3 =>
      LET told == calls[r][3].err
          seen == Last(events[r])
      IN  /\ seen.idx = calls[r][3].idx /\ seen.err = told
          /\ (seen.kind = "UpstreamSucceeded") = (told = Pending)
          /\ answer[r] # Pending =>
               /\ (answer[r] = "upstream") = (told = Pending)
               /\ (Status(answer[r]) = 504) = (told = "upstream_timeout")
               /\ answer[r] = "upstream" => stage[r] = "gone" \/ wire[r] \in {"head", "done"}
               /\ answer[r] = "upstream_timeout" => wire[r] = "cut"
               /\ answer[r] = "invalid_upstream_uri" => wire[r] = "quiet"

(***************************************************************************)
(* Nothing counted as in flight stays so because an upstream is silent:    *)
(* the deadline leads to on_result, unless the handler's future is gone.   *)
(***************************************************************************)
EveryStartIsReported ==
  \A r \in Requests :
    Len(calls[r]) = 2 ~> (Len(calls[r]) = 3 \/ stage[r] = "gone")

(* Once a backend is picked, the client gets an answer or has gone away. *)
EveryPickIsAnswered ==
  \A r \in Requests :
    Len(calls[r]) = 1 ~> (answer[r] # Pending \/ stage[r] = "gone")

-----------------------------------------------------------------------------
(* What the documentation says, and the code does otherwise. *)

(* "Total timeout for an upstream request" (docs/reference.md): once it    *)
(* has elapsed the upstream exchange is over.  The timer stops at the head. *)
TimeoutIsTotal ==
  \A r \in Requests : stage[r] = "streaming" => ~ expired[r]

=============================================================================
