--------------------------- MODULE DispatchProofs ---------------------------
(***************************************************************************)
(* What Dispatch tells the balancer, the observer and the client of a      *)
(* request, for any number of requests, any pool and any balancer:         *)
(* BalancerProtocol, EventsTellTheStory and AccountsAgree are invariants   *)
(* of Spec.                                                                *)
(*                                                                         *)
(* The inductive invariant gives, for every place a handler can be at, the *)
(* very events and calls it has made, and what wire, outcome and answer    *)
(* can then be.  A handler that is gone can have stopped at five of those  *)
(* places, which is where the properties hold only as prefixes.            *)
(***************************************************************************)
EXTENDS Dispatch, TLAPS, SequenceTheorems

NoteKinds ==
  {"RequestStart", "PipelineFailedFramework", "PipelineFailedCustom", "DispatchFailed",
   "BackendSelected", "UpstreamSucceeded", "UpstreamFailed", "pick", "on_start", "on_result"}
Notes == [kind : NoteKinds, idx : {None} \union 0 .. PoolLen, err : Answers]

Types ==
  /\ stage \in [Requests -> Stages]
  /\ chosen \in [Requests -> {None} \union 0 .. PoolLen]
  /\ wire \in [Requests -> {"quiet", "sent", "head", "failed", "cut", "done"}]
  /\ expired \in [Requests -> BOOLEAN]
  /\ outcome \in [Requests -> ProxyErrors \union {Pending, "upstream"}]
  /\ events \in [Requests -> Seq(Notes)]
  /\ calls \in [Requests -> Seq(Notes)]
  /\ answer \in [Requests -> Answers]

(* The notes that a request can leave. *)
Began == Note("RequestStart", None, Pending)
PipelineFailed(e) ==
  Note(IF e = "framework" THEN "PipelineFailedFramework" ELSE "PipelineFailedCustom", None, e)
Selected(r) == Note("BackendSelected", chosen[r], Pending)
Seen(r) == IF outcome[r] = "upstream" THEN Note("UpstreamSucceeded", chosen[r], Pending)
                                      ELSE Note("UpstreamFailed", chosen[r], outcome[r])
Picked(r)   == Note("pick", chosen[r], Pending)
Started(r)  == Note("on_start", chosen[r], Pending)
Reported(r) == Note("on_result", chosen[r],
                    IF outcome[r] = "upstream" THEN Pending ELSE outcome[r])

(* What the request has told by the time it is somewhere. *)
Silent(r) == events[r] = <<>> /\ calls[r] = <<>> /\ answer[r] = Pending
Open(r)   == events[r] = <<Began>> /\ calls[r] = <<>> /\ answer[r] = Pending
Refused(r) == \E e \in PipelineErrors :
                events[r] = <<Began, PipelineFailed(e)>> /\ calls[r] = <<>> /\ answer[r] = e
Chosen(r) == events[r] = <<Began>> /\ calls[r] = <<Picked(r)>> /\ answer[r] = Pending
Rejected(r) == \E e \in SelectErrors :
                 /\ events[r] = <<Began, Note("DispatchFailed", None, e)>>
                 /\ calls[r] = <<Picked(r)>> /\ answer[r] = e
InPool(r) == chosen[r] \in 0 .. PoolLen - 1
Accepted(r) == /\ InPool(r) /\ answer[r] = Pending
               /\ events[r] = <<Began, Selected(r)>> /\ calls[r] = <<Picked(r)>>
Counted(r) == /\ InPool(r) /\ answer[r] = Pending
              /\ events[r] = <<Began, Selected(r)>> /\ calls[r] = <<Picked(r), Started(r)>>
Observed(r) == /\ InPool(r) /\ answer[r] = Pending
               /\ events[r] = <<Began, Selected(r), Seen(r)>>
               /\ calls[r] = <<Picked(r), Started(r)>>
Told(r) == /\ InPool(r)
           /\ events[r] = <<Began, Selected(r), Seen(r)>>
           /\ calls[r] = <<Picked(r), Started(r), Reported(r)>>

(* The proxy call is over, and the wire is as its result says. *)
Resolved(r) ==
  /\ outcome[r] # Pending
  /\ outcome[r] = "upstream" => wire[r] \in {"head", "done"}
  /\ outcome[r] = "upstream_timeout" => wire[r] = "cut"
  /\ outcome[r] = "invalid_upstream_uri" => wire[r] = "quiet"

Early == {"received", "pipeline", "selecting", "picked", "starting", "sending"}

At(r) ==
  /\ stage[r] \in Early => wire[r] = "quiet"
  /\ stage[r] = "received" => Silent(r)
  /\ stage[r] \in {"pipeline", "selecting"} => Open(r)
  /\ stage[r] = "picked" => Chosen(r)
  /\ stage[r] = "starting" => Accepted(r)
  /\ stage[r] \in {"sending", "upstream"} => Counted(r)
  /\ stage[r] = "resolved" => Counted(r) /\ Resolved(r)
  /\ stage[r] = "reporting" => Observed(r) /\ Resolved(r)
  /\ stage[r] = "responding" => Told(r) /\ Resolved(r) /\ answer[r] = Pending
  /\ stage[r] = "streaming" =>
       Told(r) /\ Resolved(r) /\ answer[r] = outcome[r] /\ outcome[r] = "upstream"
  /\ stage[r] = "closed" =>
       Refused(r) \/ Rejected(r) \/ (Told(r) /\ Resolved(r) /\ answer[r] = outcome[r])
  /\ stage[r] = "gone" =>
       \/ Silent(r) \/ Open(r) \/ Chosen(r) \/ Counted(r)
       \/ Told(r) /\ answer[r] = outcome[r] /\ outcome[r] = "upstream"

IInv == Types /\ \A r \in Requests : At(r)

(* A step of r: types hold after it, so does what is said of r, and no     *)
(* other request is touched.                                               *)
Same(q) ==
  /\ stage'[q] = stage[q] /\ chosen'[q] = chosen[q] /\ wire'[q] = wire[q]
  /\ outcome'[q] = outcome[q] /\ events'[q] = events[q] /\ calls'[q] = calls[q]
  /\ answer'[q] = answer[q]
Moves(r) == Types' /\ At(r)' /\ \A q \in Requests \ {r} : Same(q)

-----------------------------------------------------------------------------

(* Appending to short sequences. *)
LEMMA AppendShort ==
  ASSUME NEW S, NEW a \in S, NEW b \in S, NEW c \in S
  PROVE  /\ Append(<<>>, a) = <<a>> /\ Append(<<a>>, b) = <<a, b>>
         /\ Append(<<a, b>>, c) = <<a, b, c>>
<1>1. Append(<<>>, a) = <<a>>
  OBVIOUS
<1>2. Append(<<a>>, b) = <<a, b>>
  <2>1. <<a>> \in Seq(S) /\ Len(<<a>>) = 1
    OBVIOUS
  <2>2. Append(<<a>>, b) \in Seq(S) /\ Len(Append(<<a>>, b)) = 2
    BY <2>1
  <2>3. <<a, b>> \in Seq(S) /\ Len(<<a, b>>) = 2
    OBVIOUS
  <2>4. \A k \in 1 .. 2 : Append(<<a>>, b)[k] = <<a, b>>[k]
    BY <2>1
  <2> QED
    BY <2>2, <2>3, <2>4, SeqEqual
<1>3. Append(<<a, b>>, c) = <<a, b, c>>
  <2>1. <<a, b>> \in Seq(S) /\ Len(<<a, b>>) = 2
    OBVIOUS
  <2>2. Append(<<a, b>>, c) \in Seq(S) /\ Len(Append(<<a, b>>, c)) = 3
    BY <2>1
  <2>3. <<a, b, c>> \in Seq(S) /\ Len(<<a, b, c>>) = 3
    OBVIOUS
  <2>4. \A k \in 1 .. 3 : Append(<<a, b>>, c)[k] = <<a, b, c>>[k]
    BY <2>1
  <2> QED
    BY <2>2, <2>3, <2>4, SeqEqual
<1> QED
  BY <1>1, <1>2, <1>3

(* Everything a request can note is a note. *)
LEMMA NotesTyped ==
  ASSUME Types, NEW r \in Requests
  PROVE  /\ Began \in Notes
         /\ \A e \in PipelineErrors : PipelineFailed(e) \in Notes
         /\ \A e \in SelectErrors : Note("DispatchFailed", None, e) \in Notes
         /\ Selected(r) \in Notes /\ Seen(r) \in Notes
         /\ Picked(r) \in Notes /\ Started(r) \in Notes /\ Reported(r) \in Notes
<1>1. \A kind \in NoteKinds, idx \in {None} \union 0 .. PoolLen, err \in Answers :
        Note(kind, idx, err) \in Notes
  BY DEF Note, Notes
<1>2. /\ None \in {None} \union 0 .. PoolLen
      /\ chosen[r] \in {None} \union 0 .. PoolLen
      /\ Pending \in Answers /\ outcome[r] \in Answers
  BY DEF Types, Answers
<1>3. PipelineErrors \subseteq Answers /\ SelectErrors \subseteq Answers
  BY DEF Answers
<1>4. Began \in Notes /\ Selected(r) \in Notes /\ Picked(r) \in Notes /\ Started(r) \in Notes
  BY <1>1, <1>2 DEF Began, Selected, Picked, Started, NoteKinds
<1>5. Seen(r) \in Notes /\ Reported(r) \in Notes
  BY <1>1, <1>2 DEF Seen, Reported, NoteKinds
<1>6. /\ \A e \in PipelineErrors : PipelineFailed(e) \in Notes
      /\ \A e \in SelectErrors : Note("DispatchFailed", None, e) \in Notes
  BY <1>1, <1>2, <1>3 DEF PipelineFailed, NoteKinds
<1> QED
  BY <1>4, <1>5, <1>6

-----------------------------------------------------------------------------
(* The steps that note something. *)

(* The start of the handler. *)
LEMMA BeginMoves ==
  ASSUME IInv, NEW r \in Requests, NEW piped \in BOOLEAN, Begin(r, piped)
  PROVE  Moves(r)
<1>1. Types /\ At(r)
  BY DEF IInv
<1>2. stage[r] = "received" /\ wire[r] = "quiet" /\ Silent(r)
  BY <1>1 DEF Begin, Goto, At, Early
<1>3. events'[r] = <<Began>>
  <2>1. events'[r] = Append(events[r], Began)
    BY <1>1 DEF Begin, Emit, Types, Began
  <2> QED
    BY <1>1, <1>2, <2>1, NotesTyped, AppendShort DEF Silent
<1>4. Types'
  <2>1. Began \in Notes
    BY <1>1, NotesTyped
  <2> QED
    BY <1>1, <1>2, <2>1 DEF Begin, Goto, Emit, Types, Stages, Began
<1>5. At(r)'
  BY <1>1, <1>2, <1>3
    DEF Begin, Goto, Types, At, Early, Silent, Open, Refused, Chosen, Rejected, InPool,
      Accepted, Counted, Observed, Told, Resolved,
     Began, PipelineFailed, Picked, Selected, Started, Seen, Reported
<1>6. \A q \in Requests \ {r} : Same(q)
  BY <1>1 DEF Begin, Goto, Emit, Types, Same
<1> QED
  BY <1>4, <1>5, <1>6 DEF Moves

(* A failed pipeline, with its event and its answer. *)
LEMMA PipelineFailsMoves ==
  ASSUME IInv, NEW r \in Requests, NEW e \in PipelineErrors, PipelineFails(r, e)
  PROVE  Moves(r)
<1>1. Types /\ At(r)
  BY DEF IInv
<1>2. stage[r] = "pipeline" /\ Open(r)
  BY <1>1 DEF PipelineFails, Goto, At, Early
<1>3. events'[r] = <<Began, PipelineFailed(e)>>
  <2>1. events'[r] = Append(events[r], PipelineFailed(e))
    BY <1>1 DEF PipelineFails, Emit, Types, PipelineFailed
  <2>2. events[r] = <<Began>>
    BY <1>2 DEF Open
  <2>3. Began \in Notes /\ PipelineFailed(e) \in Notes
    BY <1>1, NotesTyped
  <2>4. Append(<<Began>>, PipelineFailed(e)) = <<Began, PipelineFailed(e)>>
    BY <2>3, AppendShort
  <2> QED
    BY <2>1, <2>2, <2>4
<1>4. Types'
  <2>1. PipelineFailed(e) \in Notes
    BY <1>1, NotesTyped
  <2> QED
    BY <1>1, <1>2, <2>1
    DEF PipelineFails, Goto, Emit, Answer, Types, Stages, Answers, PipelineErrors,
      SelectErrors, PipelineFailed
<1>5. At(r)'
  BY <1>1, <1>2, <1>3
    DEF PipelineFails, Goto, Answer, Types, At, Early, Silent, Open, Refused, Chosen,
      Rejected, InPool, Accepted, Counted, Observed, Told, Resolved,
     Began, PipelineFailed, Picked, Selected, Started, Seen, Reported
<1>6. \A q \in Requests \ {r} : Same(q)
  BY <1>1 DEF PipelineFails, Goto, Emit, Answer, Types, Same
<1> QED
  BY <1>4, <1>5, <1>6 DEF Moves

(* What pick returned is noted, whatever it is. *)
LEMMA PickMoves ==
  ASSUME IInv, NEW r \in Requests, NEW idx \in {None} \union 0 .. PoolLen, Pick(r, idx)
  PROVE  Moves(r)
<1>1. Types /\ At(r)
  BY DEF IInv
<1>2. stage[r] = "selecting" /\ wire[r] = "quiet" /\ Open(r)
  BY <1>1 DEF Pick, Goto, At, Early
<1>3. Note("pick", idx, Pending) \in Notes
  BY DEF Note, Notes, NoteKinds, Answers
<1>4. calls'[r] = <<Note("pick", idx, Pending)>> /\ chosen'[r] = idx
  <2>1. calls'[r] = Append(calls[r], Note("pick", idx, Pending)) /\ chosen'[r] = idx
    BY <1>1 DEF Pick, Call, Types
  <2> QED
    BY <1>2, <1>3, <2>1, AppendShort DEF Open
<1>5. Types'
  BY <1>1, <1>3 DEF Pick, Goto, Call, Types, Stages
<1>6. At(r)'
  BY <1>1, <1>2, <1>4 DEF Pick, Goto, Types, At, Early, Open, Chosen, Picked
<1>7. \A q \in Requests \ {r} : Same(q)
  BY <1>1 DEF Pick, Goto, Call, Types, Same
<1> QED
  BY <1>5, <1>6, <1>7 DEF Moves

(* A pick that the pool does not have is an error of its own kind. *)
LEMMA RejectPickMoves ==
  ASSUME IInv, NEW r \in Requests, RejectPick(r)
  PROVE  Moves(r)
<1> DEFINE e == IF chosen[r] = None THEN "no_backends_selected" ELSE "invalid_backend_index"
<1>1. Types /\ At(r) /\ e \in SelectErrors
  BY DEF IInv, SelectErrors
<1>2. /\ stage[r] = "picked" /\ Chosen(r)
      /\ stage' = [stage EXCEPT ![r] = "closed"]
      /\ Emit(r, "DispatchFailed", None, e) /\ Answer(r, e)
      /\ UNCHANGED <<chosen, wire, expired, outcome, calls>>
  BY <1>1 DEF RejectPick, Goto, At
<1> HIDE DEF e
<1>3. events'[r] = <<Began, Note("DispatchFailed", None, e)>>
  <2>1. events'[r] = Append(events[r], Note("DispatchFailed", None, e))
    BY <1>1, <1>2 DEF Emit, Types
  <2>2. events[r] = <<Began>>
    BY <1>2 DEF Chosen
  <2>3. Began \in Notes /\ Note("DispatchFailed", None, e) \in Notes
    BY <1>1, NotesTyped
  <2>4. Append(<<Began>>, Note("DispatchFailed", None, e))
          = <<Began, Note("DispatchFailed", None, e)>>
    BY <2>3, AppendShort
  <2> QED
    BY <2>1, <2>2, <2>4
<1>4. Types'
  <2>1. Note("DispatchFailed", None, e) \in Notes /\ e \in Answers
    BY <1>1, NotesTyped DEF Answers
  <2> QED
    BY <1>1, <1>2, <2>1 DEF Emit, Answer, Types, Stages
<1>5. At(r)'
  <2>1. Rejected(r)'
    BY <1>1, <1>2, <1>3 DEF Answer, Types, Chosen, Rejected, Picked
  <2> QED
    BY <1>1, <1>2, <2>1 DEF Types, At, Early
<1>6. \A q \in Requests \ {r} : Same(q)
  BY <1>1, <1>2 DEF Emit, Answer, Types, Same
<1> QED
  BY <1>4, <1>5, <1>6 DEF Moves

(* A pick that the pool has is announced. *)
LEMMA AcceptPickMoves ==
  ASSUME IInv, NEW r \in Requests, AcceptPick(r)
  PROVE  Moves(r)
<1>1. Types /\ At(r)
  BY DEF IInv
<1>2. stage[r] = "picked" /\ wire[r] = "quiet" /\ Chosen(r) /\ InPool(r)
  BY <1>1 DEF AcceptPick, Goto, At, Early, InPool
<1>3. events'[r] = <<Began, Selected(r)>>
  <2>1. events'[r] = Append(events[r], Selected(r))
    BY <1>1 DEF AcceptPick, Emit, Types, Selected
  <2>2. events[r] = <<Began>>
    BY <1>2 DEF Chosen
  <2>3. Began \in Notes /\ Selected(r) \in Notes
    BY <1>1, NotesTyped
  <2>4. Append(<<Began>>, Selected(r)) = <<Began, Selected(r)>>
    BY <2>3, AppendShort
  <2> QED
    BY <2>1, <2>2, <2>4
<1>4. Types'
  <2>1. Selected(r) \in Notes
    BY <1>1, NotesTyped
  <2> QED
    BY <1>1, <1>2, <2>1 DEF AcceptPick, Goto, Emit, Types, Stages, Selected
<1>5. At(r)'
  BY <1>1, <1>2, <1>3
    DEF AcceptPick, Goto, Types, At, Early, Silent, Open, Refused, Chosen, Rejected,
      InPool, Accepted, Counted, Observed, Told, Resolved,
     Began, PipelineFailed, Picked, Selected, Started, Seen, Reported
<1>6. \A q \in Requests \ {r} : Same(q)
  BY <1>1 DEF AcceptPick, Goto, Emit, Types, Same
<1> QED
  BY <1>4, <1>5, <1>6 DEF Moves

(* The balancer hears of the start. *)
LEMMA OnStartMoves ==
  ASSUME IInv, NEW r \in Requests, OnStart(r)
  PROVE  Moves(r)
<1>1. Types /\ At(r)
  BY DEF IInv
<1>2. stage[r] = "starting" /\ wire[r] = "quiet" /\ Accepted(r)
  BY <1>1 DEF OnStart, Goto, At, Early
<1>3. calls'[r] = <<Picked(r), Started(r)>>
  <2>1. calls'[r] = Append(calls[r], Started(r))
    BY <1>1 DEF OnStart, Call, Types, Started
  <2>2. calls[r] = <<Picked(r)>>
    BY <1>2 DEF Accepted
  <2>3. Picked(r) \in Notes /\ Started(r) \in Notes
    BY <1>1, NotesTyped
  <2>4. Append(<<Picked(r)>>, Started(r)) = <<Picked(r), Started(r)>>
    BY <2>3, AppendShort
  <2> QED
    BY <2>1, <2>2, <2>4
<1>4. Types'
  <2>1. Started(r) \in Notes
    BY <1>1, NotesTyped
  <2> QED
    BY <1>1, <1>2, <2>1 DEF OnStart, Goto, Call, Types, Stages, Started
<1>5. At(r)'
  BY <1>1, <1>2, <1>3
    DEF OnStart, Goto, Types, At, Early, Silent, Open, Refused, Chosen, Rejected, InPool,
      Accepted, Counted, Observed, Told, Resolved,
     Began, PipelineFailed, Picked, Selected, Started, Seen, Reported
<1>6. \A q \in Requests \ {r} : Same(q)
  BY <1>1 DEF OnStart, Goto, Call, Types, Same
<1> QED
  BY <1>4, <1>5, <1>6 DEF Moves

(* The observer hears of the result. *)
LEMMA EmitUpstreamMoves ==
  ASSUME IInv, NEW r \in Requests, EmitUpstream(r)
  PROVE  Moves(r)
<1>1. Types /\ At(r)
  BY DEF IInv
<1>2. stage[r] = "resolved" /\ Counted(r) /\ Resolved(r)
  BY <1>1 DEF EmitUpstream, Goto, At, Early
<1>3. events'[r] = <<Began, Selected(r), Seen(r)>>
  <2>1. events'[r] = Append(events[r], Seen(r))
    BY <1>1 DEF EmitUpstream, Emit, Types, Seen
  <2>2. events[r] = <<Began, Selected(r)>>
    BY <1>2 DEF Counted
  <2>3. Began \in Notes /\ Selected(r) \in Notes /\ Seen(r) \in Notes
    BY <1>1, NotesTyped
  <2>4. Append(<<Began, Selected(r)>>, Seen(r)) = <<Began, Selected(r), Seen(r)>>
    BY <2>3, AppendShort
  <2> QED
    BY <2>1, <2>2, <2>4
<1>4. Types'
  <2>1. Seen(r) \in Notes
    BY <1>1, NotesTyped
  <2>2. events' = [events EXCEPT ![r] = Append(@, Seen(r))]
    BY DEF EmitUpstream, Emit, Seen
  <2>3. Append(events[r], Seen(r)) \in Seq(Notes)
    BY <1>1, <2>1 DEF Types
  <2>4. /\ stage' \in [Requests -> Stages]
        /\ UNCHANGED <<chosen, wire, expired, outcome, calls, answer>>
    BY <1>1 DEF EmitUpstream, Goto, Types, Stages
  <2> QED
    BY <1>1, <2>2, <2>3, <2>4 DEF Types
<1>5. At(r)'
  BY <1>1, <1>2, <1>3
    DEF EmitUpstream, Goto, Types, At, Early, Silent, Open, Refused, Chosen, Rejected,
      InPool, Accepted, Counted, Observed, Told, Resolved,
     Began, PipelineFailed, Picked, Selected, Started, Seen, Reported
<1>6. \A q \in Requests \ {r} : Same(q)
  BY <1>1 DEF EmitUpstream, Goto, Emit, Types, Same
<1> QED
  BY <1>4, <1>5, <1>6 DEF Moves

(* The balancer hears of the same result. *)
LEMMA OnResultMoves ==
  ASSUME IInv, NEW r \in Requests, OnResult(r)
  PROVE  Moves(r)
<1>1. Types /\ At(r)
  BY DEF IInv
<1>2. stage[r] = "reporting" /\ Observed(r) /\ Resolved(r)
  BY <1>1 DEF OnResult, Goto, At, Early
<1>3. calls'[r] = <<Picked(r), Started(r), Reported(r)>>
  <2>1. calls'[r] = Append(calls[r], Reported(r))
    BY <1>1 DEF OnResult, Call, Types, Reported
  <2>2. calls[r] = <<Picked(r), Started(r)>>
    BY <1>2 DEF Observed
  <2>3. Picked(r) \in Notes /\ Started(r) \in Notes /\ Reported(r) \in Notes
    BY <1>1, NotesTyped
  <2>4. Append(<<Picked(r), Started(r)>>, Reported(r)) = <<Picked(r), Started(r), Reported(r)>>
    BY <2>3, AppendShort
  <2> QED
    BY <2>1, <2>2, <2>4
<1>4. Types'
  <2>1. Reported(r) \in Notes
    BY <1>1, NotesTyped
  <2> QED
    BY <1>1, <1>2, <2>1 DEF OnResult, Goto, Call, Types, Stages, Reported
<1>5. At(r)'
  BY <1>1, <1>2, <1>3
    DEF OnResult, Goto, Types, At, Early, Silent, Open, Refused, Chosen, Rejected,
      InPool, Accepted, Counted, Observed, Told, Resolved,
     Began, PipelineFailed, Picked, Selected, Started, Seen, Reported
<1>6. \A q \in Requests \ {r} : Same(q)
  BY <1>1 DEF OnResult, Goto, Call, Types, Same
<1> QED
  BY <1>4, <1>5, <1>6 DEF Moves

(* The client gets that result, too. *)
LEMMA RespondMoves ==
  ASSUME IInv, NEW r \in Requests, Respond(r)
  PROVE  Moves(r)
<1>1. Types /\ At(r)
  BY DEF IInv
<1>2. stage[r] = "responding" /\ Told(r) /\ Resolved(r)
  BY <1>1 DEF Respond, Goto, At
<1>3. Types'
  BY <1>1 DEF Respond, Goto, Answer, Types, Stages, Answers
<1>4. At(r)'
  BY <1>1, <1>2 DEF Respond, Goto, Answer, Types, At, Early, Told, Resolved, InPool,
     Picked, Selected, Started, Seen, Reported
<1>5. \A q \in Requests \ {r} : Same(q)
  BY <1>1 DEF Respond, Goto, Answer, Types, Same
<1> QED
  BY <1>3, <1>4, <1>5 DEF Moves

-----------------------------------------------------------------------------
(* The steps that note nothing. *)

(* A pipeline that succeeds is silent. *)
LEMMA PipelineSucceedsMoves ==
  ASSUME IInv, NEW r \in Requests, PipelineSucceeds(r)
  PROVE  Moves(r)
<1>1. Types /\ At(r)
  BY DEF IInv
<1>2. Types'
  BY <1>1 DEF PipelineSucceeds, Goto, Types, Stages, ProxyErrors
<1>3. At(r)'
  BY <1>1
    DEF PipelineSucceeds, Goto, Types, At, Early, Silent, Open, Refused, Chosen,
      Rejected, InPool, Accepted, Counted, Observed, Told, Resolved,
     ProxyErrors, Pending, PipelineFailed, Picked, Selected, Started, Seen, Reported
<1>4. \A q \in Requests \ {r} : Same(q)
  BY <1>1 DEF PipelineSucceeds, Goto, Types, Same
<1> QED
  BY <1>2, <1>3, <1>4 DEF Moves

(* The proxy call begins. *)
LEMMA ProxyCallMoves ==
  ASSUME IInv, NEW r \in Requests, RewriteFails(r) \/ Send(r)
  PROVE  Moves(r)
<1>1. Types /\ At(r)
  BY DEF IInv
<1>2. Types'
  BY <1>1 DEF RewriteFails, Send, Goto, Types, Stages, ProxyErrors
<1>3. At(r)'
  BY <1>1
    DEF RewriteFails, Send, Goto, Types, At, Early, Silent, Open, Refused, Chosen,
      Rejected, InPool, Accepted, Counted, Observed, Told, Resolved,
     ProxyErrors, Pending, PipelineFailed, Picked, Selected, Started, Seen, Reported
<1>4. \A q \in Requests \ {r} : Same(q)
  BY <1>1 DEF RewriteFails, Send, Goto, Types, Same
<1> QED
  BY <1>2, <1>3, <1>4 DEF Moves

(* The proxy call ends: an answer, or the deadline. *)
LEMMA PollMoves ==
  ASSUME IInv, NEW r \in Requests, PollAnswer(r) \/ PollTimeout(r)
  PROVE  Moves(r)
<1>1. Types /\ At(r)
  BY DEF IInv
<1>2. Types'
  BY <1>1 DEF PollAnswer, PollTimeout, Goto, Types, Stages, ProxyErrors
<1>3. At(r)'
  BY <1>1
    DEF PollAnswer, PollTimeout, Goto, Types, At, Early, Silent, Open, Refused, Chosen,
      Rejected, InPool, Accepted, Counted, Observed, Told, Resolved,
     ProxyErrors, Pending, PipelineFailed, Picked, Selected, Started, Seen, Reported
<1>4. \A q \in Requests \ {r} : Same(q)
  BY <1>1 DEF PollAnswer, PollTimeout, Goto, Types, Same
<1> QED
  BY <1>2, <1>3, <1>4 DEF Moves

(* The upstream. *)
LEMMA UpstreamMoves ==
  ASSUME IInv, NEW r \in Requests, UpstreamHead(r) \/ UpstreamFails(r) \/ BodyEnds(r)
  PROVE  Moves(r)
<1>1. Types /\ At(r)
  BY DEF IInv
<1>2. Types'
  BY <1>1 DEF UpstreamHead, UpstreamFails, BodyEnds, Goto, Types, Stages, ProxyErrors
<1>3. At(r)'
  BY <1>1
    DEF UpstreamHead, UpstreamFails, BodyEnds, Goto, Types, At, Early, Silent, Open,
      Refused, Chosen, Rejected, InPool, Accepted, Counted, Observed, Told, Resolved,
     ProxyErrors, Pending, PipelineFailed, Picked, Selected, Started, Seen, Reported
<1>4. \A q \in Requests \ {r} : Same(q)
  BY <1>1 DEF UpstreamHead, UpstreamFails, BodyEnds, Goto, Types, Same
<1> QED
  BY <1>2, <1>3, <1>4 DEF Moves

(* The timer. *)
LEMMA DeadlineMoves ==
  ASSUME IInv, NEW r \in Requests, DeadlinePasses(r)
  PROVE  Moves(r)
<1>1. Types /\ At(r)
  BY DEF IInv
<1>2. Types'
  BY <1>1 DEF DeadlinePasses, Goto, Types, Stages, ProxyErrors
<1>3. At(r)'
  BY <1>1
    DEF DeadlinePasses, Goto, Types, At, Early, Silent, Open, Refused, Chosen, Rejected,
      InPool, Accepted, Counted, Observed, Told, Resolved,
     ProxyErrors, Pending, PipelineFailed, Picked, Selected, Started, Seen, Reported
<1>4. \A q \in Requests \ {r} : Same(q)
  BY <1>1 DEF DeadlinePasses, Goto, Types, Same
<1> QED
  BY <1>2, <1>3, <1>4 DEF Moves

(* The client leaves. *)
LEMMA DisconnectMoves ==
  ASSUME IInv, NEW r \in Requests, Disconnect(r)
  PROVE  Moves(r)
<1>1. Types /\ At(r)
  BY DEF IInv
<1>2. Types'
  BY <1>1 DEF Disconnect, Goto, Types, Stages, ProxyErrors
<1>3. At(r)'
  BY <1>1
    DEF Disconnect, Goto, Types, At, Early, Silent, Open, Refused, Chosen, Rejected,
      InPool, Accepted, Counted, Observed, Told, Resolved,
     ProxyErrors, Pending, PipelineFailed, Picked, Selected, Started, Seen, Reported
<1>4. \A q \in Requests \ {r} : Same(q)
  BY <1>1 DEF Disconnect, Goto, Types, Same
<1> QED
  BY <1>2, <1>3, <1>4 DEF Moves

(* The observer panics. *)
LEMMA ObserverPanicsMoves ==
  ASSUME IInv, NEW r \in Requests, ObserverPanics(r)
  PROVE  Moves(r)
<1>1. Types /\ At(r)
  BY DEF IInv
<1>2. Types'
  BY <1>1 DEF ObserverPanics, Goto, Types, Stages, ProxyErrors
<1>3. At(r)'
  BY <1>1
    DEF ObserverPanics, Goto, Types, At, Early, Silent, Open, Refused, Chosen, Rejected,
      InPool, Accepted, Counted, Observed, Told, Resolved,
     ProxyErrors, Pending, PipelineFailed, Picked, Selected, Started, Seen, Reported
<1>4. \A q \in Requests \ {r} : Same(q)
  BY <1>1 DEF ObserverPanics, Goto, Types, Same
<1> QED
  BY <1>2, <1>3, <1>4 DEF Moves

-----------------------------------------------------------------------------

(* Nobody else's part of the invariant is disturbed. *)
LEMMA OthersStay ==
  ASSUME NEW q \in Requests, At(q), Same(q)
  PROVE  At(q)'
BY DEF Same, At, Early, Silent, Open, Refused, Chosen, Rejected, InPool, Accepted, Counted,
   Observed, Told, Resolved, Began, PipelineFailed, Picked, Selected, Started, Seen, Reported

(* It holds at the start. *)
LEMMA InitIInv == Init => IInv
BY DEF Init, IInv, Types, At, Early, Silent, Stages, ProxyErrors, Answers, Notes, Pending

(* And each step keeps it: one request moves, the others stay. *)
LEMMA NextIInv == IInv /\ [Next]_vars => IInv'
<1> SUFFICES ASSUME IInv, [Next]_vars
             PROVE  IInv'
  OBVIOUS
<1>1. CASE UNCHANGED vars
  <2>1. Types'
    BY <1>1 DEF IInv, Types, vars
  <2>2. ASSUME NEW q \in Requests PROVE At(q)'
    BY <1>1, OthersStay DEF IInv, Same, vars
  <2> QED
    BY <2>1, <2>2 DEF IInv
<1>2. ASSUME NEW r \in Requests, Moves(r)
      PROVE  IInv'
  <2>1. ASSUME NEW q \in Requests, q # r PROVE At(q)'
    BY <1>2, <2>1, OthersStay DEF Moves, IInv
  <2> QED
    BY <1>2, <2>1 DEF Moves, IInv
<1>3. ASSUME NEW r \in Requests, Handler(r)
      PROVE  Moves(r)
  <2>1. CASE \E piped \in BOOLEAN : Begin(r, piped)
    BY <2>1, BeginMoves
  <2>2. CASE SelectBackend(r)
    BY <2>2, PickMoves, RejectPickMoves, AcceptPickMoves DEF SelectBackend
  <2>3. CASE ProxyToBackend(r)
    BY <2>3, OnStartMoves, ProxyCallMoves, PollMoves, EmitUpstreamMoves, OnResultMoves,
       RespondMoves DEF ProxyToBackend
  <2> QED
    BY <1>3, <2>1, <2>2, <2>3 DEF Handler
<1>4. ASSUME NEW r \in Requests, Environment(r)
      PROVE  Moves(r)
  BY <1>4, PipelineSucceedsMoves, PipelineFailsMoves, UpstreamMoves, DeadlineMoves,
     DisconnectMoves, ObserverPanicsMoves DEF Environment
<1> QED
  BY <1>1, <1>2, <1>3, <1>4 DEF Next

(* The invariant holds in every reachable state. *)
THEOREM InvariantHolds == Spec => []IInv
BY InitIInv, NextIInv, PTL DEF Spec

-----------------------------------------------------------------------------
(* What it implies. *)

(* Kinds of a short log. *)
LEMMA KindsOfShort ==
  /\ Kinds(<<>>) = <<>>
  /\ \A a : Kinds(<<a>>) = <<a.kind>>
  /\ \A a, b : Kinds(<<a, b>>) = <<a.kind, b.kind>>
  /\ \A a, b, c : Kinds(<<a, b, c>>) = <<a.kind, b.kind, c.kind>>
BY DEF Kinds

(* Lengths of short sequences. *)
LEMMA LenOfShort ==
  ASSUME NEW a, NEW b, NEW c, NEW s \in {<<>>, <<a>>, <<a, b>>, <<a, b, c>>}
  PROVE  Len(s) <= 3
<1>1. CASE s = <<>>
  BY <1>1
<1>2. CASE s = <<a>>
  BY <1>2
<1>3. CASE s = <<a, b>>
  BY <1>3
<1>4. CASE s = <<a, b, c>>
  BY <1>4
<1> QED
  BY <1>1, <1>2, <1>3, <1>4

(* Prefixes of a short sequence. *)
LEMMA PrefixesOfShort ==
  /\ \A a, b : /\ IsPrefix(<<>>, <<a, b>>) /\ IsPrefix(<<a>>, <<a, b>>)
               /\ IsPrefix(<<a, b>>, <<a, b>>)
  /\ \A a, b, c : /\ IsPrefix(<<>>, <<a, b, c>>) /\ IsPrefix(<<a>>, <<a, b, c>>)
                  /\ IsPrefix(<<a, b>>, <<a, b, c>>) /\ IsPrefix(<<a, b, c>>, <<a, b, c>>)
BY DEF IsPrefix

(* Every request is at one of ten points of its account. *)
LEMMA Points ==
  ASSUME NEW r \in Requests, Types, At(r)
  PROVE  \/ Silent(r) \/ Open(r) \/ Refused(r) \/ Chosen(r) \/ Rejected(r)
         \/ Accepted(r) \/ Counted(r) \/ Observed(r)
         \/ Told(r) /\ answer[r] = Pending
         \/ Told(r) /\ answer[r] = outcome[r] /\ outcome[r] # Pending
BY DEF Types, Stages, At, Resolved, Pending

(* The balancer's account is a beginning of pick, on_start, on_result.     *)
LEMMA CallsOf ==
  ASSUME NEW r \in Requests, Types, At(r)
  PROVE  \/ calls[r] = <<>> \/ calls[r] = <<Picked(r)>>
         \/ InPool(r) /\ calls[r] = <<Picked(r), Started(r)>>
         \/ Told(r)
BY Points DEF Silent, Open, Refused, Chosen, Rejected, Accepted, Counted, Observed

(* The observer's account is a beginning of a complete one, which it is    *)
(* once there is an answer.                                                *)
LEMMA EventsOf ==
  ASSUME NEW r \in Requests, Types, At(r)
  PROVE  \/ answer[r] = Pending /\ events[r] = <<>>
         \/ answer[r] = Pending /\ events[r] = <<Began>>
         \/ answer[r] = Pending /\ events[r] = <<Began, Selected(r)>>
         \/ \E e \in PipelineErrors : events[r] = <<Began, PipelineFailed(e)>>
         \/ \E e \in SelectErrors : events[r] = <<Began, Note("DispatchFailed", None, e)>>
         \/ events[r] = <<Began, Selected(r), Seen(r)>>
BY Points DEF Silent, Open, Refused, Chosen, Rejected, Accepted, Counted, Observed, Told

(* The invariant is enough for the type invariant. *)
LEMMA InvariantImpliesTypeOK == IInv => TypeOK
<1> SUFFICES ASSUME IInv PROVE TypeOK
  OBVIOUS
<1>1. Types
  BY DEF IInv
<1>2. ASSUME NEW r \in Requests PROVE Len(events[r]) <= 3 /\ Len(calls[r]) <= 3
  <2>1. At(r)
    BY DEF IInv
  <2>2. PICK a, b, c : events[r] \in {<<>>, <<a>>, <<a, b>>, <<a, b, c>>}
    BY <1>1, <2>1, EventsOf
  <2>3. PICK d, e, f : calls[r] \in {<<>>, <<d>>, <<d, e>>, <<d, e, f>>}
    BY <1>1, <2>1, CallsOf DEF Told
  <2> QED
    BY <2>2, <2>3, LenOfShort
<1> QED
  BY <1>1, <1>2 DEF Types, TypeOK

(* The invariant is enough for the balancer's protocol. *)
LEMMA InvariantImpliesProtocol == IInv => BalancerProtocol
<1> SUFFICES ASSUME IInv, NEW r \in Requests
             PROVE  /\ IsPrefix(Kinds(calls[r]), <<"pick", "on_start", "on_result">>)
                    /\ \A k \in DOMAIN calls[r] : calls[r][k].idx = calls[r][1].idx
                    /\ Len(calls[r]) > 1 => calls[r][1].idx \in 0 .. PoolLen - 1
  BY DEF BalancerProtocol
<1>1. Types /\ At(r)
  BY DEF IInv
<1>2. /\ Picked(r).kind = "pick" /\ Picked(r).idx = chosen[r]
      /\ Started(r).kind = "on_start" /\ Started(r).idx = chosen[r]
      /\ Reported(r).kind = "on_result" /\ Reported(r).idx = chosen[r]
  BY DEF Picked, Started, Reported, Note
<1>3. CASE calls[r] = <<>>
  <2>1. IsPrefix(Kinds(calls[r]), <<"pick", "on_start", "on_result">>)
    BY <1>3, KindsOfShort, PrefixesOfShort
  <2>2. \A k \in DOMAIN calls[r] : calls[r][k].idx = calls[r][1].idx
    BY <1>3
  <2>3. Len(calls[r]) = 0
    BY <1>3
  <2> QED
    BY <2>1, <2>2, <2>3
<1>4. CASE calls[r] = <<Picked(r)>>
  <2>1. Kinds(calls[r]) = <<"pick">>
    BY <1>2, <1>4, KindsOfShort
  <2>2. IsPrefix(Kinds(calls[r]), <<"pick", "on_start", "on_result">>)
    BY <2>1, PrefixesOfShort
  <2>3. \A k \in DOMAIN calls[r] : calls[r][k].idx = calls[r][1].idx
    BY <1>4
  <2>4. Len(calls[r]) = 1
    BY <1>4
  <2> QED
    BY <2>2, <2>3, <2>4
<1>5. CASE InPool(r) /\ calls[r] = <<Picked(r), Started(r)>>
  <2>1. Kinds(calls[r]) = <<"pick", "on_start">>
    BY <1>2, <1>5, KindsOfShort
  <2>2. IsPrefix(Kinds(calls[r]), <<"pick", "on_start", "on_result">>)
    BY <2>1, PrefixesOfShort
  <2>3. \A k \in DOMAIN calls[r] : calls[r][k].idx = chosen[r]
    BY <1>2, <1>5
  <2> QED
    BY <1>2, <1>5, <2>2, <2>3 DEF InPool
<1>6. CASE Told(r)
  <2>1. Kinds(calls[r]) = <<"pick", "on_start", "on_result">>
    BY <1>2, <1>6, KindsOfShort DEF Told
  <2>2. IsPrefix(Kinds(calls[r]), <<"pick", "on_start", "on_result">>)
    BY <2>1, PrefixesOfShort
  <2>3. \A k \in DOMAIN calls[r] : calls[r][k].idx = chosen[r]
    BY <1>2, <1>6 DEF Told
  <2> QED
    BY <1>2, <1>6, <2>2, <2>3 DEF Told, InPool
<1> QED
  BY <1>1, <1>3, <1>4, <1>5, <1>6, CallsOf

(* The invariant is enough for the observer's account. *)
LEMMA InvariantImpliesStory == IInv => EventsTellTheStory
<1> SUFFICES ASSUME IInv, NEW r \in Requests
             PROVE  /\ \E run \in CompleteRuns : IsPrefix(Kinds(events[r]), run)
                    /\ answer[r] # Pending => Kinds(events[r]) \in CompleteRuns
  BY DEF EventsTellTheStory
<1>1. Types /\ At(r)
  BY DEF IInv
<1>2. /\ Began.kind = "RequestStart" /\ Selected(r).kind = "BackendSelected"
      /\ Seen(r).kind \in {"UpstreamSucceeded", "UpstreamFailed"}
      /\ \A e \in PipelineErrors :
            PipelineFailed(e).kind \in {"PipelineFailedFramework", "PipelineFailedCustom"}
      /\ \A e : Note("DispatchFailed", None, e).kind = "DispatchFailed"
  BY DEF Began, Selected, Seen, PipelineFailed, Note
<1>3. <<"RequestStart", "BackendSelected", "UpstreamFailed">> \in CompleteRuns
  BY DEF CompleteRuns
<1>4. CASE answer[r] = Pending /\ events[r] = <<>>
  <2>1. Kinds(events[r]) = <<>>
    BY <1>4, KindsOfShort
  <2> QED
    BY <1>3, <1>4, <2>1, PrefixesOfShort
<1>5. CASE answer[r] = Pending /\ events[r] = <<Began>>
  <2>1. Kinds(events[r]) = <<"RequestStart">>
    BY <1>2, <1>5, KindsOfShort
  <2> QED
    BY <1>3, <1>5, <2>1, PrefixesOfShort
<1>6. CASE answer[r] = Pending /\ events[r] = <<Began, Selected(r)>>
  <2>1. Kinds(events[r]) = <<"RequestStart", "BackendSelected">>
    BY <1>2, <1>6, KindsOfShort
  <2> QED
    BY <1>3, <1>6, <2>1, PrefixesOfShort
<1>7. ASSUME NEW e \in PipelineErrors, events[r] = <<Began, PipelineFailed(e)>>
      PROVE  Kinds(events[r]) \in CompleteRuns
  <2>1. Kinds(events[r]) = <<"RequestStart", PipelineFailed(e).kind>>
    BY <1>2, <1>7, KindsOfShort
  <2> QED
    BY <1>2, <2>1 DEF CompleteRuns
<1>8. ASSUME NEW e \in SelectErrors, events[r] = <<Began, Note("DispatchFailed", None, e)>>
      PROVE  Kinds(events[r]) \in CompleteRuns
  <2>1. Kinds(events[r]) = <<"RequestStart", "DispatchFailed">>
    BY <1>2, <1>8, KindsOfShort
  <2> QED
    BY <2>1 DEF CompleteRuns
<1>9. ASSUME events[r] = <<Began, Selected(r), Seen(r)>>
      PROVE  Kinds(events[r]) \in CompleteRuns
  <2>1. Kinds(events[r]) = <<"RequestStart", "BackendSelected", Seen(r).kind>>
    BY <1>2, <1>9, KindsOfShort
  <2> QED
    BY <1>2, <2>1 DEF CompleteRuns
<1>10. \A run \in CompleteRuns : IsPrefix(run, run)
  BY PrefixesOfShort DEF CompleteRuns
<1> QED
  BY <1>1, <1>4, <1>5, <1>6, <1>7, <1>8, <1>9, <1>10, EventsOf

(* A balancer that was told is not one that waits to be. *)
LEMMA ToldIsLate ==
  ASSUME NEW r \in Requests, Told(r)
  PROVE  /\ ~Silent(r) /\ ~Open(r) /\ ~Refused(r) /\ ~Chosen(r) /\ ~Rejected(r)
         /\ ~Accepted(r) /\ ~Counted(r) /\ ~Observed(r)
<1>1. Len(calls[r]) = 3
  BY DEF Told
<1> QED
  BY <1>1 DEF Silent, Open, Refused, Chosen, Rejected, Accepted, Counted, Observed

(* The invariant is enough for the four accounts. *)
LEMMA InvariantImpliesAccounts == IInv => AccountsAgree
<1> SUFFICES ASSUME IInv, NEW r \in Requests, Len(calls[r]) = 3
             PROVE  LET told == calls[r][3].err
                        seen == Last(events[r])
                    IN  /\ seen.idx = calls[r][3].idx /\ seen.err = told
                        /\ (seen.kind = "UpstreamSucceeded") = (told = Pending)
                        /\ answer[r] # Pending =>
                             /\ (answer[r] = "upstream") = (told = Pending)
                             /\ (Status(answer[r]) = 504) = (told = "upstream_timeout")
                             /\ answer[r] = "upstream" =>
                                  stage[r] = "gone" \/ wire[r] \in {"head", "done"}
                             /\ answer[r] = "upstream_timeout" => wire[r] = "cut"
                             /\ answer[r] = "invalid_upstream_uri" => wire[r] = "quiet"
  BY DEF AccountsAgree
<1>1. Types /\ At(r)
  BY DEF IInv
<1>2. Told(r)
  BY <1>1, CallsOf
<1>3. calls[r][3] = Reported(r) /\ Last(events[r]) = Seen(r)
  BY <1>2 DEF Told, Last
<1>4. /\ Seen(r).idx = chosen[r] /\ Reported(r).idx = chosen[r]
      /\ Reported(r).err = IF outcome[r] = "upstream" THEN Pending ELSE outcome[r]
      /\ Seen(r).err = IF outcome[r] = "upstream" THEN Pending ELSE outcome[r]
      /\ Seen(r).kind = IF outcome[r] = "upstream" THEN "UpstreamSucceeded"
                                                   ELSE "UpstreamFailed"
  BY DEF Seen, Reported, Note
<1>5. /\ answer[r] # Pending => answer[r] = outcome[r]
      /\ outcome[r] # Pending
      /\ stage[r] = "gone" \/ Resolved(r)
      /\ stage[r] = "gone" /\ answer[r] # Pending => answer[r] = "upstream"
  BY <1>1, <1>2, ToldIsLate DEF Types, Stages, At, Resolved, Pending
<1>6. outcome[r] \in ProxyErrors \union {Pending, "upstream"}
  BY <1>1 DEF Types
<1>7. (outcome[r] = "upstream") = (Reported(r).err = Pending)
  BY <1>4, <1>5, <1>6 DEF Resolved, Pending, ProxyErrors
<1>8. ASSUME answer[r] # Pending
      PROVE  /\ (answer[r] = "upstream") = (Reported(r).err = Pending)
             /\ (Status(answer[r]) = 504) = (Reported(r).err = "upstream_timeout")
             /\ answer[r] = "upstream" => stage[r] = "gone" \/ wire[r] \in {"head", "done"}
             /\ answer[r] = "upstream_timeout" => wire[r] = "cut"
             /\ answer[r] = "invalid_upstream_uri" => wire[r] = "quiet"
  BY <1>4, <1>5, <1>7, <1>8 DEF Resolved, Status, Pending
<1> QED
  BY <1>3, <1>4, <1>7, <1>8

-----------------------------------------------------------------------------

(* The variables have the types that their declarations say. *)
THEOREM TypesAreRight == Spec => []TypeOK
BY InvariantHolds, InvariantImpliesTypeOK, PTL

(* Whatever the pool and however its upstream, its observer and its client *)
(* behave, a balancer hears of a request pick, on_start, on_result, in     *)
(* that order and at most once each, with one index, which is in the pool  *)
(* from on_start on.                                                       *)
THEOREM ProtocolHolds == Spec => []BalancerProtocol
BY InvariantHolds, InvariantImpliesProtocol, PTL

(* The observer's events of a request are always the beginning of one of   *)
(* five complete sequences, and all of it once there is an answer.         *)
THEOREM StoryIsTold == Spec => []EventsTellTheStory
BY InvariantHolds, InvariantImpliesStory, PTL

(* The client, the observer, the balancer and the wire tell the same of an *)
(* upstream call.                                                          *)
THEOREM AllAccountsAgree == Spec => []AccountsAgree
BY InvariantHolds, InvariantImpliesAccounts, PTL
=============================================================================
