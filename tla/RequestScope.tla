---------------------------- MODULE RequestScope ----------------------------
(***************************************************************************)
(* pipeline.rs: the values and the body one request's pipeline owns.  A    *)
(* value is stored under its type and is represented by where it came from *)
(* (a path or query extraction, a hook, the application's state).          *)
(***************************************************************************)
EXTENDS Naturals

CONSTANTS
  DataTypes,   \* user types that can be stored in a scope
  BodyLimit    \* map_body_limit: the most bytes a pipeline reads

ASSUME ScopeAssumption == BodyLimit \in Nat

Absent  == "absent"
Origins == {"state", "path", "query", "hook"}

NewScope(shared) ==
  [shared |-> shared, local |-> [t \in DataTypes |-> Absent],
   body |-> "stream", raw |-> "none"]

Insert(s, t, origin) == [s EXCEPT !.local[t] = origin]
GetSharedFirst(s, t) == IF s.shared[t] # Absent THEN s.shared[t] ELSE s.local[t]
Get(s, t)       == IF s.local[t] # Absent THEN s.local[t] ELSE s.shared[t]
GetMut(s, t)    == s.local[t]
AfterTake(s, t) == [s EXCEPT !.local[t] = Absent]

HasBody(s)      == s.body = "stream"
AfterTakeBody(s) == [s EXCEPT !.body = "taken"]

(* read_body_bytes: the body is gone before it is read; only a complete    *)
(* read within the limit is cached for RawBody, and every failed read has  *)
(* the same name.                                                          *)
ReadFailureOfTakenBody(s) == "request_body_already_consumed"
ReadFailure(s)     == IF HasBody(s) THEN "request_body_too_large"
                                    ELSE "request_body_already_consumed"
CanRead(s, body)   == HasBody(s) /\ ~body.broken /\ body.len <= BodyLimit
AfterRead(s, body) == [AfterTakeBody(s) EXCEPT !.raw =
                         IF CanRead(s, body) THEN body.bytes ELSE @]

RawBody(s) == s.raw
=============================================================================
