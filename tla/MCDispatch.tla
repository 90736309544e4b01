----------------------------- MODULE MCDispatch -----------------------------
(* Instance of Dispatch for TLC. *)
EXTENDS Dispatch

CONSTANTS r1, r2

TwoRequests == {r1, r2}

=============================================================================
