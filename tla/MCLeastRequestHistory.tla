----------------------- MODULE MCLeastRequestHistory -----------------------
(* Instances of LeastRequestHistory for TLC, from those of LeastRequest. *)
EXTENDS LeastRequestHistory, MCLeastRequest

=============================================================================
