--------------------------- MODULE MCBackendProcess ---------------------------
(* Instance values for the runs of one backend object. *)
EXTENDS BackendProcess

CONSTANTS q1, q2

ThreeChildren == 1..3
TwoProbers    == {q1, q2}

=============================================================================
