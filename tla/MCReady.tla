------------------------------- MODULE MCReady -------------------------------
(* Intervals longer than the inspection's, the longer one near the deadline. *)
EXTENDS Ready

Intervals == [health |-> 6, sql |-> 3]
=============================================================================
