------------------------------ MODULE MCCounter ------------------------------
(* A second's interval and a timeout of three. *)
EXTENDS Counter

OnePoller == {[interval |-> 1, timeout |-> 3, maxAttempts |-> None]}
=============================================================================
