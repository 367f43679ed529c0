-------------------------------- MODULE Retry --------------------------------
(***************************************************************************)
(* How long poll_until (crates/restate-e2e-harness/src/admin.rs) sleeps    *)
(* between two probes, in whole milliseconds.                              *)
(***************************************************************************)
EXTENDS Integers

Lesser(a, b) == IF a <= b THEN a ELSE b
Greater(a, b) == IF a >= b THEN a ELSE b

(* Mutant: the interval is slept in full. *)
RetryWhole(interval, remaining) == interval

(* Mutant: near the deadline, all that remains is slept. *)
RetryToTheEnd(interval, remaining) == Lesser(interval, remaining)

(* The interval, or half of what remains but a millisecond at least, and never *)
(* more than remains; a timer ends on a whole millisecond.                     *)
RetryDelay(interval, remaining) ==
  Lesser(Lesser(interval, Greater((remaining + 1) \div 2, 1)), remaining)
=============================================================================
