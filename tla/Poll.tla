-------------------------------- MODULE Poll --------------------------------
(***************************************************************************)
(* What a poll promises its caller (the documentation of Poller::poll,     *)
(* crates/restate-ext/src/poll.rs:167-211), with no journal, no crash and  *)
(* no sleep in sight: check, and while the check asks to go on and no      *)
(* limit is reached, wait and check again.                                 *)
(***************************************************************************)
EXTENDS Integers

CONSTANT None

VARIABLES
  poller,    (* interval, timeout and maxAttempts *)
  stage,     (* "new", "checking", "waiting" or "ended" *)
  left,      (* checks still allowed, when there is an attempt limit *)
  deadline,  (* start of the poll plus its timeout *)
  latest,    (* the latest time the poll has seen *)
  outcome    (* why it ended *)

pollVars == <<poller, stage, left, deadline, latest, outcome>>

Init ==
  /\ stage = IF poller.timeout = None THEN "checking" ELSE "new"
  /\ left = IF poller.maxAttempts = None THEN 0 ELSE poller.maxAttempts
  /\ deadline = 0
  /\ latest = 0
  /\ outcome = "none"

(* The timeout starts before the first check. *)
Start ==
  /\ stage = "new"
  /\ stage' = "checking"
  /\ deadline' = latest' + poller.timeout
  /\ UNCHANGED <<poller, left, outcome>>

(* A final result or an error of a check wins over every limit. *)
Decide ==
  /\ stage = "checking"
  /\ stage' = "ended"
  /\ outcome' \in {"Finished", "CheckFailed"}
  /\ UNCHANGED <<poller, left, deadline, latest>>

(* The last allowed check asked to go on: this comes before the timeout. *)
Exhaust ==
  /\ stage = "checking"
  /\ poller.maxAttempts # None /\ left = 1
  /\ stage' = "ended"
  /\ left' = 0
  /\ outcome' = "AttemptsExhausted"
  /\ UNCHANGED <<poller, deadline, latest>>

SpendAttempt ==
  /\ poller.maxAttempts # None => left > 1
  /\ left' = IF poller.maxAttempts = None THEN left ELSE left - 1

(* A zero timeout checks once and does not wait. *)
CheckOnce ==
  /\ stage = "checking"
  /\ poller.timeout = 0
  /\ SpendAttempt
  /\ stage' = "ended"
  /\ outcome' = "TimedOut"
  /\ UNCHANGED <<poller, deadline, latest>>

GoOn ==
  /\ stage = "checking"
  /\ poller.timeout # 0
  /\ SpendAttempt
  /\ stage' = "waiting"
  /\ UNCHANGED <<poller, deadline, latest, outcome>>

(* While waiting the poll may learn the time, which never goes back. *)
Observe ==
  /\ stage = "waiting"
  /\ poller.timeout # None
  /\ latest' >= latest
  /\ latest' < deadline
  /\ UNCHANGED <<poller, stage, left, deadline, outcome>>

(* The wait is over, and there is time left. *)
Recheck ==
  /\ stage = "waiting"
  /\ IF poller.timeout = None THEN latest' = latest ELSE latest <= latest' /\ latest' < deadline
  /\ stage' = "checking"
  /\ UNCHANGED <<poller, left, deadline, outcome>>

(* Reaching the deadline ends the poll without another check. *)
Expire ==
  /\ stage = "waiting"
  /\ poller.timeout # None
  /\ latest' >= latest
  /\ latest' >= deadline
  /\ stage' = "ended"
  /\ outcome' = "TimedOut"
  /\ UNCHANGED <<poller, left, deadline>>

(* A cancellation, or a start whose deadline no timer can carry. *)
Refuse ==
  /\ stage # "ended"
  /\ stage' = "ended"
  /\ \/ outcome' = "Cancelled"
     \/ outcome' = "BadDeadline" /\ stage = "new"
  /\ UNCHANGED <<poller, left, deadline, latest>>

Next ==
  \/ Start \/ Decide \/ Exhaust \/ CheckOnce \/ GoOn
  \/ Observe \/ Recheck \/ Expire \/ Refuse

Spec == Init /\ [][Next]_pollVars
=============================================================================
