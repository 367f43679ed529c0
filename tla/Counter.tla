------------------------------- MODULE Counter -------------------------------
(***************************************************************************)
(* The poll-counter example (examples/poll-counter/src/lib.rs): a counter, *)
(* and a shared handler that polls it, next to the exclusive handlers that *)
(* add to it. The poll is Poller's, crashes, replays and clocks included;  *)
(* its check is a read of the counter's state, an entry of its journal.    *)
(***************************************************************************)
EXTENDS Poller

CONSTANTS
  Threshold, (* ten *)
  Widest,    (* the largest value a u64 holds *)
  Amounts,   (* bound: what is added *)
  Starts     (* bound: what the counter may hold when the wait begins *)

ASSUME CounterAssumption == Threshold \in Nat /\ Widest \in Nat /\ Amounts \cup Starts \subseteq Nat

VARIABLES
  value,  (* the counter's state, kept by Restate *)
  adding, (* the invocation of add that has the counter's key, None otherwise *)
  seen,   (* what the checks of the wait read, by their position in its journal *)
  answer, (* of the wait *)
  sums,   (* history: what the counter amounted to, by the additions it accepted *)
  looked  (* history: the reads there had been when it reached the threshold *)

counter == <<value, adding, sums, looked>>
counterVars == <<vars, counter, seen, answer>>

Sum == CHOOSE s \in sums : \A other \in sums : other <= s

-----------------------------------------------------------------------------
(* Counter::add. A lost attempt is given again what the journal holds. *)

(* Restate lets one invocation at a time have the key. *)
Enter(amount) ==
  /\ adding = None
  /\ adding' = [amount |-> amount, step |-> "get", got |-> 0]
  /\ UNCHANGED <<vars, value, seen, answer, sums, looked>>

Get ==
  /\ adding # None /\ adding.step = "get"
  /\ adding' = [adding EXCEPT !.step = "set", !.got = value]
  /\ UNCHANGED <<vars, value, seen, answer, sums, looked>>

(* The attempt is lost before its read was stored: the next one reads again. *)
LoseRead ==
  /\ adding # None /\ adding.step = "set"
  /\ adding' = [adding EXCEPT !.step = "get", !.got = 0]
  /\ UNCHANGED <<vars, value, seen, answer, sums, looked>>

(* checked_add: what does not fit is refused, and the counter is left alone. *)
Set ==
  /\ adding # None /\ adding.step = "set"
  /\ LET total == adding.got + adding.amount
     IN IF total > Widest THEN UNCHANGED <<value, sums, looked>>
        ELSE /\ value' = total /\ sums' = sums \cup {Sum + adding.amount}
             /\ looked' = IF looked = None /\ total >= Threshold THEN Cardinality(DOMAIN seen) ELSE looked
  /\ adding' = [adding EXCEPT !.step = "return"]
  /\ UNCHANGED <<vars, seen, answer>>

Leave ==
  /\ adding # None /\ adding.step = "return"
  /\ adding' = None
  /\ UNCHANGED <<vars, value, seen, answer, sums, looked>>

-----------------------------------------------------------------------------
(* Counter::wait *)

(* Mutant: state is loaded once, with the invocation. *)
LookEager == IF DOMAIN seen = {} THEN value ELSE seen[CHOOSE p \in DOMAIN seen : \A q \in DOMAIN seen : p <= q]

(* lazy_state: a get asks for the state as it is. *)
Look == value

(* The callback: a value past the threshold counts too. *)
Check ==
  /\ CompleteCheck
  /\ journal'[Len(journal)].verdict = IF Look >= Threshold THEN "break" ELSE "continue"
  /\ seen' = [p \in DOMAIN seen \cup {Len(journal)} |-> IF p = Len(journal) THEN Look ELSE seen[p]]
  /\ UNCHANGED <<counter, answer>>

LastCheck == CHOOSE p \in Checks : \A q \in Checks : q <= p

(* The value, or 408 with the last one that was read. *)
Answered(outcome) ==
  CASE outcome = "Finished" -> [code |-> 200, value |-> seen[LastCheck]]
    [] outcome = "TimedOut" -> [code |-> 408, value |-> seen[local.last]]
    [] OTHER -> None

Answer ==
  /\ Return
  /\ answer' = Answered(local.outcome)
  /\ UNCHANGED <<counter, seen>>

(* The rest of the poll, by itself. *)
Polls ==
  /\ \/ IssueClock \/ IssueCheck \/ IssueSleep \/ CompleteClock \/ FireTimer \/ Cancel
     \/ AwaitStart \/ AwaitCheck \/ AwaitRemaining \/ AwaitSleep \/ AwaitWake
     \/ Crash \/ Tick \/ StepBack
  /\ UNCHANGED <<counter, seen, answer>>

-----------------------------------------------------------------------------
CounterInit ==
  /\ Init
  /\ value \in Starts /\ sums = {value} /\ looked = IF value < Threshold THEN None ELSE 0
  /\ adding = None /\ seen = [p \in {} |-> 0] /\ answer = None

CounterNext ==
  \/ Polls \/ Check \/ Answer
  \/ \E amount \in Amounts : Enter(amount)
  \/ Get \/ LoseRead \/ Set \/ Leave

CounterSpec == CounterInit /\ [][CounterNext]_counterVars

-----------------------------------------------------------------------------
(* "Waits for its value to reach ten": a wait answers with an amount the    *)
(* counter held while it waited, ten or more, with no addition lost, none   *)
(* that did not fit and none wrapped; and it reports "counter did not reach *)
(* ten" only when no look came after the counter had: "lazy state makes     *)
(* each new read see updates", over crashes and replays too.                *)
WaitIsTrue ==
  answer # None =>
    /\ answer.value \in sums
    /\ answer.code = 200 => answer.value >= Threshold
    /\ answer.code = 408 => answer.value < Threshold /\ looked \in {None, Cardinality(DOMAIN seen)}
=============================================================================
