------------------------------- MODULE Poller -------------------------------
(***************************************************************************)
(* restate-ext's poll loop (crates/restate-ext/src/poll.rs, poll_with and  *)
(* Deadline) running as a durable handler.                                 *)
(*                                                                         *)
(* Every await of the loop - the clock, the check, the sleep - is one      *)
(* entry of the invocation's journal.  An attempt that crashes (or is      *)
(* suspended, or fails with a retryable error) loses its local variables;  *)
(* the next attempt runs the same code from the top and is given the       *)
(* journaled results by position until it reaches the end of the journal.  *)
(* The journal, the timers and the crashes belong to Restate and its SDK   *)
(* and are modelled from how poll.rs and clock.rs use them.                *)
(***************************************************************************)
EXTENDS Integers, Sequences, FiniteSets

CONSTANTS
  None,         (* an absent Option: no timeout, or no attempt limit *)
  Requested,    (* the configurations callers pass to PollerBuilder::build *)
  TimerMax,     (* the last instant a timer can carry, u64::MAX milliseconds *)
  StartTimes,   (* bound: what the clock may show when the invocation starts *)
  MaxTime,      (* bound: the clock stops there; it stands for all later times *)
  MaxCrashes,   (* bound: attempts that are lost *)
  MaxBackward,  (* bound: steps of the clock into the past *)
  MaxOpen,      (* bound: journal entries of a poll without limits *)
  MaxEntries    (* bound: journal entries of one with a limit; none needs as many *)

ASSUME PollerAssumption ==
  /\ None \notin Nat
  /\ Requested \subseteq
       [interval : Nat, timeout : Nat \cup {None}, maxAttempts : Nat \cup {None}]
  /\ TimerMax \in Nat
  /\ StartTimes \subseteq Nat /\ MaxTime \in Nat
  /\ MaxCrashes \in Nat /\ MaxBackward \in Nat 
  /\ MaxOpen \in Nat /\ MaxEntries \in Nat

(* MAX_DURATION, poll.rs:14. *)
MaxDuration == TimerMax \div 2

(* The configurations PollerBuilder::build accepts.  Time is counted in     *)
(* whole milliseconds, so its sub-millisecond test has nothing to reject.   *)
Builds(p) ==
  /\ p.interval # 0 /\ p.interval <= MaxDuration
  /\ p.timeout = None \/ p.timeout <= MaxDuration
  /\ p.maxAttempts # 0

VARIABLES
  poller,     (* the Poller being run; it never changes *)
  clock,      (* the host's wall clock *)
  journal,    (* the entries Restate keeps for the invocation *)
  local,      (* the loop's local variables and the await it stands at *)
  pos,        (* entries this attempt has been given so far *)
  result,     (* the outcome the handler has durably returned *)
  crashes,    (* attempts lost so far *)
  backward,   (* backward steps of the clock so far *)
  checkedAt,  (* history: when the last check completed *)
  trail       (* history: trail[p+1] is local where p entries were first reached *)

vars == <<poller, clock, journal, local, pos, result, crashes, backward, checkedAt, trail>>

Timed == poller.timeout # None
Limited == poller.maxAttempts # None

-----------------------------------------------------------------------------
(* The loop between two awaits, as functions of its local variables.       *)

Earlier(a, b) == IF a <= b THEN a ELSE b
Later(a, b) == IF a >= b THEN a ELSE b

(* The locals before the first await: remaining_attempts is full, and a    *)
(* poll without a timeout goes straight to the first check.                *)
Fresh ==
  [pc |-> IF Timed THEN "start" ELSE "check",
   at |-> 0, latest |-> 0,
   left |-> IF Limited THEN poller.maxAttempts ELSE 0,
   delay |-> 0, last |-> 0, outcome |-> "none"]

Ended(l, why) == [l EXCEPT !.pc = "ended", !.outcome = why]

(* Mutant: the deadline is taken from the host clock, not from the journal. *)
OnStartUnjournaled(l, now) ==
  [l EXCEPT !.pc = "check", !.at = clock + poller.timeout, !.latest = clock]

(* Deadline::new on the journaled start. *)
OnStart(l, now) ==
  IF now + poller.timeout > TimerMax
  THEN Ended(l, "BadDeadline")
  ELSE [l EXCEPT !.pc = "check", !.at = now + poller.timeout, !.latest = now]

(* Mutant: no journaled reading is taken when the host clock shows time enough. *)
OnContinueSkipsReading(l, p) ==
  LET seen == [l EXCEPT !.last = p, !.left = IF Limited THEN @ - 1 ELSE @]
  IN  IF Limited /\ seen.left = 0 THEN Ended(seen, "AttemptsExhausted")
      ELSE IF poller.timeout = 0 THEN Ended(seen, "TimedOut")
      ELSE IF Timed /\ clock + poller.interval > l.at THEN [seen EXCEPT !.pc = "remaining"]
      ELSE [seen EXCEPT !.pc = "sleep", !.delay = poller.interval]

(* The check at journal position p returned Continue: the attempt limit    *)
(* first, then the zero timeout, then the way to the sleep.                *)
OnContinue(l, p) ==
  LET seen == [l EXCEPT !.last = p, !.left = IF Limited THEN @ - 1 ELSE @]
  IN  IF Limited /\ seen.left = 0 THEN Ended(seen, "AttemptsExhausted")
      ELSE IF poller.timeout = 0 THEN Ended(seen, "TimedOut")
      ELSE IF Timed THEN [seen EXCEPT !.pc = "remaining"]
      ELSE [seen EXCEPT !.pc = "sleep", !.delay = poller.interval]

OnCheck(l, verdict, p) ==
  CASE verdict = "break" -> Ended(l, "Finished")
    [] verdict = "error" -> Ended(l, "CheckFailed")
    [] OTHER -> OnContinue(l, p)

(* Mutant: the last reading counts, so a clock that steps back buys time. *)
ObservedLast(l, now) == [l EXCEPT !.latest = now]

(* Deadline::remaining: the latest reading counts, never an earlier one.   *)
Observed(l, now) == [l EXCEPT !.latest = Later(@, now)]

Remaining(l) == IF l.latest < l.at THEN l.at - l.latest ELSE 0

(* Mutant: gives up when the next wait would not fit. *)
OnRemainingEarly(l, now) ==
  LET seen == Observed(l, now)
  IN  IF Remaining(seen) <= poller.interval
      THEN Ended(seen, "TimedOut")
      ELSE [seen EXCEPT !.pc = "sleep", !.delay = poller.interval]

(* The clock before the sleep. *)
OnRemaining(l, now) ==
  LET seen == Observed(l, now)
  IN  IF Remaining(seen) = 0
      THEN Ended(seen, "TimedOut")
      ELSE [seen EXCEPT !.pc = "sleep", !.delay = Earlier(poller.interval, Remaining(seen))]

OnSlept(l) == [l EXCEPT !.pc = IF Timed THEN "wake" ELSE "check"]

(* Mutant: the deadline is not looked at after the sleep. *)
OnWakeUnchecked(l, now) == [Observed(l, now) EXCEPT !.pc = "check"]

(* The clock after the sleep. *)
OnWake(l, now) ==
  LET seen == Observed(l, now)
  IN  IF Remaining(seen) = 0
      THEN Ended(seen, "TimedOut")
      ELSE [seen EXCEPT !.pc = "check"]

(* The kind of journal entry each await makes. *)
KindOf(pc) ==
  CASE pc = "check" -> "check"
    [] pc = "sleep" -> "sleep"
    [] OTHER -> "clock"

-----------------------------------------------------------------------------
(* The journal.  An entry is issued when its operation is first called and *)
(* completed when its result is stored; "time" is a clock's reading or a   *)
(* timer's wake-up time.                                                   *)

Entry(kind, time, delay) ==
  [kind |-> kind, status |-> "issued", time |-> time, delay |-> delay, verdict |-> "none"]

AtFrontier == pos = Len(journal)
Running == result = "none" /\ local.pc # "ended"
LastIssued == Len(journal) > 0 /\ journal[Len(journal)].status = "issued"

(* The live attempt stands at the journal's last entry, still issued: what *)
(* the entry stands for (the closure, the check) is run by this attempt.   *)
Executing(kind) ==
  /\ Running
  /\ LastIssued
  /\ pos + 1 = Len(journal)
  /\ journal[pos + 1].kind = kind

Issue(kind, time, delay) ==
  /\ Running
  /\ AtFrontier
  /\ kind = KindOf(local.pc)
  /\ Len(journal) < IF Timed \/ Limited THEN MaxEntries ELSE MaxOpen
  /\ journal' = Append(journal, Entry(kind, time, delay))
  /\ UNCHANGED <<poller, clock, local, pos, result, crashes, backward, checkedAt, trail>>

(* ctx.now_named("poll.clock"): the command is journaled, its closure runs later. *)
IssueClock == Issue("clock", 0, 0)

IssueCheck == Issue("check", 0, 0)

(* ctx.sleep(delay): the wake-up time is fixed when the timer is registered. *)
IssueSleep == Issue("sleep", clock + local.delay, local.delay)

Complete(entry) ==
  journal' = [journal EXCEPT ![Len(journal)] = entry]

(* The closure reads the clock and its reading is journaled. *)
CompleteClock ==
  /\ Executing("clock")
  /\ Complete([journal[Len(journal)] EXCEPT !.status = "completed", !.time = clock])
  /\ UNCHANGED <<poller, clock, local, pos, result, crashes, backward, checkedAt, trail>>

(* The callback's verdict is durable. *)
CompleteCheck ==
  /\ Executing("check")
  /\ \E verdict \in {"continue", "break", "error"} :
        Complete([journal[Len(journal)] EXCEPT !.status = "completed", !.verdict = verdict])
  /\ checkedAt' = clock
  /\ UNCHANGED <<poller, clock, local, pos, result, crashes, backward, trail>>

(* The server wakes the invocation, whether an attempt is running or not. *)
FireTimer ==
  /\ result = "none"
  /\ LastIssued
  /\ journal[Len(journal)].kind = "sleep"
  /\ clock >= journal[Len(journal)].time \/ clock >= MaxTime
  /\ Complete([journal[Len(journal)] EXCEPT !.status = "completed"])
  /\ UNCHANGED <<poller, clock, local, pos, result, crashes, backward, checkedAt, trail>>

(* A cancellation surfaces at the await that is outstanding. *)
Cancel ==
  /\ result = "none"
  /\ LastIssued
  /\ Complete([journal[Len(journal)] EXCEPT !.status = "cancelled"])
  /\ UNCHANGED <<poller, clock, local, pos, result, crashes, backward, checkedAt, trail>>

-----------------------------------------------------------------------------
(* The loop's steps: each await that has its entry's result, with the code *)
(* up to the next await.  A replayed entry and a live one are taken alike. *)

Await(pc, next) ==
  /\ Running
  /\ local.pc = pc
  /\ pos < Len(journal)
  /\ journal[pos + 1].kind = KindOf(pc)
  /\ journal[pos + 1].status # "issued"
  /\ local' = IF journal[pos + 1].status = "cancelled" THEN Ended(local, "Cancelled") ELSE next
  /\ pos' = pos + 1
  /\ trail' = IF pos + 1 = Len(trail) THEN Append(trail, local') ELSE trail
  /\ UNCHANGED <<poller, clock, journal, result, crashes, backward, checkedAt>>

AwaitStart == Await("start", OnStart(local, journal[pos + 1].time))
AwaitCheck == Await("check", OnCheck(local, journal[pos + 1].verdict, pos + 1))
AwaitRemaining == Await("remaining", OnRemaining(local, journal[pos + 1].time))
AwaitSleep == Await("sleep", OnSlept(local))
AwaitWake == Await("wake", OnWake(local, journal[pos + 1].time))

(* The handler hands the outcome to Restate. *)
Return ==
  /\ result = "none"
  /\ local.pc = "ended"
  /\ result' = local.outcome
  /\ UNCHANGED <<poller, clock, journal, local, pos, crashes, backward, checkedAt, trail>>

-----------------------------------------------------------------------------
(* The environment. *)

(* The attempt is lost; the next one starts over from the journal.  The    *)
(* time it is down is the ticks before its first step.                     *)
Crash ==
  /\ result = "none"
  /\ crashes < MaxCrashes
  /\ crashes' = crashes + 1
  /\ local' = Fresh
  /\ pos' = 0
  /\ UNCHANGED <<poller, clock, journal, result, backward, checkedAt, trail>>

(* Bound: the clock waits for the start of a timed poll to be taken.       *)
Tick ==
  /\ result = "none"
  /\ clock < MaxTime
  /\ Timed => Len(trail) > 1
  /\ clock' = clock + 1
  /\ UNCHANGED <<poller, journal, local, pos, result, crashes, backward, checkedAt, trail>>

StepBack ==
  /\ result = "none"
  /\ backward < MaxBackward
  /\ \E earlier \in 0 .. (clock - 1) : clock' = earlier
  /\ backward' = backward + 1
  /\ UNCHANGED <<poller, journal, local, pos, result, crashes, checkedAt, trail>>

-----------------------------------------------------------------------------
Init ==
  /\ poller \in {p \in Requested : Builds(p)}
  /\ clock \in StartTimes
  /\ journal = <<>>
  /\ local = Fresh
  /\ pos = 0
  /\ result = "none"
  /\ crashes = 0
  /\ backward = 0
  /\ checkedAt = 0
  /\ trail = <<Fresh>>

Issues == IssueClock \/ IssueCheck \/ IssueSleep
Completes == CompleteClock \/ CompleteCheck \/ FireTimer
Awaits == AwaitStart \/ AwaitCheck \/ AwaitRemaining \/ AwaitSleep \/ AwaitWake

Next ==
  \/ IssueClock \/ IssueCheck \/ IssueSleep
  \/ CompleteClock \/ CompleteCheck \/ FireTimer \/ Cancel
  \/ AwaitStart \/ AwaitCheck \/ AwaitRemaining \/ AwaitSleep \/ AwaitWake
  \/ Return
  \/ Crash \/ Tick \/ StepBack

Spec == Init /\ [][Next]_vars

(* Restate retries an invocation until it completes, its timers fire, and  *)
(* time passes; nothing promises a crash, a cancellation or a clock step.  *)
FairSpec ==
  /\ Spec
  /\ WF_vars(Tick)
  /\ WF_vars(Issues \/ Completes \/ Awaits \/ Return)
-----------------------------------------------------------------------------
(* Properties. *)

Positions(kind) == {p \in DOMAIN journal : journal[p].kind = kind}
Checks == Positions("check")

(* Clock readings taken after the start, and the deadline they are held to. *)
Readings == {p \in Positions("clock") : p > 1 /\ journal[p].status = "completed"}
DeadlineAt == journal[1].time + poller.timeout

EntryType ==
  [kind : {"clock", "check", "sleep"},
   status : {"issued", "completed", "cancelled"},
   time : Nat, delay : Nat,
   verdict : {"none", "continue", "break", "error"}]

Outcomes ==
  {"none", "Finished", "CheckFailed", "AttemptsExhausted", "TimedOut", "BadDeadline",
   "Cancelled"}

LocalType ==
  [pc : {"start", "check", "remaining", "sleep", "wake", "ended"},
   at : Nat, latest : Nat, left : Nat, delay : Nat, last : Nat, outcome : Outcomes]

(* The type of every variable. *)
TypeOK ==
  /\ poller \in Requested /\ Builds(poller)
  /\ clock \in Nat /\ pos \in Nat /\ checkedAt \in Nat
  /\ crashes \in Nat /\ backward \in Nat
  /\ journal \in Seq(EntryType)
  /\ local \in LocalType
  /\ trail \in Seq(LocalType)
  /\ result \in Outcomes

(* "A replay finds the entry by its position" (clock.rs:19): the loop, run  *)
(* again from the top, asks at each position for the kind of entry that    *)
(* the journal holds there.                                                *)
ReplayMatches ==
  Running /\ pos < Len(journal) => journal[pos + 1].kind = KindOf(local.pc)

(* "Replay preserves earlier decisions" (poll.rs:197): an attempt that was  *)
(* given the first n entries has the same deadline, latest reading and      *)
(* attempts left, and has decided the same, as the attempt that first got   *)
(* there.                                                                   *)
ReplayRebuilds == pos < Len(trail) /\ local = trail[pos + 1]

(* "Maximum number of checks, including the first check" (poll.rs:67-74):   *)
(* however often the invocation is retried, the journal holds no more       *)
(* checks than that, and the limit is reported only when they are spent.    *)
AttemptsBounded ==
  Limited =>
    /\ Cardinality(Checks) <= poller.maxAttempts
    /\ local.outcome = "AttemptsExhausted" => Cardinality(Checks) = poller.maxAttempts

(* "Reaching the deadline stops polling without another check" (poll.rs:180), *)
(* and without another sleep: a reading at or past the deadline is the last   *)
(* thing the journal holds, even when the clock has since stepped back.       *)
ExpiryEndsPoll ==
  Timed => \A p \in Readings : journal[p].time >= DeadlineAt => p = Len(journal)

(* "The sleep is shortened to the remaining time" (poll.rs:179) and "backward *)
(* clock samples do not restore elapsed time" (poll.rs:200): every sleep is   *)
(* positive, no longer than the interval, and fits the time left after every  *)
(* earlier reading, not just after the last one.                              *)
SleepFits ==
  \A p \in Positions("sleep") :
    /\ 1 <= journal[p].delay /\ journal[p].delay <= poller.interval
    /\ Timed => \A q \in Readings :
         q < p => journal[q].time + journal[p].delay <= DeadlineAt

(* "Reserve half that range for the host timestamp" (poll.rs:13) and "an error *)
(* if the deadline cannot be represented" (poll.rs:209): a poll whose deadline *)
(* no timer can carry stops at its first reading, and no other one does so.    *)
DeadlineFits ==
  Timed =>
    /\ Len(journal) > 1 => DeadlineAt <= TimerMax
    /\ local.outcome = "BadDeadline" => DeadlineAt > TimerMax

(* Both limits hold over all attempts together, whatever was lost of each. *)
LimitsHold == AttemptsBounded /\ ExpiryEndsPoll /\ SleepFits /\ DeadlineFits

(* "Each later check waits this long after the previous check finishes"       *)
(* (poll.rs:41): over crashes and replays a check begins a full interval after *)
(* the previous one ended unless the clock stepped back; a sleep shortened by  *)
(* the deadline is never followed by a check.                                  *)
ChecksSpaced ==
  [][Cardinality(Checks') > Cardinality(Checks) /\ Checks # {} /\ backward = 0 =>
       clock >= checkedAt + poller.interval \/ clock >= MaxTime]_vars

(* A poll with a timeout or an attempt limit ends, whatever its checks say. *)
LimitsEnd == Timed \/ Limited => <>(result # "none")

-----------------------------------------------------------------------------
(* The poll as its caller sees it: the furthest point any attempt reached. *)

Furthest == trail[Len(trail)]

StageOf(pc) ==
  CASE pc = "start" -> "new"
    [] pc = "check" -> "checking"
    [] pc = "ended" -> "ended"
    [] OTHER -> "waiting"

Promised == INSTANCE Poll WITH
  stage <- StageOf(Furthest.pc),
  left <- Furthest.left,
  deadline <- Furthest.at,
  latest <- Furthest.latest,
  outcome <- Furthest.outcome

(* Crashes, replays, the journal and the timers are invisible: the loop does *)
(* what the documentation of Poller::poll says of one that never crashes.    *)
KeepsPromise == Promised!Spec
=============================================================================
