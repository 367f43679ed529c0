-------------------------------- MODULE Admin --------------------------------
(***************************************************************************)
(* A wait on the admin API (crates/restate-e2e-harness/src/admin.rs):      *)
(* poll_until, the one shape of every wait, under each of the operations   *)
(* built on it - register, drain, pause, purge, await_status and           *)
(* await_in_flight_on - against a server whose rows change meanwhile and   *)
(* whose answers may come late, fail, or never come.                       *)
(*                                                                         *)
(* Time is counted in whole milliseconds, the resolution of the runtime's  *)
(* timers. The waiter's code between two awaits takes none; a timer or an  *)
(* answer that is due is acted upon at most Late milliseconds later.       *)
(***************************************************************************)
EXTENDS Retry, FiniteSets

CONSTANTS
  Invocations, (* the invocations the server may hold *)
  Interval,    (* the interval between probes, in milliseconds *)
  Timeouts,    (* the timeouts a wait may be given *)
  None,        (* no answer yet *)
  Late,        (* bound: how late the runtime acts on what is due *)
  MaxTime      (* bound: the clock stops there, after every deadline *)

ASSUME AdminAssumption ==
  /\ Invocations # {} /\ None \notin Int \cup [Invocations -> {"failed", "accepted"}]
  /\ Interval \in Nat \ {0} /\ Late \in Nat /\ MaxTime \in Nat
  /\ \A t \in Timeouts : t \in Nat /\ t + 2 * Late < MaxTime

VARIABLES
  row,       (* sys_invocation: the status of each invocation *)
  closed,    (* no new call reaches the server *)
  asked,     (* the purges and pauses the server has accepted *)
  deployed,  (* the endpoint is registered *)
  now,       (* the time since the wait began *)
  op,        (* the operation: its kind, the invocation it is of, what it wants *)
  timeout,   (* its timeout *)
  pc,        (* "patching", "probing", "sleeping", or how it ended *)
  deadline,  (* poll_until's deadline *)
  wake,      (* when the sleep under way ends *)
  answer,    (* the answer to the request under way, None until then *)
  since,     (* when that answer came *)
  refused    (* history: when a probe was last refused, None before *)

server == <<row, closed, asked, deployed>>
request == <<answer, since>>
waiter == <<op, timeout, pc, deadline, wake, refused>>
vars == <<server, now, request, waiter>>

-----------------------------------------------------------------------------
(* What the operations ask for. *)

Kinds == {"register", "drain", "pause", "purge", "await_status", "await_in_flight"}
Patches == {"pause", "purge"}
Statuses == {"ready", "running", "paused", "completed"}

Present(status) == status \in Statuses
InFlight(status) == Present(status) /\ status # "completed"
Running(seen) == {i \in Invocations : InFlight(seen[i])}

Operations ==
  [kind : {"register", "drain"}, of : {None}, want : {None}]
    \cup [kind : Patches, of : Invocations, want : {None}]
    \cup [kind : {"await_status"}, of : Invocations, want : {{"completed"}, {"ready", "running"}}]
    \cup [kind : {"await_in_flight"}, of : {None}, want : 1 .. Cardinality(Invocations)]

(* Answers that are no rows: a failed exchange, and a success. *)
Failed == [i \in Invocations |-> "failed"]
Accepted == [i \in Invocations |-> "accepted"]

(* Mutant: only a running invocation keeps a server from being drained. *)
DrainedOfRunning(seen) == \A i \in Invocations : seen[i] # "running"

(* What the probe of each operation looks for, in the rows one query answers. *)
Drained(seen) == Running(seen) = {}
Purged(seen) == ~Present(seen[op.of])
Reached(seen, statuses) == seen[op.of] \in statuses
Enough(seen) == Cardinality(Running(seen)) >= op.want

Answers(seen) ==
  \/ op.kind = "drain" /\ Drained(seen)
  \/ op.kind = "purge" /\ Purged(seen)
  \/ op.kind = "pause" /\ Reached(seen, {"paused"})
  \/ op.kind = "await_status" /\ Reached(seen, op.want)
  \/ op.kind = "await_in_flight" /\ Enough(seen)

-----------------------------------------------------------------------------
(* The server. A call is accepted, runs, may be paused and resumed, and     *)
(* completes; its row stays until it is purged or its retention ends.       *)

Moves(i, status) ==
  /\ row' = [row EXCEPT ![i] = status]
  /\ UNCHANGED <<closed, asked, deployed, now, request, waiter>>

Arrive(i) == ~closed /\ row[i] = "none" /\ Moves(i, "ready")
Run(i) == row[i] = "ready" /\ Moves(i, "running")
Pause(i) ==
  InFlight(row[i]) /\ row[i] # "paused" /\ <<"pause", i>> \in asked /\ Moves(i, "paused")
Resume(i) == row[i] = "paused" /\ Moves(i, "ready")
Complete(i) == row[i] = "running" /\ Moves(i, "completed")
(* By a purge that was accepted, or at the end of the retention. *)
Vanish(i) == row[i] = "completed" /\ Moves(i, "gone")

Waiting == pc \in {"patching", "probing"} /\ answer = None

Replies(with) ==
  /\ answer' = with /\ since' = now
  /\ UNCHANGED <<now, waiter>>

(* A query reads all its rows at one moment. *)
Rows ==
  /\ Waiting /\ pc = "probing" /\ op.kind # "register"
  /\ Replies(row)
  /\ UNCHANGED server

(* A pause is of an invocation in flight, a purge of one completed. *)
AcceptPatch ==
  /\ Waiting /\ pc = "patching"
  /\ IF op.kind = "pause" THEN InFlight(row[op.of]) ELSE row[op.of] = "completed"
  /\ Replies(Accepted)
  /\ asked' = asked \cup {<<op.kind, op.of>>}
  /\ UNCHANGED <<row, closed, deployed>>

(* A registration is applied, whether or not the answer makes it back. *)
AcceptRegistration ==
  /\ Waiting /\ pc = "probing" /\ op.kind = "register"
  /\ \E with \in {Accepted, Failed} : Replies(with)
  /\ deployed' = TRUE
  /\ UNCHANGED <<row, closed, asked>>

(* Any request may be refused, or fail on its way. *)
Fail == Waiting /\ Replies(Failed) /\ UNCHANGED server

-----------------------------------------------------------------------------
(* poll_until *)

Remaining == Greater(deadline - now, 0)

(* From the top of the loop, at time t: the deadline has passed, or a probe starts. *)
Loop(t, until) == pc' = IF t < until THEN "probing" ELSE "exhausted"

Forget == answer' = None /\ since' = 0

Ends(how) ==
  /\ pc' = how
  /\ UNCHANGED <<server, now, request, op, timeout, deadline, wake, refused>>

(* The deadline is counted from here. *)
Starts ==
  /\ deadline' = now + timeout
  /\ Loop(now, deadline')
  /\ Forget
  /\ UNCHANGED <<server, now, op, timeout, wake, refused>>

(* Mutant: whatever the status, the PATCH is taken to have succeeded. *)
PatchedAnyhow == pc = "patching" /\ answer # None /\ Starts

(* A pause and a purge wait for their effect once the PATCH has succeeded. *)
Patched == pc = "patching" /\ answer = Accepted /\ Starts

(* The PATCH is refused, or the HTTP client's own timeout ends it. *)
PatchFails == pc = "patching" /\ answer \in {None, Failed} /\ Ends("panicked")

(* The probe's answer is the wait's. *)
Return ==
  /\ pc = "probing" /\ answer \notin {None, Failed}
  /\ op.kind = "register" \/ Answers(answer)
  /\ Ends("returned")

(* A query without rows panics; only a registration is tried again. *)
ProbePanics ==
  /\ pc = "probing" /\ answer = Failed /\ op.kind # "register"
  /\ Ends("panicked")

(* The refusal is kept for the report, and the next probe delayed. *)
Refuse ==
  /\ pc = "probing" /\ answer # None
  /\ IF op.kind = "register" THEN answer = Failed ELSE answer # Failed /\ ~Answers(answer)
  /\ refused' = now
  /\ wake' = now + RetryDelay(Interval, Remaining)
  /\ pc' = "sleeping"
  /\ Forget
  /\ UNCHANGED <<server, now, op, timeout, deadline>>

Wake ==
  /\ pc = "sleeping" /\ now >= wake
  /\ Loop(now, deadline)
  /\ UNCHANGED <<server, now, request, op, timeout, deadline, wake, refused>>

(* Mutant: a probe under way is left to the HTTP client's timeout. *)
CutNever == FALSE /\ Ends("overdue")

(* A probe still running at the deadline is cut; one that has just answered is not. *)
Cut == pc = "probing" /\ answer = None /\ now >= deadline /\ Ends("overdue")

-----------------------------------------------------------------------------
(* From when on a waiter that probes or sleeps has something to do. *)
Due ==
  IF pc = "sleeping" THEN wake
  ELSE IF answer = None THEN deadline ELSE Lesser(since, deadline)

(* The clock is of interest once the deadline counts. *)
Tick ==
  /\ pc \in {"probing", "sleeping"}
  /\ now < MaxTime /\ now < Due + Late
  /\ now' = now + 1
  /\ UNCHANGED <<server, request, waiter>>

(* A wait begins at any moment of the server's life. *)
Init ==
  /\ row \in [Invocations -> {"none", "ready", "running", "paused", "completed", "gone"}]
  /\ closed \in BOOLEAN /\ asked = {} /\ deployed = FALSE
  /\ now = 0 /\ answer = None /\ since = 0 /\ refused = None /\ wake = 0
  /\ op \in Operations /\ timeout \in Timeouts
  /\ pc = IF op.kind \in Patches THEN "patching"
          ELSE IF timeout = 0 THEN "exhausted" ELSE "probing"
  /\ deadline = timeout

Server ==
  \/ \E i \in Invocations :
       Arrive(i) \/ Run(i) \/ Pause(i) \/ Resume(i) \/ Complete(i) \/ Vanish(i)
  \/ Rows \/ AcceptPatch \/ AcceptRegistration \/ Fail

Waiter == Patched \/ PatchFails \/ Return \/ ProbePanics \/ Refuse \/ Wake \/ Cut

Next == Server \/ Waiter \/ Tick

(* The runtime polls the waiter and time passes; the server owes nothing. *)
Spec == Init /\ [][Next]_vars /\ WF_vars(Waiter) /\ WF_vars(Tick)

-----------------------------------------------------------------------------
Over == {"returned", "exhausted", "overdue", "panicked"}

(* "The deadline bounds the wait as a whole", probes, answers and sleeps: no *)
(* sleep and no probe goes on past it, but for the runtime's own lateness.   *)
EndsInTime == pc \in {"probing", "sleeping"} => now <= deadline + 2 * Late

(* A wait that gives up between probes looked until the last millisecond:    *)
(* sleeping half of what remains leaves "time to observe a change even when  *)
(* the timeout is shorter than interval", up to the runtime's lateness. Only *)
(* a zero timeout looks at nothing.                                          *)
LastLookIsFresh ==
  pc = "exhausted" =>
    IF refused = None THEN timeout = 0 ELSE deadline - refused <= 2 * Late + 1

(* A purge that returns is final: the invocation had completed and its row   *)
(* is gone for good - not merely not there yet (purge_with_timeout).         *)
PurgeFinal == op.kind = "purge" /\ pc = "returned" => row[op.of] = "gone"

(* A drained server to which no new call comes has nothing left in flight,   *)
(* now or later: nothing that waits, backs off or is paused was overlooked.  *)
DrainedStays == op.kind = "drain" /\ pc = "returned" /\ closed => Running(row) = {}

(* Every wait ends, even one whose request is never answered.                *)
WaitEnds == <>(pc \in Over)
=============================================================================
