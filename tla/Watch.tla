------------------------------- MODULE Watch -------------------------------
(***************************************************************************)
(* The sampler of retries (crates/restate-e2e-harness/src/watch.rs): a     *)
(* task that queries sys_invocation for the invocations on one target,     *)
(* folds what it reads into Retries, and ends once the selection was seen  *)
(* in flight and then idle, or when it is stopped.                         *)
(*                                                                         *)
(* The server is modelled from what the queries read: each invocation's    *)
(* status and invoker columns, which change at any moment. A query reads   *)
(* them all at one moment between its sending and its answer, and may      *)
(* never be answered. Samples and errors are counted up to MaxSamples.     *)
(***************************************************************************)
EXTENDS Integers, FiniteSets, SequencesExt

CONSTANTS
  Invocations, (* the invocations the target selects *)
  Failures,    (* the failures an execution may end with *)
  Commands,    (* the commands a failure may be related to *)
  None,        (* a null column *)
  MaxCount,    (* bound: starts of an invocation *)
  MaxSamples   (* bound: what samples and query_errors count to *)

ASSUME WatchAssumption ==
  /\ IsFiniteSet(Invocations) /\ MaxCount \in Nat \ {0} /\ MaxSamples \in Nat \ {0}
  /\ None \notin Failures \cup Commands \cup Int

VARIABLES
  inv,             (* sys_invocation: the row of each invocation *)
  task,            (* the sampler: "asking", "sleeping" or "done" *)
  answer,          (* the answer of the query in flight, None until then *)
  stopped,         (* Watch.stop was sent *)
  handle,          (* the Watch: "held", "finishing", "finished" or "dropped" *)
  retries,         (* Sampler.retries *)
  seen_in_flight,  (* Sampler.seen_in_flight *)
  shown,           (* history: the counts, failures and commands there have been *)
  busy,            (* history: something was in flight *)
  idled            (* history: nothing was, after something had been *)

sampler == <<retries, seen_in_flight>>
server == <<inv, shown, busy, idled>>
vars == <<server, task, answer, stopped, handle, sampler>>

Row(status, count, failure, command) ==
  [status |-> status, retry_count |-> count, last_failure |-> failure, command |-> command]

NoColumns(status) == Row(status, None, None, None)
Malformed == "malformed"  (* a row that does not decode *)
Failed == "failed"        (* a query that does not succeed *)

(* An invocation has no row before it arrives, and none once it is purged. *)
NoRow == {"absent", "purged"}

InFlight(row) == row.status \notin NoRow \cup {"completed"}
Idle == \A i \in Invocations : ~InFlight(inv[i])

-----------------------------------------------------------------------------
(* The server: an invocation starts, fails and backs off, yields to the *)
(* scheduler - which clears its columns - completes, and is purged when *)
(* its retention is over.                                               *)

Becomes(i, status, count, failure, command) ==
  /\ inv' = [inv EXCEPT ![i] = Row(status, count, failure, command)]
  /\ shown' = shown \cup ({count, failure, command} \ {None})
  /\ busy' = (busy \/ \E j \in Invocations : InFlight(inv'[j]))
  /\ idled' = (idled \/ (busy' /\ \A j \in Invocations : ~InFlight(inv'[j])))
  /\ UNCHANGED <<task, answer, stopped, handle, sampler>>

Arrive(i) == inv[i].status = "absent" /\ Becomes(i, "ready", None, None, None)

Execute(i) ==
  \/ /\ inv[i].status = "ready"
     /\ Becomes(i, "running", 1, None, None)
  \/ /\ inv[i].status = "backing-off" /\ inv[i].retry_count < MaxCount
     /\ Becomes(i, "running", inv[i].retry_count + 1, inv[i].last_failure, inv[i].command)

BackOff(i, failure, command) ==
  inv[i].status = "running" /\ Becomes(i, "backing-off", inv[i].retry_count, failure, command)

Yield(i) == inv[i].status = "running" /\ Becomes(i, "ready", None, None, None)

Complete(i) == inv[i].status = "running" /\ Becomes(i, "completed", None, None, None)

Purge(i) == inv[i].status = "completed" /\ Becomes(i, "purged", None, None, None)

-----------------------------------------------------------------------------
(* The query in flight reads the table, in whatever order of rows. *)

Rows == {i \in Invocations : inv[i].status \notin NoRow}

Answer ==
  /\ task = "asking" /\ answer = None
  /\ \E order \in SetToSeqs(Rows) :
       answer' = [k \in 1 .. Cardinality(Rows) |-> inv[order[k]]]
  /\ UNCHANGED <<server, task, stopped, handle, sampler>>

AnswerMalformed ==
  /\ task = "asking" /\ answer = None
  /\ \E order \in SetToSeqs(Rows), bad \in Rows :
       answer' = [k \in 1 .. Cardinality(Rows) |->
                    IF order[k] = bad THEN NoColumns(Malformed) ELSE inv[order[k]]]
  /\ UNCHANGED <<server, task, stopped, handle, sampler>>

AnswerFails ==
  /\ task = "asking" /\ answer = None
  /\ answer' = <<NoColumns(Failed)>>
  /\ UNCHANGED <<server, task, stopped, handle, sampler>>

-----------------------------------------------------------------------------
(* Sampler::observe *)

Capped(n) == IF n < MaxSamples THEN n + 1 ELSE n

(* query_failed. *)
Errored(r) == [r EXCEPT !.query_errors = Capped(@)]

(* A value not noted before goes to the end; a null one nowhere. *)
Noted(seq, value) ==
  IF value = None \/ Contains(seq, value) THEN seq ELSE Append(seq, value)

(* Mutant: the starts of all rows are added up. *)
ObserveRowSummed(r, row) ==
  [r EXCEPT
    !.max_retry_count = IF row.retry_count # None /\ @ < MaxCount THEN @ + row.retry_count ELSE @,
    !.failures = Noted(@, row.last_failure),
    !.failing_commands = Noted(@, row.command)]

(* One decoded row: the highest count, and what had not been seen. *)
ObserveRow(r, row) ==
  [r EXCEPT
    !.max_retry_count = IF row.retry_count # None /\ row.retry_count > @ THEN row.retry_count ELSE @,
    !.failures = Noted(@, row.last_failure),
    !.failing_commands = Noted(@, row.command)]

Undecodable(rows) == \E k \in DOMAIN rows : rows[k].status \in {Malformed, Failed}

(* Mutant: rows are observed as they are decoded, up to the malformed one. *)
ObservedAsDecoded(rows, r) ==
  LET bad == {k \in DOMAIN rows : rows[k].status \in {Malformed, Failed}}
      good == IF bad = {} THEN rows ELSE SubSeq(rows, 1, (CHOOSE k \in bad : \A j \in bad : k <= j) - 1)
      seen == FoldLeft(ObserveRow, r, good)
  IN IF bad # {} THEN Errored(seen) ELSE [seen EXCEPT !.samples = Capped(@)]

(* The whole sample is decoded before anything of it is observed. *)
Observed(rows, r) ==
  IF Undecodable(rows) THEN Errored(r)
  ELSE [FoldLeft(ObserveRow, r, rows) EXCEPT !.samples = Capped(@)]

(* Mutant: no sample needs to have seen the selection in flight. *)
DoneAtOnce(rows) ==
  ~Undecodable(rows) /\ \A k \in DOMAIN rows : ~InFlight(rows[k])

(* Mutant: the selection is idle when it is empty. *)
DoneOnEmpty(rows) == rows = <<>> /\ seen_in_flight

(* Progress::Done: the selection was seen in flight, and nothing in it is. *)
Done(rows) ==
  /\ ~Undecodable(rows)
  /\ \A k \in DOMAIN rows : ~InFlight(rows[k])
  /\ seen_in_flight

(* The loop of Watch::over handles the answer; its select is biased to the stop. *)
Observe ==
  /\ task = "asking" /\ answer # None /\ ~stopped
  /\ LET over == Done(answer)
     IN /\ retries' = [Observed(answer, retries) EXCEPT !.observed_idle = over]
        /\ task' = IF over THEN "done" ELSE "sleeping"
  /\ seen_in_flight' =
       (seen_in_flight \/ (~Undecodable(answer) /\ \E k \in DOMAIN answer : InFlight(answer[k])))
  /\ answer' = None
  /\ UNCHANGED <<server, stopped, handle>>

(* The interval has passed. *)
SampleAgain ==
  /\ task = "sleeping" /\ ~stopped
  /\ task' = "asking"
  /\ UNCHANGED <<server, answer, stopped, handle, sampler>>

(* Mutant: only the interval is raced against the stop. *)
StopBetween ==
  /\ stopped
  /\ \/ task = "sleeping"
     \/ task = "asking" /\ answer # None
  /\ task' = "done"
  /\ answer' = None
  /\ UNCHANGED <<server, stopped, handle, sampler>>

(* The stop cancels the interval, and a query in flight. *)
Stop ==
  /\ stopped /\ task \in {"asking", "sleeping"}
  /\ task' = "done"
  /\ answer' = None
  /\ UNCHANGED <<server, stopped, handle, sampler>>

-----------------------------------------------------------------------------
(* The handle. *)

Finish ==
  /\ handle = "held"
  /\ handle' = "finishing"
  /\ stopped' = TRUE
  /\ UNCHANGED <<server, task, answer, sampler>>

Finished ==
  /\ handle = "finishing" /\ task = "done"
  /\ handle' = "finished"
  /\ UNCHANGED <<server, task, answer, stopped, sampler>>

DropWatch ==
  /\ handle \in {"held", "finishing"}
  /\ handle' = "dropped"
  /\ stopped' = TRUE
  /\ UNCHANGED <<server, task, answer, sampler>>

-----------------------------------------------------------------------------
(* An object may carry completed invocations of earlier scenarios. *)
Init ==
  /\ inv \in [Invocations -> {NoColumns("absent"), NoColumns("completed")}]
  /\ task = "asking" /\ answer = None
  /\ stopped = FALSE /\ handle = "held"
  /\ retries = [max_retry_count |-> 0, failures |-> <<>>, failing_commands |-> <<>>,
                samples |-> 0, observed_idle |-> FALSE, query_errors |-> 0]
  /\ seen_in_flight = FALSE
  /\ shown = {} /\ busy = FALSE /\ idled = FALSE

Server ==
  \E i \in Invocations :
    \/ Arrive(i) \/ Execute(i) \/ Yield(i) \/ Complete(i) \/ Purge(i)
    \/ \E failure \in Failures, command \in Commands \cup {None} : BackOff(i, failure, command)

Answers == Answer \/ AnswerMalformed \/ AnswerFails
Sample == Observe \/ SampleAgain \/ Stop

Next == Server \/ Answers \/ Sample \/ Finish \/ Finished \/ DropWatch

(* The runtime polls the sampler and the finish that awaits it; the server *)
(* owes no answer, and the test no finish.                                 *)
Spec == Init /\ [][Next]_vars /\ WF_vars(Sample) /\ WF_vars(Finished)

-----------------------------------------------------------------------------
(* What is reported is what some row really showed, the count, each failure  *)
(* and each command, while the watch was on (Retries), and once each.        *)
ObservationsSound ==
  /\ IsInjective(retries.failures) /\ IsInjective(retries.failing_commands)
  /\ retries.max_retry_count \in shown \cup {0}
  /\ ToSet(retries.failures) \subseteq shown \cap Failures
  /\ ToSet(retries.failing_commands) \subseteq shown \cap Commands

(* observed_idle says that the selection fell idle after something in it was *)
(* in flight - not that it never was, or that a sample could not be read.    *)
IdleWitnessed == retries.observed_idle => idled /\ task = "done"

(* A failed or malformed sample changes nothing of what was observed, and    *)
(* completes nothing ("a malformed later row must not leave partial counts   *)
(* or establish completion").                                                *)
MalformedLeavesNothing ==
  [][(answer # None /\ answer' = None /\ Undecodable(answer)) =>
       /\ [retries' EXCEPT !.query_errors = 0] = [retries EXCEPT !.query_errors = 0]
       /\ seen_in_flight' = seen_in_flight]_vars

(* finish returns, and a dropped watch ends its sampler, even when the       *)
(* server never answers the query in flight (Watch::over).                   *)
StopsPromptly ==
  /\ handle = "finishing" ~> handle \in {"finished", "dropped"}
  /\ stopped ~> task = "done"

(* A sampler that saw the selection in flight ends by itself once it is idle *)
(* for good, if queries go on being answered now and then.                   *)
IdleEnds ==
  (/\ <>[](seen_in_flight /\ Idle)
   /\ []<>(answer # None /\ ~Undecodable(answer))) => <>(task = "done")
=============================================================================
