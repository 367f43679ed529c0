-------------------------------- MODULE Ready --------------------------------
(***************************************************************************)
(* The readiness of a launched server (crates/restate-e2e-harness          *)
(* server.rs, ready and while_alive): three stages - health, SQL and       *)
(* version - probed under one deadline, while the spawned child is         *)
(* inspected every interval and after every answer.                        *)
(*                                                                         *)
(* The ports were free when they were chosen and are bound later: another  *)
(* process may take the admin port first, and answer on it. Time is in     *)
(* milliseconds as in Admin: what is due is acted upon at most Late later. *)
(***************************************************************************)
EXTENDS Retry

CONSTANTS
  None,     (* no answer, no such moment *)
  Deadline, (* READY_DEADLINE, counted from the start of ready *)
  Interval, (* the interval between the probes of each stage *)
  Inspect,  (* the interval between inspections of the child *)
  Late,     (* bound: how late the runtime acts on what is due *)
  MaxTime   (* bound: the clock stops there, after the deadline *)

ASSUME ReadyAssumption ==
  /\ None \notin Int \cup {"ok", "refused", "wrong"}
  /\ Deadline \in Nat /\ Inspect \in Nat \ {0} /\ Late \in Nat /\ MaxTime \in Nat
  /\ Interval \in [{"health", "sql"} -> Nat \ {0}]
  /\ Deadline + Late < MaxTime

VARIABLES
  child,     (* the spawned process: "starting", "up" or "exited"; "none" when a server is reused *)
  port,      (* who listens on the admin port: "nobody", "child" or "other" *)
  now,       (* the time since ready began *)
  stage,     (* the stage supervised, "ready", or why it panicked *)
  probe,     (* its probe: "asking" or "sleeping" *)
  answer,    (* what has been answered, None until then *)
  since,     (* when it was *)
  wake,      (* when the sleep between two probes ends *)
  tick,      (* when the next inspection is due *)
  lostAt,    (* history: when the child exited, None before *)
  upSince,   (* history: when the child began to serve all three stages *)
  faltered   (* history: it has since let a request wait, or refused one *)

server == <<child, port, lostAt, upSince>>
probing == <<probe, answer, since, wake>>
vars == <<server, now, stage, probing, tick, faltered>>

Retried == {"health", "sql"}
Stages == Retried \cup {"version"}
Following == [health |-> "sql", sql |-> "version", version |-> "ready"]

Pending == stage \in Stages
Exited == child = "exited"

-----------------------------------------------------------------------------
(* The processes of the host. *)

OnlyServer == Pending /\ UNCHANGED <<now, stage, probing, tick, faltered>>

Bind ==
  /\ child = "starting" /\ port = "nobody"
  /\ child' = "up" /\ port' = "child"
  /\ UNCHANGED <<lostAt, upSince>>
  /\ OnlyServer

(* The partition store is provisioned: the SQL API answers from now on. *)
Provision ==
  /\ child = "up" /\ upSince = None
  /\ upSince' = now
  /\ UNCHANGED <<child, port, lostAt>>
  /\ OnlyServer

(* For any reason, a port that is taken among them. *)
Exit ==
  /\ child \in {"starting", "up"}
  /\ child' = "exited"
  /\ port' = IF port = "child" THEN "nobody" ELSE port
  /\ lostAt' = now /\ upSince' = None
  /\ OnlyServer

(* Another process takes the port, or leaves it. *)
Other ==
  /\ port # "child"
  /\ port' = IF port = "other" THEN "nobody" ELSE "other"
  /\ UNCHANGED <<child, lostAt, upSince>>
  /\ OnlyServer

(* Nothing but a refusal comes from a port nobody listens on, or from an SQL *)
(* API not provisioned; only a version can be other than it should.          *)
Possible ==
  IF port = "nobody" \/ (port = "child" /\ stage = "sql" /\ upSince = None) THEN {"refused"}
  ELSE IF stage = "version" THEN {"ok", "refused", "wrong"} ELSE {"ok", "refused"}

(* A request is answered by who listens now, if it ever is. *)
Answer ==
  /\ Pending /\ probe = "asking" /\ answer = None
  /\ answer' \in Possible
  /\ since' = now
  /\ faltered' = (faltered \/ (upSince # None /\ answer' = "refused"))
  /\ UNCHANGED <<server, now, stage, probe, wake, tick>>

-----------------------------------------------------------------------------
(* while_alive: its select looks at the deadline first, then at the         *)
(* inspection, then at the probe.                                           *)

Ends(how) == stage' = how /\ UNCHANGED <<server, now, probing, tick, faltered>>

(* The deadline has passed; poll_until's own, the same one, would say so too. *)
Expire == Pending /\ now >= Deadline /\ Ends("expired")

Inspection == Pending /\ now < Deadline /\ now >= tick

(* A tick that was missed is made up for: the next one is not put off. *)
InspectAlive ==
  /\ Inspection /\ ~Exited
  /\ tick' = tick + Inspect
  /\ UNCHANGED <<server, now, stage, probing, faltered>>

InspectExited == Inspection /\ Exited /\ Ends("exited")

Polled == Pending /\ now < Deadline /\ now < tick

Asks == probe' = "asking" /\ answer' = None /\ since' = 0 /\ wake' = 0

(* Mutant: the child is inspected on ticks only. *)
AdvanceUninspected ==
  /\ Polled /\ answer = "ok"
  /\ stage' = Following[stage]
  /\ tick' = now + Inspect
  /\ Asks
  /\ UNCHANGED <<server, now, faltered>>

(* The stage is over, and the next one starts with an inspection. *)
Advance ==
  /\ Polled /\ answer = "ok" /\ ~Exited
  /\ stage' = Following[stage]
  /\ tick' = now + Inspect
  /\ Asks
  /\ UNCHANGED <<server, now, faltered>>

AnsweredExited == Polled /\ answer \in {"ok", "wrong"} /\ Exited /\ Ends("exited")

(* GET /version fails, or a feature is not what the specification says. *)
VersionRefused ==
  /\ Polled /\ stage = "version"
  /\ answer = "refused" \/ (answer = "wrong" /\ ~Exited)
  /\ Ends("refused")

(* poll_until: the next probe is put off. *)
Refuse ==
  /\ Polled /\ stage \in Retried /\ answer = "refused"
  /\ probe' = "sleeping"
  /\ wake' = now + RetryDelay(Interval[stage], Deadline - now)
  /\ answer' = None /\ since' = 0
  /\ UNCHANGED <<server, now, stage, tick, faltered>>

Wake ==
  /\ Polled /\ probe = "sleeping" /\ now >= wake
  /\ Asks
  /\ UNCHANGED <<server, now, stage, tick, faltered>>

-----------------------------------------------------------------------------
(* From when on there is something to do. *)
Due ==
  Lesser(Lesser(Deadline, tick),
         IF probe = "sleeping" THEN wake ELSE IF answer = None THEN Deadline ELSE since)

Tick ==
  /\ Pending /\ now < MaxTime /\ now < Due + Late
  /\ now' = now + 1
  /\ faltered' = (faltered \/ (upSince # None /\ probe = "asking" /\ answer = None))
  /\ UNCHANGED <<server, stage, probing, tick>>

(* A server that is reused has no child of this process. *)
Init ==
  /\ child \in {"none", "starting"}
  /\ port \in {"nobody", "other"}
  /\ now = 0 /\ stage = "health"
  /\ probe = "asking" /\ answer = None /\ since = 0 /\ wake = 0
  /\ tick = Inspect
  /\ lostAt = None /\ upSince = None /\ faltered = FALSE

Host == Bind \/ Provision \/ Exit \/ Other \/ Answer
Supervise ==
  \/ Expire \/ InspectAlive \/ InspectExited
  \/ Advance \/ AnsweredExited \/ VersionRefused \/ Refuse \/ Wake

Next == Host \/ Supervise \/ Tick

Spec == Init /\ [][Next]_vars

-----------------------------------------------------------------------------
(* The type of the state; no timer is set past the deadline or far ahead. *)
TypeOK ==
  /\ child \in {"none", "starting", "up", "exited"}
  /\ port \in {"nobody", "child", "other"}
  /\ now \in 0 .. MaxTime
  /\ stage \in Stages \cup {"ready", "expired", "exited", "refused"}
  /\ probe \in {"asking", "sleeping"}
  /\ answer \in {None, "ok", "refused", "wrong"}
  /\ since \in 0 .. now
  /\ wake \in 0 .. Deadline
  /\ tick \in 0 .. (now + Inspect)
  /\ lostAt \in (0 .. now) \cup {None} /\ upSince \in (0 .. now) \cup {None}
  /\ faltered \in BOOLEAN

(* The exit of the child ends readiness: no answer of another process on its *)
(* port hides it, and no request or sleep under way puts the report off by   *)
(* more than an inspection's interval and the runtime's lateness.            *)
ExitShows ==
  lostAt # None =>
    /\ stage # "ready"
    /\ Pending => now <= lostAt + Inspect + Late

(* "One deadline covers all stages": nothing goes on past it, whatever stage *)
(* it falls into; and it is not hit by a server that answered at once from   *)
(* when it was up, unless it came up within the last few moments: at worst a *)
(* sleep has just begun, and half of what remains is left for one wake-up    *)
(* and three answers - no sleep eats up what the stages after it need.       *)
DeadlineFair ==
  /\ Pending => now <= Deadline + Late
  /\ stage = "expired" =>
       upSince = None \/ faltered \/ Deadline - upSince <= 9 * Late + 1
=============================================================================
