------------------------------ MODULE Endpoint ------------------------------
(***************************************************************************)
(* An endpoint served in the test process                                  *)
(* (crates/restate-e2e-harness/src/server/endpoint.rs) and the handle that *)
(* finishes or drops it (server.rs, finish_endpoints and Drop): the        *)
(* serving loop, its connection tasks, the stream tasks their executor     *)
(* starts, graceful shutdown, forced cancellation, and the failures that   *)
(* finish reports.                                                         *)
(*                                                                         *)
(* A task that panicked, was cancelled or ended keeps its result in the    *)
(* JoinSet that owns it until somebody joins it. Aborting a task only asks *)
(* for it: a poll that is under way still does what it was doing.          *)
(***************************************************************************)
EXTENDS Integers, FiniteSets

CONSTANTS
  Connections, (* the connections the peer may open *)
  Streams,     (* the requests it may make on them *)
  Serving      (* the serving loop, as the source of a failure *)

ASSUME EndpointAssumption ==
  /\ Connections \cap Streams = {}
  /\ Serving \notin Connections \cup Streams

VARIABLES
  handle,      (* the owner: "held", "finishing", "finished" or "dropped" *)
  stop,        (* the stop sender was dropped, so the receiver is ready *)
  serve,       (* where the serving task stands *)
  task,        (* what has become of each connection and stream task *)
  aborted,     (* the tasks abort_all has been called on *)
  streams,     (* the JoinSet the executor spawns into *)
  taken,       (* the stream tasks serve took out of it *)
  failures,    (* Failures: how often each source was recorded *)
  reported,    (* what finish_endpoints returned *)
  broken       (* history: what panicked *)

owner == <<handle, reported>>
sets == <<aborted, streams, taken>>
vars == <<owner, stop, serve, task, sets, failures, broken>>

Tasks == Connections \cup Streams
Sources == Tasks \cup {Serving}

Running(t) == task[t] = "running"
Unjoined == {"ended", "panicked", "cancelled"}
AllConnectionsJoined == \A c \in Connections : task[c] \in {"idle", "joined"}

Join(T) == task' = [t \in Tasks |-> IF t \in T THEN "joined" ELSE task[t]]

-----------------------------------------------------------------------------
(* Mutant: whatever ends during a shutdown is forgiven. *)
RecordForgiving(T, shutting_down) ==
  failures' = [s \in Sources |->
    IF s \in T /\ task[s] \in {"panicked", "cancelled"} /\ ~shutting_down
      THEN failures[s] + 1 ELSE failures[s]]

(* Failures::record for each of T: an error is kept, except a cancellation *)
(* that the shutdown itself asked for.                                     *)
Record(T, shutting_down) ==
  failures' = [s \in Sources |->
    IF /\ s \in T
       /\ task[s] \in {"panicked", "cancelled"}
       /\ ~(shutting_down /\ task[s] = "cancelled")
      THEN failures[s] + 1 ELSE failures[s]]

-----------------------------------------------------------------------------
(* The serving loop. Its select is biased: stop, then joins, then accept. *)

(* Building the HyperEndpoint panics, and the serving task with it. *)
StartPanics ==
  /\ serve = "starting"
  /\ serve' = "crashed"
  /\ broken' = broken \cup {Serving}
  /\ UNCHANGED <<owner, stop, task, sets, failures>>

Start ==
  /\ serve = "starting"
  /\ serve' = "serving"
  /\ UNCHANGED <<owner, stop, task, sets, failures, broken>>

StopServing ==
  /\ serve = "serving" /\ stop
  /\ serve' = "draining"
  /\ UNCHANGED <<owner, stop, task, sets, failures, broken>>

JoinConnection(c) ==
  /\ serve = "serving" /\ ~stop
  /\ task[c] \in Unjoined
  /\ Record({c}, FALSE)
  /\ Join({c})
  /\ UNCHANGED <<owner, stop, serve, sets, broken>>

Quiet == ~stop /\ \A c \in Connections : task[c] \notin Unjoined

Accept(c) ==
  /\ serve = "serving" /\ Quiet
  /\ task[c] = "idle"
  /\ task' = [task EXCEPT ![c] = "running"]
  /\ UNCHANGED <<owner, stop, serve, sets, failures, broken>>

(* accept fails: the loop panics, which is caught and recorded. *)
AcceptPanics ==
  /\ serve = "serving" /\ Quiet
  /\ serve' = "draining"
  /\ broken' = broken \cup {Serving}
  /\ failures' = [failures EXCEPT ![Serving] = @ + 1]
  /\ UNCHANGED <<owner, stop, task, sets>>

-----------------------------------------------------------------------------
(* Shutdown: the listener is dropped, connections drain until DRAIN. *)

(* Mutant: shutdown waits for the connections however long they take. *)
DrainUnbounded ==
  /\ serve = "draining"
  /\ \A c \in Connections : ~Running(c)
  /\ serve' = "closing"
  /\ aborted' = aborted \cup Connections
  /\ UNCHANGED <<owner, stop, task, streams, taken, failures, broken>>

(* The drain ends, by itself or by its timeout: connections.abort_all(). *)
EndDrain ==
  /\ serve = "draining"
  /\ serve' = "closing"
  /\ aborted' = aborted \cup Connections
  /\ UNCHANGED <<owner, stop, task, streams, taken, failures, broken>>

JoinClosing(c) ==
  /\ serve = "closing"
  /\ task[c] \in Unjoined
  /\ Record({c}, TRUE)
  /\ Join({c})
  /\ UNCHANGED <<owner, stop, serve, sets, broken>>

(* Mutant: the streams are taken while connections can still start some. *)
TakeEarly ==
  /\ serve = "closing"
  /\ serve' = "joining"
  /\ taken' = streams
  /\ streams' = {}
  /\ aborted' = aborted \cup streams
  /\ UNCHANGED <<owner, stop, task, failures, broken>>

(* No connection is left: mem::take(streams), and abort_all on them. *)
TakeStreams ==
  /\ serve = "closing" /\ AllConnectionsJoined
  /\ serve' = "joining"
  /\ taken' = streams
  /\ streams' = {}
  /\ aborted' = aborted \cup streams
  /\ UNCHANGED <<owner, stop, task, failures, broken>>

JoinStream(s) ==
  /\ serve = "joining" /\ s \in taken
  /\ task[s] \in Unjoined
  /\ Record({s}, TRUE)
  /\ Join({s})
  /\ UNCHANGED <<owner, stop, serve, sets, broken>>

EndServe ==
  /\ serve = "joining"
  /\ \A s \in taken : task[s] = "joined"
  /\ serve' = "ended"
  /\ UNCHANGED <<owner, stop, task, sets, failures, broken>>

-----------------------------------------------------------------------------
(* The tasks. *)

(* Executor::execute, in the connection's task: join what has ended, spawn. *)
Execute(c, s) ==
  /\ Running(c) /\ task[s] = "idle"
  /\ LET over == {t \in streams : task[t] \in Unjoined}
     IN /\ Record(over, FALSE)
        /\ task' = [t \in Tasks |-> IF t = s THEN "running"
                                    ELSE IF t \in over THEN "joined" ELSE task[t]]
  /\ streams' = streams \cup {s}
  /\ UNCHANGED <<owner, stop, serve, aborted, taken, broken>>

End(t) ==
  /\ Running(t)
  /\ task' = [task EXCEPT ![t] = "ended"]
  /\ UNCHANGED <<owner, stop, serve, sets, failures, broken>>

(* A panic, of an SDK handler or of the connection's code. *)
TaskPanics(t) ==
  /\ Running(t)
  /\ task' = [task EXCEPT ![t] = "panicked"]
  /\ broken' = broken \cup {t}
  /\ UNCHANGED <<owner, stop, serve, sets, failures>>

Cancel(t) ==
  /\ Running(t) /\ t \in aborted
  /\ task' = [task EXCEPT ![t] = "cancelled"]
  /\ UNCHANGED <<owner, stop, serve, sets, failures, broken>>

-----------------------------------------------------------------------------
(* The handle. *)

(* finish_endpoints drops the sender, then awaits the serving task. *)
Finish ==
  /\ handle = "held"
  /\ handle' = "finishing"
  /\ stop' = TRUE
  /\ UNCHANGED <<reported, serve, task, sets, failures, broken>>

(* The serving task is over: its own join is recorded, everything is taken. *)
Finished ==
  /\ handle = "finishing" /\ serve \in {"ended", "crashed"}
  /\ handle' = "finished"
  /\ reported' = [failures EXCEPT ![Serving] = IF serve = "crashed" THEN @ + 1 ELSE @]
  /\ failures' = [s \in Sources |-> 0]
  /\ UNCHANGED <<stop, serve, task, sets, broken>>

(* The handle, or the future of finish, is dropped: the task is detached. *)
DropHandle ==
  /\ handle \in {"held", "finishing"}
  /\ handle' = "dropped"
  /\ stop' = TRUE
  /\ UNCHANGED <<reported, serve, task, sets, failures, broken>>

-----------------------------------------------------------------------------
Init ==
  /\ handle = "held" /\ stop = FALSE /\ serve = "starting"
  /\ task = [t \in Tasks |-> "idle"]
  /\ aborted = {} /\ streams = {} /\ taken = {}
  /\ failures = [s \in Sources |-> 0] /\ reported = [s \in Sources |-> 0]
  /\ broken = {}

Serve ==
  \/ StartPanics \/ Start \/ StopServing \/ AcceptPanics
  \/ (\E c \in Connections : JoinConnection(c) \/ Accept(c) \/ JoinClosing(c))
  \/ EndDrain \/ TakeStreams \/ (\E s \in Streams : JoinStream(s)) \/ EndServe

Peer == \E c \in Connections, s \in Streams : Execute(c, s)
Ends(t) == End(t) \/ TaskPanics(t) \/ Cancel(t)
Owner == Finish \/ DropHandle

Next == Serve \/ Peer \/ (\E t \in Tasks : Ends(t)) \/ Owner \/ Finished

(* The runtime polls the serving task and the finish that awaits it; a task *)
(* that was aborted reaches an await, where it is cancelled.                *)
Spec ==
  /\ Init /\ [][Next]_vars
  /\ WF_vars(Serve) /\ WF_vars(Finished)
  /\ \A t \in Tasks : WF_vars(Running(t) /\ t \in aborted /\ Ends(t))

-----------------------------------------------------------------------------
(* The type of the state; no source is ever counted twice. *)
TypeOK ==
  /\ handle \in {"held", "finishing", "finished", "dropped"}
  /\ stop \in BOOLEAN
  /\ serve \in {"starting", "serving", "draining", "closing", "joining", "ended", "crashed"}
  /\ task \in [Tasks -> {"idle", "running", "joined"} \cup Unjoined]
  /\ aborted \subseteq Tasks /\ streams \subseteq Streams /\ taken \subseteq Streams
  /\ failures \in [Sources -> 0 .. 1] /\ reported \in [Sources -> 0 .. 1]
  /\ broken \subseteq Sources

(* finish reports every panic - of a stream, a connection or the serving     *)
(* task, before or during shutdown, once - and nothing else: no cancellation *)
(* the drain deadline forced ("a panic already in the join queue still       *)
(* counts, even during shutdown").                                           *)
ReportExact ==
  handle = "finished" =>
    reported = [s \in Sources |-> IF s \in broken THEN 1 ELSE 0]

(* When serve has ended, nothing it started runs on, not even a stream that  *)
(* a connection started while it was being cancelled.                        *)
NothingRunsOn == serve \in {"ended", "crashed"} => \A t \in Tasks : ~Running(t)

(* Shutdown comes to its end however long handlers would have gone on, and   *)
(* finish with it.                                                           *)
ShutdownEnds ==
  /\ stop ~> serve \in {"ended", "crashed"}
  /\ handle = "finishing" ~> handle \in {"finished", "dropped"}
=============================================================================
