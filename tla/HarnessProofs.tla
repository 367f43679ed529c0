---------------------------- MODULE HarnessProofs ----------------------------
(***************************************************************************)
(* Proofs about what a suite runs on and asks: the endpoint it serves      *)
(* (Endpoint), the server it is given (Launch) and the journals it reads   *)
(* (Results), which share no state. A Session is a launch and what is      *)
(* asked after it, so that what holds of either part holds of it.          *)
(*                                                                         *)
(* For any number of connections and of streams, finish reports exactly    *)
(* what panicked, and nothing runs on. The invariant follows each task     *)
(* from its start to the set that owns its result, and each panic from the *)
(* task to the report.                                                     *)
(*                                                                         *)
(* For any environment and any spec, no suite passes by skipping what it   *)
(* was offered, and a server runs as its spec and the harness say.         *)
(***************************************************************************)
EXTENDS Endpoint, Session, FiniteSetTheorems, SequenceTheorems, WellFoundedInduction, TLAPS

(* Before serving, or when it never came to it, there is no task. *)
Untouched ==
  serve \in {"starting", "crashed"} =>
    /\ \A t \in Tasks : task[t] = "idle"
    /\ aborted = {} /\ streams = {} /\ taken = {}

(* Who owns a task's result: connections until they are all joined, streams *)
(* the executor's set, and then the serving loop.                           *)
Owned ==
  /\ serve \in {"starting", "serving", "draining", "closing", "crashed"} => taken = {}
  /\ serve \in {"joining", "ended"} =>
       streams = {} /\ \A c \in Connections : task[c] \in {"idle", "joined"}
  /\ \A s \in Streams : task[s] \in {"idle", "joined"} \/ s \in streams \cup taken
  /\ serve = "ended" => \A s \in taken : task[s] = "joined"

(* Only what was aborted is cancelled: connections first, streams only when *)
(* no connection is left to start another.                                  *)
Aborts ==
  /\ serve \in {"starting", "serving", "draining", "crashed"} => aborted = {}
  /\ serve = "closing" => aborted \cap Streams = {}
  /\ \A t \in Tasks : task[t] = "cancelled" => t \in aborted

(* A panic is kept by the task until it is joined, and recorded then. *)
Kept ==
  /\ \A t \in Tasks :
       /\ task[t] = "panicked" => t \in broken
       /\ t \in broken => task[t] \in {"panicked", "joined"}
  /\ serve \in {"starting", "serving"} => Serving \notin broken
  /\ serve = "crashed" => Serving \in broken

Counts(record) == \A t \in Tasks : record[t] = IF t \in broken /\ task[t] = "joined" THEN 1 ELSE 0

Recorded ==
  /\ handle # "finished" =>
       /\ reported = [s \in Sources |-> 0]
       /\ Counts(failures)
       /\ failures[Serving] = IF Serving \in broken /\ serve # "crashed" THEN 1 ELSE 0
  /\ handle = "finished" =>
       /\ failures = [s \in Sources |-> 0]
       /\ Counts(reported)
       /\ reported[Serving] = IF Serving \in broken THEN 1 ELSE 0
       /\ serve \in {"ended", "crashed"}

Inv == TypeOK /\ Untouched /\ Owned /\ Aborts /\ Kept /\ Recorded
-----------------------------------------------------------------------------
(* The sources are told apart. *)
LEMMA Disjoint ==
  /\ Sources = Tasks \cup {Serving} /\ Serving \notin Tasks
  /\ Connections \subseteq Tasks /\ Streams \subseteq Tasks /\ Connections \cap Streams = {}
  BY EndpointAssumption DEF Sources, Tasks

(* An endpoint that was just deployed. *)
LEMMA InvInit == Init => Inv
<1> USE Disjoint DEF Init
<1>1. ASSUME Init PROVE TypeOK /\ Untouched
  <2>1. failures \in [Sources -> 0 .. 1] /\ reported \in [Sources -> 0 .. 1]
    BY <1>1
  <2>2. task \in [Tasks -> {"idle", "running", "joined"} \cup Unjoined]
    BY <1>1
  <2>3. handle = "held" /\ stop = FALSE /\ serve = "starting" /\ aborted = {} /\ streams = {} /\ taken = {} /\ broken = {}
    BY <1>1
  <2>4. Untouched
    BY <1>1 DEF Untouched
  <2> HIDE DEF Init
  <2> QED BY <2>1, <2>2, <2>3, <2>4 DEF TypeOK
<1>2. Init => Owned /\ Aborts /\ Kept
  BY DEF Owned, Aborts, Kept
<1>3. ASSUME Init PROVE Recorded
  <2>1. /\ handle = "held" /\ broken = {} /\ reported = [s \in Sources |-> 0]
        /\ failures[Serving] = 0 /\ \A t \in Tasks : failures[t] = 0
    BY <1>3
  <2> QED BY <2>1 DEF Counts, Recorded
<1> QED BY <1>1, <1>2, <1>3 DEF Inv

(* Steps of the serving loop that join nothing. *)
LEMMA LoopKeeps ==
  ASSUME Inv, StartPanics \/ Start \/ StopServing \/ AcceptPanics \/ (\E c \in Connections : Accept(c))
              \/ EndDrain \/ TakeStreams \/ EndServe
  PROVE  Inv'
<1> USE Disjoint DEF Inv, TypeOK, Untouched, Owned, Aborts, Kept, Counts, Recorded, Unjoined, owner, sets
<1>1. CASE StartPanics
  BY <1>1 DEF StartPanics
<1>2. CASE Start
  BY <1>2 DEF Start
<1>3. CASE StopServing
  BY <1>3 DEF StopServing
<1>4. CASE AcceptPanics
  BY <1>4 DEF AcceptPanics
<1>5. ASSUME NEW c \in Connections, Accept(c) PROVE Inv'
  BY <1>5 DEF Accept
<1>6. CASE EndDrain
  BY <1>6 DEF EndDrain
<1>7. CASE TakeStreams
  BY <1>7 DEF TakeStreams, AllConnectionsJoined
<1>8. CASE EndServe
  BY <1>8 DEF EndServe
<1> QED BY <1>1, <1>2, <1>3, <1>4, <1>5, <1>6, <1>7, <1>8

(* Joins: what a set of tasks left is recorded, once. *)
LEMMA JoinKeeps ==
  ASSUME Inv, \/ \E c \in Connections : JoinConnection(c) \/ JoinClosing(c)
              \/ \E s \in Streams : JoinStream(s)
  PROVE  Inv'
<1> USE Disjoint DEF Inv, TypeOK, Untouched, Owned, Aborts, Kept, Counts, Recorded, Unjoined, owner, sets, Record, Join
<1>1. ASSUME NEW c \in Connections, JoinConnection(c) PROVE Inv'
  BY <1>1 DEF JoinConnection
<1>2. ASSUME NEW c \in Connections, JoinClosing(c) PROVE Inv'
  BY <1>2 DEF JoinClosing
<1>3. ASSUME NEW s \in Streams, JoinStream(s) PROVE Inv'
  BY <1>3 DEF JoinStream
<1> QED BY <1>1, <1>2, <1>3

(* A connection starts a stream: what has ended is joined on the way. *)
LEMMA ExecuteKeeps ==
  ASSUME Inv, NEW c \in Connections, NEW s \in Streams, Execute(c, s)
  PROVE  Inv'
  BY Disjoint DEF Inv, TypeOK, Untouched, Owned, Aborts, Kept, Counts, Recorded, Unjoined, owner, sets, Record, Execute, Running

(* A task ends, panics, or is cancelled once it was aborted. *)
LEMMA TaskKeeps ==
  ASSUME Inv, NEW t \in Tasks, Ends(t)
  PROVE  Inv'
<1> USE Disjoint DEF Inv, TypeOK, Untouched, Owned, Aborts, Kept, Counts, Recorded, Unjoined, owner, sets, Running
<1>1. CASE End(t)
  BY <1>1 DEF End
<1>2. CASE TaskPanics(t)
  BY <1>2 DEF TaskPanics
<1>3. CASE Cancel(t)
  BY <1>3 DEF Cancel
<1> QED BY <1>1, <1>2, <1>3 DEF Ends

(* The handle is finished or dropped. *)
LEMMA OwnerKeeps ==
  ASSUME Inv, Owner \/ Finished
  PROVE  Inv'
<1> USE Disjoint DEF Inv, TypeOK, Untouched, Owned, Aborts, Kept, Counts, Recorded, Unjoined, owner, sets
<1>1. CASE Finish
  BY <1>1 DEF Finish
<1>2. CASE DropHandle
  BY <1>2 DEF DropHandle
<1>3. CASE Finished
  BY <1>3 DEF Finished
<1> QED BY <1>1, <1>2, <1>3 DEF Owner

(* The inductive invariant: whoever owns a task's result owns its panic. *)
THEOREM EndpointInvariant == Spec => []Inv
<1>1. ASSUME Inv, [Next]_vars PROVE Inv'
  <2>1. CASE Serve
    BY <1>1, <2>1, LoopKeeps, JoinKeeps DEF Serve
  <2>2. CASE Peer
    BY <1>1, <2>2, ExecuteKeeps DEF Peer
  <2>3. CASE \E t \in Tasks : Ends(t)
    BY <1>1, <2>3, TaskKeeps
  <2>4. CASE Owner \/ Finished
    BY <1>1, <2>4, OwnerKeeps
  <2>5. CASE UNCHANGED vars
    BY <1>1, <2>5 DEF vars, owner, sets, Inv, TypeOK, Untouched, Owned, Aborts, Kept, Counts, Recorded
  <2> QED BY <1>1, <2>1, <2>2, <2>3, <2>4, <2>5 DEF Next
<1> QED BY InvInit, <1>1, PTL DEF Spec

(* Every state of the endpoint has its type: no source is counted twice. *)
THEOREM EndpointTyped == Spec => []TypeOK
<1>1. Inv => TypeOK
  BY DEF Inv
<1> QED BY <1>1, EndpointInvariant, PTL

(* finish reports every panic once, whichever task panicked whenever, and   *)
(* no cancellation.                                                         *)
THEOREM ReportIsExact == Spec => []ReportExact
<1>1. Inv => ReportExact
  <2> SUFFICES ASSUME Inv, handle = "finished" PROVE reported = [s \in Sources |-> IF s \in broken THEN 1 ELSE 0]
    BY DEF ReportExact
  <2> USE Disjoint DEF Inv, TypeOK, Unjoined
  <2>1. \A t \in Tasks : task[t] \in {"idle", "joined"}
    BY DEF Untouched, Owned, Recorded, Tasks
  <2>2. \A t \in Tasks : reported[t] = IF t \in broken THEN 1 ELSE 0
    BY <2>1 DEF Kept, Counts, Recorded
  <2>3. reported[Serving] = IF Serving \in broken THEN 1 ELSE 0
    BY DEF Recorded
  <2> QED BY <2>2, <2>3
<1> QED BY <1>1, EndpointInvariant, PTL

(* Nothing runs on once the serving loop is over, however many streams were *)
(* started while their connection was being cancelled.                      *)
THEOREM NothingIsLeft == Spec => []NothingRunsOn
<1>1. Inv => NothingRunsOn
  BY Disjoint DEF Inv, TypeOK, Untouched, Owned, NothingRunsOn, Running, Tasks
<1> QED BY <1>1, EndpointInvariant, PTL
-----------------------------------------------------------------------------
(* The gate and the launch, for any variables of the environment, any spec   *)
(* and any ports: nothing the test process's environment or the spec's pairs *)
(* hold comes before what the harness sets.                                  *)

Known == policy \in {"allowed", "never"} /\ \A name \in DOMAIN env : env[name] # None

(* What the gate answered is what the environment says to this moment. *)
Gated ==
  /\ phase \in {"gate", "launch", "starting", "ready", "skipped", "failed"}
  /\ phase # "gate" => launcher = launcher_or_skip
  /\ phase = "skipped" => launcher = NoServer
  /\ phase \in {"launch", "starting", "ready"} => launcher \notin {NoServer, Panic}

(* A server is one that runs already, or it was spawned with an environment *)
(* of the harness's making.                                                 *)
Launched ==
  phase \in {"starting", "ready"} =>
    \/ launcher.from = "reuse" /\ ~Spawned /\ addresses = launcher.at
    \/ /\ launcher.from = "binary" /\ is_valid_name(spec.name)
       /\ \E ports \in Free :
            /\ child = Environment(ports)
            /\ addresses = [admin |-> Loopback(ports.admin), ingress |-> Loopback(ports.ingress)]

Answering ==
  /\ phase \in {"gate", "launch"} => running = None /\ ~Spawned
  /\ running # None => running.as = IF Spawned THEN RunsWith ELSE None
  /\ phase = "ready" => running # None /\ Reported

LaunchInv == Known /\ Gated /\ Launched /\ Answering

(* What the gate's answer says of the environment. *)
LEMMA GateAnswers ==
  ASSUME Known
  PROVE  /\ launcher_or_skip.from \in {"none", "panic", "reuse", "binary"}
         /\ launcher_or_skip.from = "panic" => launcher_or_skip = Panic
         /\ launcher_or_skip.from = "none" => ~Supplied("CI") /\ ~Supplied("RESTATE_SERVER_BIN")
         /\ launcher_or_skip.from = "binary" => Supplied("RESTATE_SERVER_BIN")
         /\ launcher_or_skip.from \in {"none", "binary"} =>
              policy = "never" \/ \A name \in Urls : ~Readable(name)
         /\ launcher_or_skip.from = "reuse" =>
              /\ policy = "allowed" /\ \A name \in Urls : Readable(name)
              /\ launcher_or_skip.at =
                   [admin |-> env["RESTATE_ADMIN_URL"], ingress |-> env["RESTATE_INGRESS_URL"]]
<1> DEFINE admin == non_empty("RESTATE_ADMIN_URL")
           ingress == non_empty("RESTATE_INGRESS_URL")
           binary == non_empty_os("RESTATE_SERVER_BIN")
           ci == non_empty_os("CI")
           reuse == reuse_urls(policy, admin, ingress)
<1>1. /\ admin = None <=> ~Readable("RESTATE_ADMIN_URL")
      /\ Readable("RESTATE_ADMIN_URL") => admin = env["RESTATE_ADMIN_URL"]
  BY DEF Known, non_empty, Readable, Supplied
<1>2. /\ ingress = None <=> ~Readable("RESTATE_INGRESS_URL")
      /\ Readable("RESTATE_INGRESS_URL") => ingress = env["RESTATE_INGRESS_URL"]
  BY DEF Known, non_empty, Readable, Supplied
<1>3. (binary = None <=> ~Supplied("RESTATE_SERVER_BIN")) /\ (ci = None <=> ~Supplied("CI"))
  BY DEF Known, non_empty_os, Supplied
<1> HIDE DEF admin, ingress, binary, ci
<1>4. /\ reuse.from = "none" => reuse = NoServer /\ (policy = "never" \/ \A name \in Urls : ~Readable(name))
      /\ reuse.from = "panic" => reuse = Panic
      /\ reuse.from = "reuse" =>
           /\ policy = "allowed" /\ \A name \in Urls : Readable(name)
           /\ reuse.at = [admin |-> env["RESTATE_ADMIN_URL"], ingress |-> env["RESTATE_INGRESS_URL"]]
      /\ reuse.from \in {"none", "panic", "reuse"}
  BY <1>1, <1>2 DEF Known, Urls, reuse_urls, NoServer, Panic, AtUrls
<1>5. launcher_or_skip =
        IF reuse = Panic THEN Panic
        ELSE server_gate(reuse, binary, non_empty("RESTATE_ENDPOINT_HOST"), ci)
  BY DEF launcher_or_skip, admin, ingress, binary, ci
<1> HIDE DEF reuse
<1>6. CASE reuse.from = "panic"
  BY <1>4, <1>5, <1>6 DEF Panic
<1>7. CASE reuse.from = "reuse"
  BY <1>4, <1>5, <1>7 DEF server_gate, NoServer, Panic
<1>8. CASE reuse.from = "none"
  <2>1. reuse # Panic /\ reuse = NoServer /\ (policy = "never" \/ \A name \in Urls : ~Readable(name))
    BY <1>4, <1>8 DEF Panic, NoServer
  <2>2. launcher_or_skip.from \in {"none", "panic", "binary"}
    BY <1>5, <2>1 DEF server_gate, NoServer, Panic
  <2> QED BY <1>3, <1>5, <2>1, <2>2 DEF server_gate, NoServer, Panic
<1> QED BY <1>4, <1>6, <1>7, <1>8

(* The harness's own values have the last word, whatever a layer below says. *)
LEMMA OwnIsLast ==
  ASSUME NEW ports \in Free, child = Environment(ports)
  PROVE  /\ Spawned
         /\ RunsWith.base_dir = Directory(spec.name) /\ RunsWith.modes = {"tcp"}
         /\ RunsWith.node = Loopback(ports.node) /\ RunsWith.admin = Loopback(ports.admin)
         /\ RunsWith.ingress = Loopback(ports.ingress)
<1> DEFINE below == Layer(Layer(env, spec.env), Flags)
           own == Own(ports)
<1>1. DOMAIN own =
        {"RESTATE_BASE_DIR", "RESTATE_NODE_NAME", "RESTATE_LISTEN_MODE", "RESTATE_ADMIN__LISTEN_MODE",
         "RESTATE_INGRESS__LISTEN_MODE", "RESTATE_BIND_ADDRESS", "RESTATE_ADVERTISED_ADDRESS",
         "RESTATE_INGRESS__BIND_ADDRESS", "RESTATE_ADMIN__BIND_ADDRESS"}
  BY DEF Own
<1>2. /\ own["RESTATE_BASE_DIR"] = Directory(spec.name)
      /\ own["RESTATE_BIND_ADDRESS"] = Loopback(ports.node)
      /\ own["RESTATE_ADMIN__BIND_ADDRESS"] = Loopback(ports.admin)
      /\ own["RESTATE_INGRESS__BIND_ADDRESS"] = Loopback(ports.ingress)
      /\ own["RESTATE_ADMIN__LISTEN_MODE"] = "tcp" /\ own["RESTATE_INGRESS__LISTEN_MODE"] = "tcp"
  BY DEF Own
<1>3. child = Over(below, own)
  BY DEF Environment
<1> HIDE DEF below, own
<1>4. \A name \in DOMAIN own : name \in DOMAIN child /\ child[name] = own[name]
  BY <1>3 DEF Over
<1>5. Spawned
  <2>1. "RESTATE_BASE_DIR" \in DOMAIN child
    BY <1>1, <1>4
  <2> QED BY <2>1 DEF Spawned, NoEnvironment
<1>6. \A name \in DOMAIN own : \A default : Setting(name, default) = own[name]
  BY <1>4 DEF Setting
<1>7. /\ RunsWith.base_dir = Directory(spec.name)
      /\ RunsWith.node = Loopback(ports.node) /\ RunsWith.admin = Loopback(ports.admin)
      /\ RunsWith.ingress = Loopback(ports.ingress)
  BY <1>1, <1>2, <1>6 DEF RunsWith
<1>8. RunsWith.modes = {"tcp"}
  BY <1>1, <1>2, <1>6 DEF RunsWith
<1> QED BY <1>5, <1>7, <1>8

LEMMA LaunchInvInit == LaunchInit => LaunchInv
<1> SUFFICES ASSUME LaunchInit PROVE LaunchInv
  OBVIOUS
<1>1. \A name \in DOMAIN env : env[name] # None
  <2>1. PICK gate \in Gates, settings \in Inherited : env = Over(settings, gate)
    BY DEF LaunchInit
  <2> QED BY <2>1, LaunchAssumption DEF Over
<1> QED BY <1>1 DEF LaunchInit, LaunchInv, Known, Gated, Launched, Answering, Spawned

(* What the suite and the process's environment say does not change. *)
LEMMA Given ==
  ASSUME UNCHANGED <<spec, policy, env>>
  PROVE  /\ launcher_or_skip' = launcher_or_skip /\ Known' = Known
         /\ \A ports : Environment(ports)' = Environment(ports)
         /\ is_valid_name(spec.name)' = is_valid_name(spec.name)
<1>1. launcher_or_skip' = launcher_or_skip
  BY DEF launcher_or_skip, reuse_urls, server_gate, non_empty, non_empty_os, Or
<1>2. \A ports : Environment(ports)' = Environment(ports)
  <2>1. Flags' = Flags /\ \A ports : Own(ports)' = Own(ports)
    BY DEF Flags, Own
  <2> QED BY <2>1 DEF Environment
<1> QED BY <1>1, <1>2 DEF Known, is_valid_name

LEMMA LaunchInvNext == LaunchInv /\ [LaunchNext]_launchVars => LaunchInv'
<1> SUFFICES ASSUME LaunchInv, [LaunchNext]_launchVars PROVE LaunchInv'
  OBVIOUS
<1>1. UNCHANGED <<spec, policy, env>>
  BY DEF LaunchNext, Gate, Reuse, Spawn, LaunchFails, ComeUp, Ready, launchVars
<1>2. /\ launcher_or_skip' = launcher_or_skip /\ Known'
      /\ \A ports : Environment(ports)' = Environment(ports)
      /\ is_valid_name(spec.name)' = is_valid_name(spec.name)
  BY <1>1, Given DEF LaunchInv
<1>3. child' = child => Spawned' = Spawned /\ RunsWith' = RunsWith
  BY DEF Spawned, RunsWith, Setting
<1>4. running' = running => Reported' = Reported
  BY <1>1 DEF Reported
<1>5. CASE Gate
  <2>1. Gated'
    BY <1>2, <1>5 DEF Gate, LaunchInv, Gated
  <2>2. Launched' /\ Answering'
    BY <1>3, <1>5 DEF Gate, LaunchInv, Launched, Answering
  <2> QED BY <1>2, <2>1, <2>2 DEF LaunchInv
<1>6. CASE Reuse
  <2>1. Gated'
    BY <1>2, <1>6 DEF Reuse, LaunchInv, Gated
  <2>2. Launched' /\ Answering'
    BY <1>3, <1>6 DEF Reuse, LaunchInv, Launched, Answering
  <2> QED BY <1>2, <2>1, <2>2 DEF LaunchInv
<1>7. CASE Spawn
  <2>1. Gated'
    BY <1>2, <1>7 DEF Spawn, LaunchInv, Gated
  <2>2. Answering'
    BY <1>7 DEF Spawn, LaunchInv, Answering
  <2>3. Launched'
    <3>1. PICK ports \in Free :
            /\ child' = Environment(ports)
            /\ addresses' = [admin |-> Loopback(ports.admin), ingress |-> Loopback(ports.ingress)]
      BY <1>7 DEF Spawn
    <3>2. launcher'.from = "binary" /\ is_valid_name(spec.name)'
      BY <1>2, <1>7 DEF Spawn
    <3> QED BY <1>2, <3>1, <3>2 DEF Launched
  <2> QED BY <1>2, <2>1, <2>2, <2>3 DEF LaunchInv
<1>8. CASE LaunchFails
  <2>1. Gated'
    BY <1>2, <1>8 DEF LaunchFails, LaunchInv, Gated
  <2>2. Launched' /\ Answering'
    BY <1>3, <1>8 DEF LaunchFails, LaunchInv, Launched, Answering
  <2> QED BY <1>2, <2>1, <2>2 DEF LaunchInv
<1>9. ASSUME UNCHANGED <<launcher, addresses, child>>, phase' = "starting" \/ phase' = phase \/ phase' \in {"ready", "failed"},
             phase' # phase => phase = "starting",
             phase # "gate" \/ phase' = phase
      PROVE  Gated' /\ Launched'
  <2>1. Gated'
    BY <1>2, <1>9 DEF LaunchInv, Gated
  <2>2. Launched'
    <3> SUFFICES ASSUME phase' \in {"starting", "ready"} PROVE Launched'
      BY DEF Launched
    <3>1. phase \in {"starting", "ready"}
      BY <1>9
    <3> QED BY <1>1, <1>2, <1>3, <1>9, <3>1 DEF LaunchInv, Launched
  <2> QED BY <2>1, <2>2
<1>10. CASE ComeUp
  <2>1. Gated' /\ Launched'
    BY <1>9, <1>10 DEF ComeUp
  <2>2. Answering'
    BY <1>3, <1>10 DEF ComeUp, LaunchInv, Answering
  <2> QED BY <1>2, <2>1, <2>2 DEF LaunchInv
<1>11. CASE Ready
  <2>1. Gated' /\ Launched'
    BY <1>9, <1>11 DEF Ready
  <2>2. Answering'
    BY <1>3, <1>4, <1>11 DEF Ready, LaunchInv, Answering
  <2> QED BY <1>2, <2>1, <2>2 DEF LaunchInv
<1>12. CASE UNCHANGED launchVars
  <2>1. Gated' /\ Launched'
    BY <1>9, <1>12 DEF launchVars
  <2>2. Answering'
    BY <1>3, <1>4, <1>12 DEF launchVars, LaunchInv, Answering
  <2> QED BY <1>2, <2>1, <2>2 DEF LaunchInv
<1> QED BY <1>5, <1>6, <1>7, <1>8, <1>10, <1>11, <1>12 DEF LaunchNext

LEMMA AlwaysLaunchInv == LaunchSpec => []LaunchInv
  BY LaunchInvInit, LaunchInvNext, PTL DEF LaunchSpec

(* gate.rs:10, "a run that passed by skipping proves nothing", of every      *)
(* environment: the gate is decided by its five variables alone, a suite is  *)
(* only skipped for want of any server that could be read of, and one that   *)
(* is ready was launched where they say.                                     *)
THEOREM NoSuitePassesEmpty == LaunchSpec => []NoEmptyPass
<1>1. LaunchInv => NoEmptyPass
  <2> SUFFICES ASSUME LaunchInv PROVE NoEmptyPass
    OBVIOUS
  <2>0. Known /\ policy \in {"allowed", "never"}
    BY DEF LaunchInv, Known
  <2>1. phase # "gate" => launcher = launcher_or_skip
    BY DEF LaunchInv, Gated
  <2>2. phase = "skipped" => launcher_or_skip.from = "none"
    BY <2>1 DEF LaunchInv, Gated, NoServer
  <2>3. phase = "ready" =>
          \/ launcher_or_skip.from = "reuse" /\ ~Spawned /\ addresses = launcher_or_skip.at
          \/ launcher_or_skip.from = "binary" /\ Spawned
    BY <2>1, OwnIsLast DEF LaunchInv, Launched
  <2>4. phase = "skipped" =>
          /\ ~Supplied("CI") /\ ~Supplied("RESTATE_SERVER_BIN")
          /\ policy = "allowed" => \A name \in Urls : Supplied(name) => env[name] = Garbled
    BY <2>0, <2>2, GateAnswers DEF Readable
  <2>5. phase # "gate" /\ policy = "allowed" /\ Readable("RESTATE_ADMIN_URL") # Readable("RESTATE_INGRESS_URL")
          => launcher = Panic
    <3> SUFFICES ASSUME phase # "gate", policy = "allowed",
                        Readable("RESTATE_ADMIN_URL") # Readable("RESTATE_INGRESS_URL")
                 PROVE  launcher = Panic
      OBVIOUS
    <3>1. "RESTATE_ADMIN_URL" \in Urls /\ "RESTATE_INGRESS_URL" \in Urls
      BY DEF Urls
    <3>2. Readable("RESTATE_ADMIN_URL") \in BOOLEAN /\ Readable("RESTATE_INGRESS_URL") \in BOOLEAN
      BY DEF Readable, Supplied
    <3>3. launcher_or_skip.from # "reuse"
      BY <2>0, <3>1, <3>2, GateAnswers
    <3>4. policy # "never"
      OBVIOUS
    <3>5. launcher_or_skip.from \notin {"none", "binary"}
      BY <2>0, <3>1, <3>2, <3>4, GateAnswers
    <3>6. launcher_or_skip.from = "panic"
      BY <2>0, <3>3, <3>5, GateAnswers
    <3> QED BY <2>0, <2>1, <3>6, GateAnswers
  <2>6. phase = "ready" =>
          IF policy = "allowed" /\ \E name \in Urls : Readable(name)
          THEN ~Spawned /\ addresses = [admin |-> env["RESTATE_ADMIN_URL"], ingress |-> env["RESTATE_INGRESS_URL"]]
          ELSE Spawned /\ Supplied("RESTATE_SERVER_BIN")
    <3>1. CASE launcher_or_skip.from = "reuse"
      <4>1. /\ policy = "allowed" /\ \E name \in Urls : Readable(name)
            /\ launcher_or_skip.at = [admin |-> env["RESTATE_ADMIN_URL"], ingress |-> env["RESTATE_INGRESS_URL"]]
        BY <2>0, <3>1, GateAnswers DEF Urls
      <4> QED BY <2>3, <3>1, <4>1
    <3>2. CASE launcher_or_skip.from = "binary"
      <4>1. policy = "never" \/ \A name \in Urls : ~Readable(name)
        BY <2>0, <3>2, GateAnswers
      <4>2. Supplied("RESTATE_SERVER_BIN")
        BY <2>0, <3>2, GateAnswers
      <4> QED BY <2>3, <3>2, <4>1, <4>2
    <3> QED BY <2>3, <3>1, <3>2
  <2> QED BY <2>4, <2>5, <2>6 DEF NoEmptyPass
<1> QED BY <1>1, AlwaysLaunchInv, PTL

(* gate.rs:234-245 and server.rs:388-405, of every environment, spec and    *)
(* choice of ports: a ready server reports the features its spec lists, and *)
(* one the harness spawned keeps its data and listens where the harness     *)
(* says, whatever its inherited environment and its spec's pairs say.       *)
THEOREM RunsAsAsked == LaunchSpec => []RunsAsSpecified
<1>1. LaunchInv => RunsAsSpecified
  <2> SUFFICES ASSUME LaunchInv, phase = "ready" PROVE RunsAsSpecified
    BY DEF RunsAsSpecified
  <2>1. \A k \in DOMAIN spec.features : running.features[spec.features[k].feature] = spec.features[k].on
    BY DEF LaunchInv, Answering, Reported
  <2>2. ASSUME Spawned
        PROVE  /\ "/" \notin ToSet(spec.name) /\ running.as.base_dir = Directory(spec.name)
               /\ running.as.modes = {"tcp"}
               /\ running.as.admin = addresses.admin /\ running.as.ingress = addresses.ingress
               /\ {running.as.admin[1], running.as.ingress[1], running.as.node[1]} = {"127.0.0.1"}
               /\ Cardinality({running.as.admin, running.as.ingress, running.as.node}) = 3
    <3>1. PICK ports \in Free :
            /\ is_valid_name(spec.name) /\ child = Environment(ports)
            /\ addresses = [admin |-> Loopback(ports.admin), ingress |-> Loopback(ports.ingress)]
      BY <2>2 DEF LaunchInv, Launched
    <3>2. running.as = RunsWith
      BY <2>2 DEF LaunchInv, Answering
    <3>3. /\ running.as.base_dir = Directory(spec.name) /\ running.as.modes = {"tcp"}
          /\ running.as.node = Loopback(ports.node) /\ running.as.admin = Loopback(ports.admin)
          /\ running.as.ingress = Loopback(ports.ingress)
      BY <3>1, <3>2, OwnIsLast
    <3>4. "/" \notin ToSet(spec.name)
      BY <3>1 DEF is_valid_name, NameCharacters
    <3>5. ports.admin # ports.ingress /\ ports.admin # ports.node /\ ports.ingress # ports.node
      BY DEF Free, IsInjective
    <3>6. /\ Loopback(ports.admin) # Loopback(ports.ingress)
          /\ Loopback(ports.admin) # Loopback(ports.node)
          /\ Loopback(ports.ingress) # Loopback(ports.node)
      BY <3>5 DEF Loopback
    <3>7. \A a, b, c : a # b /\ a # c /\ b # c => Cardinality({a, b, c}) = 3
      <4> SUFFICES ASSUME NEW a, NEW b, NEW c, a # b, a # c, b # c PROVE Cardinality({a, b, c}) = 3
        OBVIOUS
      <4>1. Cardinality({a}) = 1 /\ IsFiniteSet({a})
        BY FS_Singleton
      <4>2. Cardinality({a} \cup {b}) = 2 /\ IsFiniteSet({a} \cup {b})
        BY <4>1, FS_AddElement
      <4>3. Cardinality(({a} \cup {b}) \cup {c}) = 3
        BY <4>2, FS_AddElement
      <4>4. ({a} \cup {b}) \cup {c} = {a, b, c}
        OBVIOUS
      <4> QED BY <4>3, <4>4
    <3>8. Loopback(ports.admin)[1] = "127.0.0.1" /\ Loopback(ports.ingress)[1] = "127.0.0.1"
          /\ Loopback(ports.node)[1] = "127.0.0.1"
      BY DEF Loopback
    <3>9. running.as.admin = addresses.admin /\ running.as.ingress = addresses.ingress
      BY <3>1, <3>3
    <3>10. Cardinality({running.as.admin, running.as.ingress, running.as.node}) = 3
      <4> DEFINE admin == Loopback(ports.admin)
                 ingress == Loopback(ports.ingress)
                 node == Loopback(ports.node)
      <4>1. admin # ingress /\ admin # node /\ ingress # node
        BY <3>6
      <4>2. running.as.node = node /\ running.as.admin = admin /\ running.as.ingress = ingress
        BY <3>3
      <4> HIDE DEF admin, ingress, node
      <4>3. Cardinality({admin, ingress, node}) = 3
        BY <3>7, <4>1
      <4> QED BY <4>2, <4>3
    <3>11. {running.as.admin[1], running.as.ingress[1], running.as.node[1]} = {"127.0.0.1"}
      BY <3>3, <3>8
    <3> QED BY <3>3, <3>4, <3>9, <3>10, <3>11
  <2> QED BY <2>1, <2>2 DEF RunsAsSpecified
<1> QED BY <1>1, AlwaysLaunchInv, PTL

-----------------------------------------------------------------------------
(* The results of runs, for any names, identities and length of the journal: *)
(* a row read in place of another is no evidence, is refused, or says the    *)
(* same as the row it stands for.                                            *)

RowType ==
  [index : Nat, version : {2}, type : Supported, name : Names \cup {Null},
   json : [class : Supported, name : Names \cup {Null}, id : Ids \cup {Null}], raw : {Plain, Leaky}]

(* What the server writes of a run has its name and its identity. *)
Intact(row) ==
  /\ row.json.class = row.type /\ row.json.name = row.name
  /\ row.type = "Command: Run" => row.name \in Names
  /\ row.type \in RunTypes => row.json.id \in Ids
  /\ row.type # "Notification: Run" => row.raw = Plain

RunType == [name : Names, id : Ids, result : Nat \cup {Null}, leak : BOOLEAN]

Written ==
  /\ journal \in Seq(RowType) /\ runs \in Seq(RunType)
  /\ \A k \in 1 .. Len(journal) : Intact(journal[k]) /\ journal[k].index = k - 1

(* Where the command of each run is: they are the commands, in order. *)
Commands(at) ==
  /\ at \in [1 .. Len(runs) -> 1 .. Len(journal)]
  /\ \A q, r \in 1 .. Len(runs) : q < r => at[q] < at[r]
  /\ \A k \in 1 .. Len(journal) : IsRun(journal[k]) => \E r \in 1 .. Len(runs) : at[r] = k
  /\ \A r \in 1 .. Len(runs) :
       IsRun(journal[at[r]]) /\ journal[at[r]].name = runs[r].name /\ journal[at[r]].json.id = runs[r].id

(* Each result is that of a run, after its command. *)
Completions(at) ==
  /\ \A r \in 1 .. Len(runs) :
       LET k == runs[r].result + 1 IN
       IF runs[r].result = Null THEN ~runs[r].leak
       ELSE /\ k \in 1 .. Len(journal) /\ IsResult(journal[k]) /\ at[r] < k
            /\ journal[k].json.id = runs[r].id
            /\ runs[r].leak = (journal[k].raw = Leaky)
  /\ \A k \in 1 .. Len(journal) :
       IsResult(journal[k]) => \E r \in 1 .. Len(runs) : runs[r].result = k - 1

Distinct == \A q, r \in 1 .. Len(runs) : runs[q].id = runs[r].id => q = r

(* The names of the commands are those of the runs. *)
NamesOf(rows) == Named([k \in 1 .. Len(rows) |-> named_run_name(rows[k])])
RunsList(list) == Named([k \in 1 .. Len(list) |-> list[k].name])
Listed == NamesOf(journal) = RunsList(runs) /\ RunsList(runs) \in Seq(Names)

InStep == Written /\ Distinct /\ Listed /\ \E at : Commands(at) /\ Completions(at)

Questions ==
  \/ \E name \in Names : answer = [question |-> "result", name |-> name, nth |-> 0, is |-> run_result(read, name)]
  \/ \E name \in Names, nth \in 0 .. 1 :
       answer = [question |-> "result at", name |-> name, nth |-> nth, is |-> run_result_at(read, name, nth)]
  \/ answer = [question |-> "runs", name |-> "", nth |-> 0, is |-> Runs(read)]
  \/ answer = [question |-> "leaks", name |-> "", nth |-> 0, is |-> Leaks(read, Secret)]

Asked ==
  /\ read = Null => answer = NoAnswer
  /\ read # Null =>
       /\ ran = runs
       /\ read = Entries(journal) \/ (damage /\ \E rows \in Damaged : read = Entries(rows))
  /\ answer = NoAnswer \/ (read # Refused /\ Questions)

ResultsInv == InStep /\ Asked

(* What a journal that is intact decodes to. *)
Whole == [k \in 1 .. Len(journal) |-> Entry(journal[k])]

LEMMA WholeIs ==
  ASSUME Written
  PROVE  /\ Whole \in Seq(EntryType) /\ Len(Whole) = Len(journal) /\ Entries(journal) = Whole
         /\ \A k \in 1 .. Len(journal) :
              /\ Whole[k].index = k - 1 /\ Whole[k].version = 2 /\ Whole[k].type = journal[k].type
              /\ Whole[k].name = journal[k].name /\ Whole[k].raw = journal[k].raw
              /\ journal[k].type \in RunTypes => Whole[k].id = journal[k].json.id
              /\ journal[k].type \notin RunTypes => Whole[k].id = Null
              /\ Tells(Whole[k])
<1>1. /\ Len(journal) \in Nat /\ DOMAIN journal = 1 .. Len(journal)
      /\ \A k \in 1 .. Len(journal) : journal[k] \in RowType /\ Intact(journal[k]) /\ journal[k].index = k - 1
  BY DEF Written
<1>2. ASSUME NEW row \in RowType, Intact(row)
      PROVE  Decodes(row) /\ Entry(row) \in EntryType /\ Tells(Entry(row))
  <2>1. /\ row.type \in Supported /\ row.version = 2 /\ row.raw \in {Plain, Leaky} /\ row.index \in Nat
        /\ row.name \in Names \cup {Null} /\ row.json.id \in Ids \cup {Null}
        /\ row.json.class = row.type /\ row.json.name = row.name
        /\ row.type = "Command: Run" => row.name \in Names
    BY <1>2 DEF RowType, Intact
  <2>2. row.type # Null /\ row.raw # Null /\ (row.type = "Command: Run" => row.name # Null)
    BY <2>1, ResultsAssumption DEF Types
  <2>3. CompletionId(row) \in Ids \cup {Null}
    BY <2>1 DEF CompletionId
  <2> QED BY <2>1, <2>2, <2>3 DEF Decodes, Classified, Entry, EntryType, Tells
<1>3. \A k \in 1 .. Len(journal) : Decodes(journal[k]) /\ Entry(journal[k]) \in EntryType /\ Tells(Entry(journal[k]))
  BY <1>1, <1>2
<1>4. Whole \in Seq(EntryType) /\ Len(Whole) = Len(journal)
  BY <1>1, <1>3 DEF Whole
<1>5. Entries(journal) = Whole
  BY <1>1, <1>3 DEF Entries, Whole
<1>6. ASSUME NEW k \in 1 .. Len(journal)
      PROVE  /\ Whole[k].index = k - 1 /\ Whole[k].version = 2 /\ Whole[k].type = journal[k].type
             /\ Whole[k].name = journal[k].name /\ Whole[k].raw = journal[k].raw
             /\ journal[k].type \in RunTypes => Whole[k].id = journal[k].json.id
             /\ journal[k].type \notin RunTypes => Whole[k].id = Null
  <2>1. journal[k].json # Null
    <3>1. journal[k].json \in [class : Supported, name : Names \cup {Null}, id : Ids \cup {Null}]
      BY <1>1 DEF RowType
    <3>2. journal[k].json \in [class : Types, name : Names \cup {Null}, id : Ids \cup {Null}]
      BY <3>1 DEF Types
    <3> QED BY <3>2, ResultsAssumption
  <2>2. Whole[k] = Entry(journal[k])
    BY DEF Whole
  <2>3. journal[k].index = k - 1 /\ journal[k].version = 2 /\ journal[k].json.class = journal[k].type
    BY <1>1 DEF RowType, Intact
  <2> QED BY <2>1, <2>2, <2>3 DEF Entry, CompletionId
<1> QED BY <1>3, <1>4, <1>5, <1>6 DEF Whole

(* It holds the runs that were made, and the results they had. *)
Holds(at) ==
  /\ Len(journal) \in Nat /\ DOMAIN Whole = 1 .. Len(journal) /\ Len(runs) \in Nat
  /\ \A k \in 1 .. Len(journal) : Whole[k].index = k - 1 /\ Tells(Whole[k])
  /\ \A k \in 1 .. Len(journal) : Whole[k].type \in RunTypes => Whole[k].id # Null
  /\ \A r \in 1 .. Len(runs) : at[r] \in 1 .. Len(journal) /\ runs[r] \in RunType
  /\ \A r \in 1 .. Len(runs) :
       IsRun(Whole[at[r]]) /\ Whole[at[r]].id = runs[r].id /\ Whole[at[r]].name = runs[r].name
  /\ \A k \in 1 .. Len(journal) : IsRun(Whole[k]) => \E r \in 1 .. Len(runs) : at[r] = k
  /\ \A k \in 1 .. Len(journal) : IsResult(Whole[k]) =>
       \E r \in 1 .. Len(runs) : runs[r].result = k - 1 /\ Whole[k].id = runs[r].id /\ at[r] < k
  /\ \A r \in 1 .. Len(runs) : runs[r].result # Null =>
       /\ runs[r].result + 1 \in 1 .. Len(journal)
       /\ IsResult(Whole[runs[r].result + 1]) /\ Whole[runs[r].result + 1].id = runs[r].id

LEMMA WholeHolds ==
  ASSUME InStep, NEW at, Commands(at), Completions(at)
  PROVE  Holds(at)
<1>0. Written /\ Distinct
  BY DEF InStep
<1>2. /\ Len(journal) \in Nat /\ DOMAIN Whole = 1 .. Len(journal) /\ Len(runs) \in Nat
      /\ \A k \in 1 .. Len(journal) :
              /\ Whole[k].index = k - 1 /\ Whole[k].type = journal[k].type /\ Tells(Whole[k])
              /\ Whole[k].name = journal[k].name
              /\ journal[k].type \in RunTypes => Whole[k].id = journal[k].json.id /\ Whole[k].id # Null
  <2>1. \A k \in 1 .. Len(journal) : journal[k].type \in RunTypes => journal[k].json.id \in Ids
    BY <1>0 DEF Written, Intact
  <2> QED BY <1>0, <2>1, WholeIs, ResultsAssumption DEF Written
<1>4. \A r \in 1 .. Len(runs) : at[r] \in 1 .. Len(journal) /\ runs[r] \in RunType
  BY <1>0 DEF Commands, Written
<1>7. \A r \in 1 .. Len(runs) :
        IsRun(Whole[at[r]]) /\ Whole[at[r]].id = runs[r].id /\ Whole[at[r]].name = runs[r].name
  BY <1>2, <1>4 DEF Commands, IsRun, RunTypes
<1>8. \A k \in 1 .. Len(journal) : IsRun(Whole[k]) => \E r \in 1 .. Len(runs) : at[r] = k
  BY <1>2 DEF Commands, IsRun
<1>9. ASSUME NEW k \in 1 .. Len(journal), IsResult(Whole[k])
      PROVE  \E r \in 1 .. Len(runs) : runs[r].result = k - 1 /\ Whole[k].id = runs[r].id /\ at[r] < k
  <2>1. PICK r \in 1 .. Len(runs) : runs[r].result = k - 1
    BY <1>2, <1>9 DEF Completions, IsResult
  <2>2. runs[r].result # Null /\ runs[r].result + 1 = k
    BY <2>1, ResultsAssumption
  <2>3. at[r] < k /\ journal[k].json.id = runs[r].id
    BY <2>2 DEF Completions
  <2> QED BY <1>2, <1>9, <2>1, <2>3 DEF IsResult, RunTypes
<1>10. ASSUME NEW r \in 1 .. Len(runs), runs[r].result # Null
       PROVE  /\ runs[r].result + 1 \in 1 .. Len(journal)
              /\ IsResult(Whole[runs[r].result + 1]) /\ Whole[runs[r].result + 1].id = runs[r].id
  <2> DEFINE k == runs[r].result + 1
  <2>1. k \in 1 .. Len(journal) /\ IsResult(journal[k]) /\ journal[k].json.id = runs[r].id
    BY <1>10 DEF Completions
  <2> HIDE DEF k
  <2>2. IsResult(Whole[k]) /\ Whole[k].id = runs[r].id
    BY <1>2, <2>1 DEF IsResult, RunTypes
  <2> QED BY <2>1, <2>2 DEF k
<1> QED BY <1>2, <1>4, <1>7, <1>8, <1>9, <1>10 DEF Holds

(* It is valid: nothing in it is refused. *)
LEMMA WholeIsValid ==
  ASSUME InStep
  PROVE  Valid(Whole)
<1>0. Distinct
  BY DEF InStep
<1>1. PICK at : Commands(at) /\ Completions(at)
  BY DEF InStep
<1>10. Holds(at)
  BY <1>1, WholeHolds
<1>2. /\ Len(journal) \in Nat /\ DOMAIN Whole = 1 .. Len(journal)
      /\ \A k \in 1 .. Len(journal) : Whole[k].index = k - 1 /\ Tells(Whole[k])
      /\ \A k \in 1 .. Len(journal) : Whole[k].type \in RunTypes => Whole[k].id # Null
  BY <1>10 DEF Holds
<1>3. Ordered(Whole) /\ Identified(Whole) /\ \A k \in DOMAIN Whole : Tells(Whole[k])
  BY <1>2 DEF Ordered, Identified
<1>7. \A r \in 1 .. Len(runs) :
        IsRun(Whole[at[r]]) /\ Whole[at[r]].id = runs[r].id /\ Whole[at[r]].name = runs[r].name
  BY <1>10 DEF Holds
<1>4. \A r \in 1 .. Len(runs) : at[r] \in 1 .. Len(journal) /\ IsRun(Whole[at[r]]) /\ Whole[at[r]].id = runs[r].id
  <2>1. \A r \in 1 .. Len(runs) : at[r] \in 1 .. Len(journal)
    BY <1>1 DEF Commands
  <2> QED BY <1>7, <2>1
<1>8. \A k \in 1 .. Len(journal) : IsRun(Whole[k]) => \E r \in 1 .. Len(runs) : at[r] = k
  BY <1>10 DEF Holds
<1>9. \A k \in 1 .. Len(journal) : IsResult(Whole[k]) =>
        \E r \in 1 .. Len(runs) : runs[r].result = k - 1 /\ Whole[k].id = runs[r].id /\ at[r] < k
  BY <1>10 DEF Holds
<1>5. Unambiguous(Whole)
  <2> SUFFICES ASSUME NEW j \in 1 .. Len(journal), NEW k \in 1 .. Len(journal),
                      Whole[j].type \in RunTypes, Whole[j].type = Whole[k].type, Whole[j].id = Whole[k].id
               PROVE  j = k
    BY <1>2 DEF Unambiguous
  <2>1. CASE IsRun(Whole[j])
    <3>1. IsRun(Whole[k])
      BY <2>1 DEF IsRun
    <3>2. PICK q, r \in 1 .. Len(runs) : at[q] = j /\ at[r] = k
      BY <1>8, <2>1, <3>1
    <3>3. q = r
      BY <1>0, <1>4, <3>2 DEF Distinct
    <3> QED BY <3>2, <3>3
  <2>2. CASE IsResult(Whole[j])
    <3>1. IsResult(Whole[k])
      BY <2>2 DEF IsResult
    <3>2. PICK q \in 1 .. Len(runs) : runs[q].result = j - 1 /\ Whole[j].id = runs[q].id
      BY <1>9, <2>2
    <3>3. PICK r \in 1 .. Len(runs) : runs[r].result = k - 1 /\ Whole[k].id = runs[r].id
      BY <1>9, <3>1
    <3>4. q = r
      BY <1>0, <3>2, <3>3 DEF Distinct
    <3>5. j - 1 = k - 1
      BY <3>2, <3>3, <3>4
    <3> QED BY <3>5
  <2> QED BY <2>1, <2>2 DEF IsRun, IsResult, RunTypes
<1>6. NoOrphans(Whole)
  <2> SUFFICES ASSUME NEW k \in 1 .. Len(journal), IsResult(Whole[k])
               PROVE  \E j \in 1 .. (k - 1) : IsRun(Whole[j]) /\ Whole[j].id = Whole[k].id
    BY <1>2 DEF NoOrphans
  <2>1. PICK r \in 1 .. Len(runs) : runs[r].result = k - 1 /\ Whole[k].id = runs[r].id /\ at[r] < k
    BY <1>9
  <2>2. at[r] \in 1 .. (k - 1)
    BY <1>4, <2>1
  <2> QED BY <1>4, <2>1, <2>2
<1> QED BY <1>3, <1>5, <1>6 DEF Valid

(* A command is answered with its own run's result. *)
LEMMA ResultIsOwn ==
  ASSUME InStep, NEW at, Commands(at), Completions(at), NEW r \in 1 .. Len(runs)
  PROVE  ResultFor(Whole, at[r]) = runs[r].result
<1>10. Holds(at)
  BY WholeHolds
<1> DEFINE own == {j \in DOMAIN Whole : IsResult(Whole[j]) /\ Whole[j].id = Whole[at[r]].id}
<1>1. /\ DOMAIN Whole = 1 .. Len(journal) /\ Whole[at[r]].id = runs[r].id /\ runs[r] \in RunType
      /\ \A k \in 1 .. Len(journal) : Whole[k].index = k - 1
  BY <1>10 DEF Holds
<1>2. \A j \in own : runs[r].result = j - 1 /\ j \in Nat /\ j - 1 \in Nat
  <2> SUFFICES ASSUME NEW j \in own PROVE runs[r].result = j - 1 /\ j \in Nat /\ j - 1 \in Nat
    OBVIOUS
  <2>1. j \in 1 .. Len(journal) /\ IsResult(Whole[j]) /\ Whole[j].id = runs[r].id
    BY <1>1
  <2>2. PICK q \in 1 .. Len(runs) : runs[q].result = j - 1 /\ Whole[j].id = runs[q].id
    BY <2>1, <1>10 DEF Holds
  <2>3. q = r
    BY <2>1, <2>2 DEF InStep, Distinct
  <2> QED BY <2>1, <2>2, <2>3
<1>3. CASE runs[r].result = Null
  <2>1. own = {}
    BY <1>2, <1>3, ResultsAssumption
  <2> QED BY <1>3, <2>1 DEF ResultFor
<1>4. CASE runs[r].result # Null
  <2> DEFINE k == runs[r].result + 1
  <2>1. k \in 1 .. Len(journal) /\ IsResult(Whole[k]) /\ Whole[k].id = runs[r].id
    BY <1>4, <1>10 DEF Holds
  <2>2. runs[r].result \in Nat
    BY <1>1, <1>4 DEF RunType
  <2>3. k \in own /\ Whole[k].index = runs[r].result
    BY <1>1, <2>1, <2>2
  <2>4. own = {k}
    BY <1>2, <2>2, <2>3
  <2> HIDE DEF k, own
  <2>5. (CHOOSE j \in own : \A i \in own : j <= i) = k
    <3>1. k \in Nat
      BY <2>1
    <3> QED BY <2>4, <3>1
  <2> QED BY <2>3, <2>4, <2>5 DEF ResultFor, own
<1> QED BY <1>3, <1>4

(* As many of each, one for one. *)
LEMMA AsMany ==
  ASSUME NEW S, NEW T, NEW at, IsFiniteSet(S), T = {at[q] : q \in S},
         \A q, r \in S : at[q] = at[r] => q = r
  PROVE  IsFiniteSet(T) /\ Cardinality(T) = Cardinality(S)
<1> DEFINE f == [q \in S |-> at[q]]
<1>1. f \in Bijection(S, T)
  BY DEF Bijection, Injection, Surjection, IsInjective
<1>2. ExistsBijection(S, T)
  BY <1>1 DEF ExistsBijection
<1> QED BY <1>2, FS_Bijection

(* Members of which as many come before are the same. *)
LEMMA NthIsOne ==
  ASSUME NEW S \in SUBSET Nat, IsFiniteSet(S), NEW a \in S, NEW b \in S,
         Cardinality({j \in S : j < a}) = Cardinality({j \in S : j < b})
  PROVE  a = b
<1>1. ASSUME NEW x \in S, NEW y \in S, Cardinality({j \in S : j < x}) = Cardinality({j \in S : j < y})
      PROVE  ~(x < y)
  <2> SUFFICES ASSUME x < y PROVE FALSE
    OBVIOUS
  <2> DEFINE X == {j \in S : j < x}
             Y == {j \in S : j < y}
  <2>0. x \in Nat /\ y \in Nat /\ \A j \in S : j \in Nat
    OBVIOUS
  <2>1. X \in SUBSET Y /\ Y \in SUBSET S /\ x \in Y /\ x \notin X
    <3>1. \A j \in S : j < x => j < y
      BY <2>0
    <3>2. ~(x < x)
      BY <2>0
    <3> QED BY <3>1, <3>2
  <2>2. Cardinality(X) = Cardinality(Y)
    BY <1>1
  <2> HIDE DEF X, Y
  <2>3. IsFiniteSet(Y)
    BY <2>1, FS_Subset
  <2>4. X = Y
    BY <2>1, <2>2, <2>3, FS_Subset
  <2> QED BY <2>1, <2>4
<1> QED BY <1>1

(* Where the runs of a name are, and how many are before each. *)
LEMMA RunsAreNamed ==
  ASSUME InStep, ran = runs, NEW at, Commands(at), Completions(at), NEW name
  PROVE  /\ RunsNamed(Whole, name) = {at[q] : q \in RanAs(name)}
         /\ RanAs(name) \subseteq 1 .. Len(runs) /\ IsFiniteSet(RanAs(name))
         /\ Cardinality(RunsNamed(Whole, name)) = Cardinality(RanAs(name))
         /\ \A r \in RanAs(name) :
              Cardinality({j \in RunsNamed(Whole, name) : j < at[r]}) = Cardinality({q \in RanAs(name) : q < r})
<1> DEFINE S == RanAs(name)
           T == RunsNamed(Whole, name)
<1>0. Holds(at)
  BY WholeHolds
<1>1. S \subseteq 1 .. Len(runs) /\ \A q \in 1 .. Len(runs) : q \in S <=> runs[q].name = name
  BY DEF RanAs, InStep, Written
<1>2. /\ \A q, r \in 1 .. Len(runs) : (q < r => at[q] < at[r]) /\ at[q] \in Nat
      /\ Len(runs) \in Nat
  BY <1>0 DEF Commands, Holds
<1>3. \A q, r \in 1 .. Len(runs) : (at[q] = at[r] => q = r) /\ (at[q] < at[r] => q < r)
  BY <1>2
<1>4. T = {at[q] : q \in S}
  <2>1. ASSUME NEW k \in T PROVE \E q \in S : k = at[q]
    <3>1. k \in 1 .. Len(journal) /\ IsRun(Whole[k]) /\ Whole[k].name = name
      BY <1>0 DEF RunsNamed, Holds
    <3>2. PICK q \in 1 .. Len(runs) : at[q] = k
      BY <1>0, <3>1 DEF Holds
    <3>3. Whole[at[q]].name = runs[q].name
      BY <1>0 DEF Holds
    <3> HIDE DEF S
    <3> QED BY <1>1, <3>1, <3>2, <3>3
  <2>2. ASSUME NEW q \in S PROVE at[q] \in T
    <3>1. q \in 1 .. Len(runs) /\ runs[q].name = name
      BY <1>1
    <3>2. at[q] \in DOMAIN Whole /\ IsRun(Whole[at[q]]) /\ Whole[at[q]].name = name
      BY <1>0, <3>1 DEF Holds
    <3> QED BY <3>2 DEF RunsNamed
  <2> HIDE DEF S, T
  <2> QED BY <2>1, <2>2
<1>5. IsFiniteSet(S)
  <2>1. IsFiniteSet(1 .. Len(runs))
    BY <1>2, FS_Interval
  <2> HIDE DEF S
  <2> QED BY <1>1, <2>1, FS_Subset
<1> HIDE DEF S, T
<1>6. Cardinality(T) = Cardinality(S)
  <2>1. \A q, r \in S : at[q] = at[r] => q = r
    BY <1>1, <1>3
  <2> QED BY <1>4, <1>5, <2>1, AsMany
<1>7. ASSUME NEW r \in S
      PROVE  Cardinality({j \in T : j < at[r]}) = Cardinality({q \in S : q < r})
  <2> DEFINE X == {q \in S : q < r}
             Y == {j \in T : j < at[r]}
  <2>1. Y = {at[q] : q \in X}
    <3>1. \A q \in S : at[q] < at[r] <=> q < r
      BY <1>1, <1>2, <1>3
    <3> QED BY <1>4, <3>1
  <2>2. X \in SUBSET S
    OBVIOUS
  <2>3. \A p, q \in X : at[p] = at[q] => p = q
    BY <1>1, <1>3
  <2> HIDE DEF X, Y
  <2>4. IsFiniteSet(X)
    BY <1>5, <2>2, FS_Subset
  <2>5. Cardinality(Y) = Cardinality(X)
    BY <2>1, <2>3, <2>4, AsMany
  <2> QED BY <2>5 DEF X, Y
<1> QED BY <1>1, <1>4, <1>5, <1>6, <1>7 DEF S, T

(* A journal that is intact is refused only an ambiguous question. *)
LEMMA WholeResult ==
  ASSUME InStep, ran = runs, NEW name
  PROVE  /\ run_result(Whole, name) = Refused <=> Cardinality(RanAs(name)) > 1
         /\ Cardinality(RanAs(name)) <= 1 =>
              /\ \A r \in RanAs(name) : run_result(Whole, name) = runs[r].result
              /\ RanAs(name) = {} => run_result(Whole, name) = Null
<1>1. PICK at : Commands(at) /\ Completions(at)
  BY DEF InStep
<1> DEFINE S == RanAs(name)
           T == RunsNamed(Whole, name)
<1>2. /\ T = {at[q] : q \in S} /\ S \subseteq 1 .. Len(runs) /\ IsFiniteSet(S)
      /\ Cardinality(T) = Cardinality(S)
  BY <1>1, RunsAreNamed
<1>3. \A r \in 1 .. Len(runs) : ResultFor(Whole, at[r]) = runs[r].result /\ runs[r].result # Refused
  <2>1. \A r \in 1 .. Len(runs) : ResultFor(Whole, at[r]) = runs[r].result
    BY <1>1, ResultIsOwn
  <2>2. \A r \in 1 .. Len(runs) : runs[r].result \in Nat \cup {Null}
    <3>1. runs \in Seq(RunType)
      BY DEF InStep, Written
    <3>2. \A r \in 1 .. Len(runs) : runs[r] \in RunType
      BY <3>1
    <3> QED BY <3>2 DEF RunType
  <2> QED BY <2>1, <2>2, ResultsAssumption
<1>4. run_result(Whole, name) = IF Cardinality(T) > 1 THEN Refused
                              ELSE IF T = {} THEN Null ELSE ResultFor(Whole, CHOOSE k \in T : TRUE)
  BY WholeIsValid DEF run_result
<1> HIDE DEF S, T
<1>5. Cardinality(S) \in Nat
  BY <1>2, FS_CardinalityType
<1>6. CASE Cardinality(S) > 1
  BY <1>2, <1>4, <1>5, <1>6 DEF S
<1>7. CASE Cardinality(S) <= 1
  <2>1. CASE S = {}
    <3>1. T = {} /\ ~(Cardinality(T) > 1)
      BY <1>2, <1>5, <1>7, <2>1
    <3>2. run_result(Whole, name) = Null
      BY <1>4, <3>1
    <3> QED BY <1>5, <1>7, <2>1, <3>2, ResultsAssumption DEF S
  <2>2. CASE S # {}
    <3>1. PICK r : S = {r}
      <4>1. Cardinality(S) = 1
        BY <1>2, <1>5, <1>7, <2>2, FS_EmptySet
      <4> QED BY <1>2, <4>1, FS_Singleton
    <3>2. T = {at[r]} /\ r \in 1 .. Len(runs) /\ ~(Cardinality(T) > 1)
      BY <1>2, <1>5, <1>7, <3>1
    <3>3. run_result(Whole, name) = runs[r].result /\ runs[r].result # Refused
      BY <1>3, <1>4, <3>2
    <3> QED BY <1>5, <1>7, <3>1, <3>3 DEF S
  <2> QED BY <2>1, <2>2
<1> QED BY <1>5, <1>6, <1>7

(* A question by position is never refused, and has its one answer. *)
LEMMA WholeResultAt ==
  ASSUME InStep, ran = runs, NEW name, NEW nth
  PROVE  /\ run_result_at(Whole, name, nth) # Refused
         /\ \A r \in Nth(name, nth) : run_result_at(Whole, name, nth) = runs[r].result
         /\ Nth(name, nth) = {} => run_result_at(Whole, name, nth) = Null
<1>1. PICK at : Commands(at) /\ Completions(at)
  BY DEF InStep
<1> DEFINE S == RanAs(name)
           T == RunsNamed(Whole, name)
           N == Nth(name, nth)
           M == {k \in T : Cardinality({j \in T : j < k}) = nth}
<1>2. /\ T = {at[q] : q \in S} /\ S \subseteq 1 .. Len(runs) /\ IsFiniteSet(S)
      /\ \A r \in S : Cardinality({j \in T : j < at[r]}) = Cardinality({q \in S : q < r})
  BY <1>1, RunsAreNamed
<1>3. \A r \in 1 .. Len(runs) : ResultFor(Whole, at[r]) = runs[r].result /\ runs[r].result # Refused
  <2>1. \A r \in 1 .. Len(runs) : ResultFor(Whole, at[r]) = runs[r].result
    BY <1>1, ResultIsOwn
  <2>2. \A r \in 1 .. Len(runs) : runs[r].result \in Nat \cup {Null}
    <3>1. runs \in Seq(RunType)
      BY DEF InStep, Written
    <3>2. \A r \in 1 .. Len(runs) : runs[r] \in RunType
      BY <3>1
    <3> QED BY <3>2 DEF RunType
  <2> QED BY <2>1, <2>2, ResultsAssumption
<1>4. run_result_at(Whole, name, nth) = IF M = {} THEN Null ELSE ResultFor(Whole, CHOOSE k \in M : TRUE)
  BY WholeIsValid DEF run_result_at
<1>5. N = {r \in S : Cardinality({q \in S : q < r}) = nth}
  BY DEF Nth
<1> HIDE DEF S, T
<1>6. M = {at[r] : r \in N}
  <2>1. ASSUME NEW k \in M PROVE \E r \in N : k = at[r]
    <3>1. k \in T /\ Cardinality({j \in T : j < k}) = nth
      OBVIOUS
    <3>2. PICK r \in S : k = at[r]
      BY <1>2, <3>1
    <3> HIDE DEF N
    <3> QED BY <1>2, <1>5, <3>1, <3>2
  <2>2. ASSUME NEW r \in N PROVE at[r] \in M
    <3>1. r \in S /\ Cardinality({q \in S : q < r}) = nth
      BY <1>5
    <3>2. at[r] \in T /\ Cardinality({j \in T : j < at[r]}) = nth
      BY <1>2, <3>1
    <3> QED BY <3>2
  <2> HIDE DEF M, N
  <2> QED BY <2>1, <2>2
<1>7. ASSUME NEW q \in N, NEW r \in N PROVE q = r
  <2>1. S \in SUBSET Nat
    BY <1>2
  <2>2. q \in S /\ r \in S /\ Cardinality({j \in S : j < q}) = Cardinality({j \in S : j < r})
    BY <1>5
  <2> QED BY <1>2, <2>1, <2>2, NthIsOne
<1> HIDE DEF M, N
<1>8. CASE N = {}
  <2>1. run_result_at(Whole, name, nth) = Null
    BY <1>4, <1>6, <1>8
  <2> QED BY <1>8, <2>1, ResultsAssumption DEF N
<1>9. CASE N # {}
  <2>1. PICK r : N = {r}
    BY <1>7, <1>9
  <2>2. M = {at[r]} /\ r \in 1 .. Len(runs)
    BY <1>2, <1>5, <1>6, <2>1
  <2>3. run_result_at(Whole, name, nth) = runs[r].result /\ runs[r].result # Refused
    BY <1>3, <1>4, <2>2
  <2> QED BY <2>1, <2>3 DEF N
<1> QED BY <1>8, <1>9

(* A row with a flaw is no evidence, is refused, or says what it said. *)
LEMMA FlawShows ==
  ASSUME NEW row \in RowType, Intact(row), NEW flawed \in Flawed(row), Decodes(flawed)
  PROVE  /\ flawed.raw = row.raw
         /\ \/ Entry(flawed) = Entry(row)
            \/ ~Tells(Entry(flawed))
            \/ Entry(flawed).type \in RunTypes /\ Entry(flawed).id = Null
<1>1. /\ row.type \in Supported /\ row.version = 2 /\ row.raw \in {Plain, Leaky} /\ row.index \in Nat
      /\ row.name \in Names \cup {Null} /\ row.json.id \in Ids \cup {Null}
      /\ row.json.class = row.type /\ row.json.name = row.name
      /\ row.type = "Command: Run" => row.name \in Names
      /\ row.type \notin {"Command: Unknown", Null}
      /\ Null \notin Names /\ Null # 2
  <2>1. /\ row.type \in Supported /\ row.version = 2 /\ row.raw \in {Plain, Leaky} /\ row.index \in Nat
        /\ row.name \in Names \cup {Null} /\ row.json.id \in Ids \cup {Null}
    BY DEF RowType
  <2>2. Null \notin Nat /\ Null \notin Types /\ Null \notin Names
    BY ResultsAssumption
  <2>3. row.type # "Command: Unknown" /\ row.type # Null
    BY <2>1, <2>2 DEF Supported, Types
  <2>4. Null # 2
    BY <2>2
  <2> QED BY <2>1, <2>2, <2>3, <2>4 DEF Intact
<1>2. CASE flawed \in {[row EXCEPT !.version = Null], [row EXCEPT !.version = 1]}
  <2>1. \E v \in {Null, 1} : flawed = [row EXCEPT !.version = v]
    BY <1>2
  <2>2. PICK v \in {Null, 1} : flawed = [row EXCEPT !.version = v]
    BY <2>1
  <2>3. flawed.version = v /\ flawed.raw = row.raw
    BY <2>2 DEF RowType
  <2>4. Entry(flawed).version # 2
    <3>1. Entry(flawed).version = v
      BY <2>3 DEF Entry
    <3>2. Null # 2
      BY <1>1
    <3> QED BY <2>2, <3>1, <3>2
  <2> QED BY <2>3, <2>4 DEF Tells
<1>3. CASE flawed \in {[row EXCEPT !.type = Null], [row EXCEPT !.type = "Command: Unknown"],
                       [row EXCEPT !.raw = Null]}
  <2>1. flawed.type \in {Null, "Command: Unknown"} \/ flawed.raw = Null
    BY <1>3 DEF RowType
  <2>2. flawed.version = 2
    BY <1>1, <1>3 DEF RowType
  <2> QED BY <2>1, <2>2 DEF Decodes, Supported
<1>4. CASE flawed = [row EXCEPT !.type = "Command: Input"]
  <2>1. flawed.version = 2 /\ flawed.json = row.json /\ flawed.type = "Command: Input"
    BY <1>1, <1>4 DEF RowType
  <2>2. row.json # Null
    <3>1. row.json \in [class : Types, name : Names \cup {Null}, id : Ids \cup {Null}]
      BY DEF RowType, Types
    <3> QED BY <3>1, ResultsAssumption
  <2>3. row.type = "Command: Input"
    BY <1>1, <2>1, <2>2 DEF Decodes, Classified
  <2>4. flawed = row
    BY <1>4, <2>3 DEF RowType
  <2> QED BY <2>4
<1>5. CASE flawed = [row EXCEPT !.json = Null]
  <2>1. /\ flawed.version = 2 /\ flawed.json = Null /\ flawed.type = row.type /\ flawed.raw = row.raw
        /\ flawed.index = row.index /\ flawed.name = row.name
    BY <1>1, <1>5 DEF RowType
  <2>2. CompletionId(flawed) = Null
    BY <2>1 DEF CompletionId
  <2>3. row.type \notin RunTypes => CompletionId(row) = Null
    BY DEF CompletionId
  <2> QED BY <1>1, <2>1, <2>2, <2>3 DEF Entry
<1>6. CASE flawed = [row EXCEPT !.json.class = "Command: Unknown"]
  <2>1. flawed.version = 2 /\ flawed.json = [row.json EXCEPT !.class = "Command: Unknown"] /\ flawed.type = row.type
    BY <1>1, <1>6 DEF RowType
  <2>2. flawed.json.class = "Command: Unknown" /\ flawed.json # Null
    <3>1. flawed.json \in [class : Types, name : Names \cup {Null}, id : Ids \cup {Null}]
      BY <2>1 DEF RowType, Types
    <3>2. flawed.json.class = "Command: Unknown"
      BY <2>1 DEF RowType
    <3> QED BY <3>1, <3>2, ResultsAssumption
  <2> QED BY <1>1, <2>1, <2>2 DEF Decodes, Classified
<1>7. CASE flawed = [row EXCEPT !.json.id = Null]
  <2>1. /\ flawed.version = 2 /\ flawed.json = [row.json EXCEPT !.id = Null] /\ flawed.type = row.type
        /\ flawed.raw = row.raw /\ flawed.index = row.index /\ flawed.name = row.name
    BY <1>1, <1>7 DEF RowType
  <2>2. flawed.json.id = Null
    BY <2>1 DEF RowType
  <2>3. CompletionId(flawed) = Null
    BY <2>2 DEF CompletionId
  <2>4. row.type \notin RunTypes => CompletionId(row) = Null
    BY DEF CompletionId
  <2> QED BY <1>1, <2>1, <2>3, <2>4 DEF Entry
<1>8. CASE row.type = "Command: Run" /\ \E other \in Names \cup {Null} : flawed = [row EXCEPT !.name = other]
  <2>1. PICK other \in Names \cup {Null} : flawed = [row EXCEPT !.name = other]
    BY <1>8
  <2>2. flawed.version = 2 /\ flawed.json = row.json /\ flawed.type = "Command: Run" /\ flawed.name = other
    BY <1>1, <1>8, <2>1 DEF RowType
  <2>3. row.json # Null
    <3>1. row.json \in [class : Types, name : Names \cup {Null}, id : Ids \cup {Null}]
      BY DEF RowType, Types
    <3> QED BY <3>1, ResultsAssumption
  <2>4. row.name \in Names
    BY <1>1, <1>8
  <2>5. other = row.name
    BY <1>1, <2>2, <2>3, <2>4 DEF Decodes
  <2>6. flawed = row
    BY <2>1, <2>5 DEF RowType
  <2> QED BY <2>6
<1> QED BY <1>2, <1>3, <1>4, <1>5, <1>6, <1>7, <1>8 DEF Flawed

(* Rows read in place of the journal: one is flawed, two have changed places, *)
(* one is there twice, or the command of a run that is over is not there.     *)
OneFlawed(rows) ==
  \E k \in 1 .. Len(journal) : \E row \in Flawed(journal[k]) : rows = [journal EXCEPT ![k] = row]

TwoSwapped(rows) ==
  \E k \in 1 .. (Len(journal) - 1) : rows = [journal EXCEPT ![k] = journal[k + 1], ![k + 1] = journal[k]]

OneTwice(rows) ==
  /\ DOMAIN rows = 1 .. (Len(journal) + 1)
  /\ \E k \in 1 .. Len(journal) :
       \A i \in 1 .. (Len(journal) + 1) : rows[i] = journal[IF i <= k THEN i ELSE i - 1]

OneLess(rows) ==
  /\ DOMAIN rows = 1 .. (Len(journal) - 1)
  /\ \E k \in 1 .. Len(journal) :
       /\ \A i \in 1 .. (Len(journal) - 1) : rows[i] = journal[IF i < k THEN i ELSE i + 1]
       /\ IsRun(journal[k])
       /\ \E r \in 1 .. Len(runs) : runs[r].id = journal[k].json.id /\ runs[r].result # Null

LEMMA DamageIs ==
  ASSUME Written, NEW rows \in Damaged
  PROVE  OneFlawed(rows) \/ TwoSwapped(rows) \/ OneTwice(rows) \/ OneLess(rows)
<1> DEFINE n == Len(journal)
<1>1. /\ n \in Nat /\ DOMAIN journal = 1 .. n /\ DOMAIN runs = 1 .. Len(runs)
      /\ journal \in Seq(RowType) /\ \A i \in 1 .. n : journal[i] \in RowType
  BY DEF Written
<1>2. ASSUME NEW k \in 1 .. n, rows = SubSeq(journal, 1, k) \o SubSeq(journal, k, n) PROVE OneTwice(rows)
  <2> DEFINE a == SubSeq(journal, 1, k)
             b == SubSeq(journal, k, n)
  <2>1. /\ a \in Seq(RowType) /\ Len(a) = k /\ \A i \in 1 .. k : a[i] = journal[i]
        /\ b \in Seq(RowType) /\ Len(b) = n - k + 1 /\ \A i \in 1 .. (n - k + 1) : b[i] = journal[k + i - 1]
    BY <1>1
  <2> HIDE DEF a, b, n
  <2>2. /\ a \o b \in Seq(RowType) /\ Len(a \o b) = n + 1
        /\ \A i \in 1 .. (n + 1) : (a \o b)[i] = IF i <= k THEN a[i] ELSE b[i - k]
    <3>1. /\ a \o b \in Seq(RowType) /\ Len(a \o b) = Len(a) + Len(b)
          /\ \A i \in 1 .. (Len(a) + Len(b)) : (a \o b)[i] = IF i <= Len(a) THEN a[i] ELSE b[i - Len(a)]
      BY <2>1, ConcatProperties
    <3>2. Len(a) + Len(b) = n + 1
      BY <1>1, <2>1
    <3> QED BY <2>1, <3>1, <3>2
  <2>3. rows = a \o b
    BY <1>2 DEF a, b, n
  <2>4. DOMAIN rows = 1 .. (n + 1)
    BY <2>2, <2>3
  <2>5. \A i \in 1 .. (n + 1) : rows[i] = journal[IF i <= k THEN i ELSE i - 1]
    <3> SUFFICES ASSUME NEW i \in 1 .. (n + 1) PROVE rows[i] = journal[IF i <= k THEN i ELSE i - 1]
      OBVIOUS
    <3>1. CASE i <= k
      BY <1>1, <2>1, <2>2, <2>3, <3>1
    <3>2. CASE ~(i <= k)
      <4>1. i - k \in 1 .. (n - k + 1) /\ k + (i - k) - 1 = i - 1
        BY <1>1, <3>2
      <4>2. rows[i] = b[i - k]
        BY <2>2, <2>3, <3>2
      <4>3. b[i - k] = journal[k + (i - k) - 1]
        BY <2>1, <4>1
      <4> QED BY <3>2, <4>1, <4>2, <4>3
    <3> QED BY <3>1, <3>2
  <2> QED BY <2>4, <2>5 DEF OneTwice, n
<1>3. ASSUME NEW k \in 1 .. n, rows = Without(journal, k)
      PROVE  /\ DOMAIN rows = 1 .. (n - 1)
             /\ \A i \in 1 .. (n - 1) : rows[i] = journal[IF i < k THEN i ELSE i + 1]
  <2> DEFINE a == SubSeq(journal, 1, k - 1)
             b == SubSeq(journal, k + 1, n)
  <2>1. /\ a \in Seq(RowType) /\ Len(a) = k - 1 /\ \A i \in 1 .. (k - 1) : a[i] = journal[i]
        /\ b \in Seq(RowType) /\ Len(b) = n - k /\ \A i \in 1 .. (n - k) : b[i] = journal[k + i]
    <3>1. a \in Seq(RowType) /\ Len(a) = k - 1 /\ \A i \in 1 .. (k - 1) : a[i] = journal[i]
      BY <1>1
    <3> HIDE DEF n, b
    <3>0. n \in Nat /\ k \in Nat /\ 1 <= k /\ k <= n
      BY <1>1
    <3>2. /\ k + 1 \in Int /\ n \in Int /\ \A i \in (k + 1) .. n : journal[i] \in RowType
          /\ n - (k + 1) + 1 = n - k /\ \A i \in 1 .. (n - k) : (k + 1) + i - 1 = k + i
          /\ ~(k + 1 <= n) => n - k = 0
      <4>1. \A i \in (k + 1) .. n : journal[i] \in RowType
        BY <1>1, <3>0
      <4> QED BY <3>0, <4>1
    <3>3. /\ b \in Seq(RowType) /\ Len(b) = IF k + 1 <= n THEN n - (k + 1) + 1 ELSE 0
          /\ \A i \in 1 .. n - (k + 1) + 1 : b[i] = journal[(k + 1) + i - 1]
      BY <3>2, SubSeqProperties DEF b
    <3>4. Len(b) = n - k
      BY <3>2, <3>3
    <3>5. \A i \in 1 .. (n - k) : b[i] = journal[k + i]
      BY <3>2, <3>3
    <3> QED BY <3>1, <3>3, <3>4, <3>5
  <2> HIDE DEF a, b, n
  <2>2. /\ a \o b \in Seq(RowType) /\ Len(a \o b) = n - 1
        /\ \A i \in 1 .. (n - 1) : (a \o b)[i] = IF i <= k - 1 THEN a[i] ELSE b[i - (k - 1)]
    <3>1. /\ a \o b \in Seq(RowType) /\ Len(a \o b) = Len(a) + Len(b)
          /\ \A i \in 1 .. (Len(a) + Len(b)) : (a \o b)[i] = IF i <= Len(a) THEN a[i] ELSE b[i - Len(a)]
      BY <2>1, ConcatProperties
    <3>2. Len(a) + Len(b) = n - 1
      BY <1>1, <2>1
    <3> QED BY <2>1, <3>1, <3>2
  <2>3. rows = a \o b
    BY <1>3 DEF a, b, n, Without
  <2>4. DOMAIN rows = 1 .. (n - 1)
    BY <2>2, <2>3
  <2>5. \A i \in 1 .. (n - 1) : rows[i] = journal[IF i < k THEN i ELSE i + 1]
    <3> SUFFICES ASSUME NEW i \in 1 .. (n - 1) PROVE rows[i] = journal[IF i < k THEN i ELSE i + 1]
      OBVIOUS
    <3>1. CASE i < k
      BY <1>1, <2>1, <2>2, <2>3, <3>1
    <3>2. CASE ~(i < k)
      <4>1. i - (k - 1) \in 1 .. (n - k) /\ k + (i - (k - 1)) = i + 1 /\ ~(i <= k - 1)
        BY <1>1, <3>2
      <4>2. rows[i] = b[i - (k - 1)]
        BY <2>2, <2>3, <4>1
      <4>3. b[i - (k - 1)] = journal[k + (i - (k - 1))]
        BY <2>1, <4>1
      <4> QED BY <3>2, <4>1, <4>2, <4>3
    <3> QED BY <3>1, <3>2
  <2> QED BY <2>4, <2>5
<1>4. ASSUME NEW k \in 1 .. n, rows = Without(journal, k), journal[k].type = "Command: Run",
             \E r \in DOMAIN runs : runs[r].id = journal[k].json.id /\ runs[r].result # Null
      PROVE  OneLess(rows)
  BY <1>1, <1>3, <1>4 DEF OneLess, IsRun
<1> DEFINE A == UNION {{[journal EXCEPT ![k] = row] : row \in Flawed(journal[k])} : k \in DOMAIN journal}
           B == {[journal EXCEPT ![k] = journal[k + 1], ![k + 1] = journal[k]] : k \in 1 .. (Len(journal) - 1)}
           C == {SubSeq(journal, 1, k) \o SubSeq(journal, k, Len(journal)) : k \in DOMAIN journal}
           L == {j \in DOMAIN journal :
                   journal[j].type = "Command: Run" /\ \E r \in DOMAIN runs : runs[r].id = journal[j].json.id /\ runs[r].result # Null}
           D == {Without(journal, k) : k \in L}
<1>5. CASE rows \in A
  <2>1. PICK k \in 1 .. n : rows \in {[journal EXCEPT ![k] = row] : row \in Flawed(journal[k])}
    BY <1>1, <1>5
  <2> QED BY <2>1 DEF OneFlawed
<1>6. CASE rows \in B
  BY <1>6 DEF TwoSwapped
<1>7. CASE rows \in C
  BY <1>1, <1>2, <1>7
<1>8. CASE rows \in D
  <2>1. PICK k \in L : rows = Without(journal, k)
    BY <1>8
  <2> QED BY <1>1, <1>4, <2>1
<1>9. Damaged = A \cup B \cup C \cup D
  BY DEF Damaged
<1> HIDE DEF A, B, C, D
<1> QED BY <1>5, <1>6, <1>7, <1>8, <1>9

(* Rows that decode have entries, one for one. *)
LEMMA EntriesAre ==
  ASSUME NEW rows, Entries(rows) # Refused
  PROVE  /\ Entries(rows) = [k \in DOMAIN rows |-> Entry(rows[k])]
         /\ \A k \in DOMAIN rows : Decodes(rows[k])
  BY DEF Entries

(* Damaged rows that are a valid journal are read as the journal. *)
LEMMA ValidIsWhole ==
  ASSUME InStep, NEW rows \in Damaged, Entries(rows) # Refused, Valid(Entries(rows))
  PROVE  Entries(rows) = Whole
<1> DEFINE n == Len(journal)
           E == Entries(rows)
<1>1. Written /\ Distinct
  BY DEF InStep
<1>2. /\ n \in Nat /\ DOMAIN journal = 1 .. n /\ DOMAIN Whole = 1 .. n
      /\ \A k \in 1 .. n : /\ journal[k] \in RowType /\ Intact(journal[k])
                           /\ Whole[k] = Entry(journal[k]) /\ Whole[k].index = k - 1
  BY <1>1, WholeIs DEF Written, Whole
<1>3. E = [k \in DOMAIN rows |-> Entry(rows[k])] /\ \A k \in DOMAIN rows : Decodes(rows[k])
  BY EntriesAre
<1>4. /\ \A k \in DOMAIN E : Tells(E[k])
      /\ Ordered(E) /\ Identified(E) /\ NoOrphans(E)
  BY DEF Valid
<1> HIDE DEF n, E
<1>5. CASE OneFlawed(rows)
  <2>1. PICK k \in 1 .. n : \E row \in Flawed(journal[k]) : rows = [journal EXCEPT ![k] = row]
    BY <1>5 DEF OneFlawed, n
  <2>2. PICK row \in Flawed(journal[k]) : rows = [journal EXCEPT ![k] = row]
    BY <2>1
  <2>3. DOMAIN rows = 1 .. n /\ rows[k] = row /\ \A i \in 1 .. n : i # k => rows[i] = journal[i]
    BY <1>2, <2>2
  <2>4. E[k] = Entry(row) /\ Decodes(row)
    BY <1>3, <2>3
  <2>5. Tells(E[k]) /\ (E[k].type \in RunTypes => E[k].id # Null)
    BY <1>3, <1>4, <2>3 DEF Identified
  <2>6. Entry(row) = Entry(journal[k])
    BY <1>2, <2>4, <2>5, FlawShows
  <2>7. \A i \in 1 .. n : Entry(rows[i]) = Entry(journal[i])
    BY <2>3, <2>6
  <2> QED BY <1>2, <1>3, <2>3, <2>7 DEF Whole, n, E
<1>6. CASE TwoSwapped(rows)
  <2>1. PICK k \in 1 .. (n - 1) : rows = [journal EXCEPT ![k] = journal[k + 1], ![k + 1] = journal[k]]
    BY <1>6 DEF TwoSwapped, n
  <2>2. k \in 1 .. n /\ k + 1 \in 1 .. n /\ k # k + 1 /\ k < k + 1
    BY <1>2
  <2>3. DOMAIN rows = 1 .. n /\ rows[k] = journal[k + 1] /\ rows[k + 1] = journal[k]
    BY <1>2, <2>1, <2>2
  <2>4. DOMAIN E = 1 .. n /\ E[k] = Whole[k + 1] /\ E[k + 1] = Whole[k]
    BY <1>2, <1>3, <2>2, <2>3
  <2>5. E[k].index = k /\ E[k + 1].index = k - 1
    BY <1>2, <2>2, <2>4
  <2>6. E[k].index < E[k + 1].index
    BY <1>4, <2>2, <2>4 DEF Ordered
  <2> QED BY <2>2, <2>5, <2>6
<1>7. CASE OneTwice(rows)
  <2>1. DOMAIN rows = 1 .. (n + 1)
    BY <1>7 DEF OneTwice, n
  <2>2. PICK k \in 1 .. n : \A i \in 1 .. (n + 1) : rows[i] = journal[IF i <= k THEN i ELSE i - 1]
    BY <1>7 DEF OneTwice, n
  <2>3. k \in 1 .. (n + 1) /\ k + 1 \in 1 .. (n + 1) /\ k < k + 1 /\ ~(k + 1 <= k) /\ (k + 1) - 1 = k
    BY <1>2
  <2>4. rows[k] = journal[k] /\ rows[k + 1] = journal[k]
    BY <2>2, <2>3
  <2>5. DOMAIN E = 1 .. (n + 1) /\ E[k] = Whole[k] /\ E[k + 1] = Whole[k]
    BY <1>2, <1>3, <2>1, <2>3, <2>4
  <2>6. E[k].index = k - 1 /\ E[k + 1].index = k - 1
    BY <1>2, <2>5
  <2>7. E[k].index < E[k + 1].index
    BY <1>4, <2>3, <2>5 DEF Ordered
  <2> QED BY <2>3, <2>6, <2>7
<1>8. CASE OneLess(rows)
  <2>1. DOMAIN rows = 1 .. (n - 1)
    BY <1>8 DEF OneLess, n
  <2>2. PICK k \in 1 .. n :
          /\ \A i \in 1 .. (n - 1) : rows[i] = journal[IF i < k THEN i ELSE i + 1]
          /\ IsRun(journal[k])
          /\ \E r \in 1 .. Len(runs) : runs[r].id = journal[k].json.id /\ runs[r].result # Null
    BY <1>8 DEF OneLess, n
  <2>3. PICK r \in 1 .. Len(runs) : runs[r].id = journal[k].json.id /\ runs[r].result # Null
    BY <2>2
  <2>4. PICK at : Commands(at) /\ Completions(at)
    BY DEF InStep
  <2>5. Holds(at)
    BY <2>4, WholeHolds
  <2> DEFINE K == runs[r].result + 1
  <2>6. K \in 1 .. n /\ IsResult(Whole[K]) /\ Whole[K].id = runs[r].id /\ at[r] < K /\ at[r] \in 1 .. n
    <3>1. K \in 1 .. n /\ at[r] < K
      BY <2>3, <2>4 DEF Completions, n
    <3> QED BY <2>3, <2>5, <3>1 DEF Holds, n
  <2> HIDE DEF K
  <2>7. \A j \in 1 .. n : IsRun(Whole[j]) /\ Whole[j].id = runs[r].id => j = at[r]
    <3> SUFFICES ASSUME NEW j \in 1 .. n, IsRun(Whole[j]), Whole[j].id = runs[r].id PROVE j = at[r]
      OBVIOUS
    <3>1. PICK q \in 1 .. Len(runs) : at[q] = j
      BY <2>5 DEF Holds, n
    <3>2. Whole[at[q]].id = runs[q].id
      BY <2>5 DEF Holds
    <3>3. q = r
      BY <1>1, <3>1, <3>2 DEF Distinct
    <3> QED BY <3>1, <3>3
  <2>8. k = at[r]
    <3>1. IsRun(Whole[k]) /\ Whole[k].id = runs[r].id
      BY <1>1, <1>2, <2>2, <2>3, WholeIs DEF IsRun, RunTypes, n
    <3> QED BY <2>7, <3>1
  <2>9. K - 1 \in 1 .. (n - 1) /\ ~(K - 1 < k) /\ (K - 1) + 1 = K
    BY <1>2, <2>6, <2>8
  <2>10. rows[K - 1] = journal[K]
    BY <2>2, <2>9
  <2>11. \A i \in 1 .. (n - 1) : E[i] = Whole[IF i < k THEN i ELSE i + 1]
    <3>1. \A i \in 1 .. (n - 1) : (IF i < k THEN i ELSE i + 1) \in 1 .. n
      BY <1>2
    <3> QED BY <1>2, <1>3, <2>1, <2>2, <3>1
  <2>12. DOMAIN E = 1 .. (n - 1)
    BY <1>3, <2>1
  <2>13. E[K - 1] = Whole[K]
    BY <2>9, <2>11
  <2>14. PICK j \in 1 .. ((K - 1) - 1) : IsRun(E[j]) /\ E[j].id = E[K - 1].id
    BY <1>4, <2>6, <2>9, <2>12, <2>13 DEF NoOrphans
  <2> DEFINE i == IF j < k THEN j ELSE j + 1
  <2>15. j \in 1 .. (n - 1) /\ i \in 1 .. n /\ i # k
    BY <1>2, <2>9
  <2>16. E[j] = Whole[i]
    BY <2>11, <2>15
  <2> HIDE DEF i
  <2> QED BY <2>6, <2>7, <2>8, <2>13, <2>14, <2>15, <2>16
<1> QED BY <1>1, <1>5, <1>6, <1>7, <1>8, DamageIs

(* What was read of the journal, whole or damaged. *)
Evidence(rows) == (rows = journal \/ rows \in Damaged) /\ Entries(rows) # Refused

(* The bytes of every row that matters are read, whatever the damage. *)
LEMMA BytesAreRead ==
  ASSUME Written, NEW rows, Evidence(rows)
  PROVE  /\ \A k \in DOMAIN rows : rows[k].raw \in {Plain, Leaky}
         /\ (\E k \in DOMAIN rows : rows[k].raw = Leaky) <=> (\E k \in 1 .. Len(journal) : journal[k].raw = Leaky)
<1> DEFINE n == Len(journal)
<1>1. /\ n \in Nat /\ DOMAIN journal = 1 .. n
      /\ \A k \in 1 .. n : journal[k] \in RowType /\ Intact(journal[k]) /\ journal[k].raw \in {Plain, Leaky}
  <2>1. n \in Nat /\ DOMAIN journal = 1 .. n /\ \A k \in 1 .. n : journal[k] \in RowType /\ Intact(journal[k])
    BY DEF Written
  <2>2. \A row \in RowType : row.raw \in {Plain, Leaky}
    BY DEF RowType
  <2> QED BY <2>1, <2>2
<1>2. \A k \in DOMAIN rows : Decodes(rows[k])
  BY EntriesAre DEF Evidence
<1> HIDE DEF n
<1> DEFINE FromIt == \A k \in DOMAIN rows : \E j \in 1 .. n : rows[k].raw = journal[j].raw
           InIt == \A j \in 1 .. n : journal[j].raw = Leaky => \E k \in DOMAIN rows : rows[k].raw = journal[j].raw
<1>3. ASSUME FromIt, InIt
       PROVE  /\ \A k \in DOMAIN rows : rows[k].raw \in {Plain, Leaky}
              /\ (\E k \in DOMAIN rows : rows[k].raw = Leaky) <=> (\E k \in 1 .. n : journal[k].raw = Leaky)
  <2>1. ASSUME NEW k \in DOMAIN rows PROVE \E j \in 1 .. n : rows[k].raw = journal[j].raw
    BY <1>3
  <2>2. ASSUME NEW j \in 1 .. n, journal[j].raw = Leaky PROVE \E k \in DOMAIN rows : rows[k].raw = Leaky
    BY <1>3, <2>2
  <2> HIDE DEF FromIt, InIt
  <2>3. \A k \in DOMAIN rows : rows[k].raw \in {Plain, Leaky}
    BY <1>1, <2>1
  <2>4. (\E k \in DOMAIN rows : rows[k].raw = Leaky) => (\E k \in 1 .. n : journal[k].raw = Leaky)
    BY <2>1
  <2> QED BY <2>2, <2>3, <2>4
<1> SUFFICES FromIt /\ InIt
  <2> HIDE DEF FromIt, InIt
  <2> QED BY <1>3 DEF n
<1>4. CASE rows = journal
  BY <1>1, <1>4
<1>5. CASE OneFlawed(rows)
  <2>1. PICK k \in 1 .. n : \E row \in Flawed(journal[k]) : rows = [journal EXCEPT ![k] = row]
    BY <1>5 DEF OneFlawed, n
  <2>2. PICK row \in Flawed(journal[k]) : rows = [journal EXCEPT ![k] = row]
    BY <2>1
  <2>3. DOMAIN rows = 1 .. n /\ rows[k] = row /\ \A i \in 1 .. n : i # k => rows[i] = journal[i]
    BY <1>1, <2>2
  <2>4. row.raw = journal[k].raw
    BY <1>1, <1>2, <2>3, FlawShows
  <2>5. \A i \in 1 .. n : rows[i].raw = journal[i].raw
    BY <2>3, <2>4
  <2> QED BY <2>3, <2>5
<1>6. CASE TwoSwapped(rows)
  <2>1. PICK k \in 1 .. (n - 1) : rows = [journal EXCEPT ![k] = journal[k + 1], ![k + 1] = journal[k]]
    BY <1>6 DEF TwoSwapped, n
  <2>2. k \in 1 .. n /\ k + 1 \in 1 .. n /\ k # k + 1
    BY <1>1
  <2>3. /\ DOMAIN rows = 1 .. n /\ rows[k] = journal[k + 1] /\ rows[k + 1] = journal[k]
        /\ \A i \in 1 .. n : i # k /\ i # k + 1 => rows[i] = journal[i]
    BY <1>1, <2>1, <2>2
  <2> QED BY <2>2, <2>3
<1>7. CASE OneTwice(rows)
  <2>1. DOMAIN rows = 1 .. (n + 1)
    BY <1>7 DEF OneTwice, n
  <2>2. PICK k \in 1 .. n : \A i \in 1 .. (n + 1) : rows[i] = journal[IF i <= k THEN i ELSE i - 1]
    BY <1>7 DEF OneTwice, n
  <2>3. \A i \in 1 .. (n + 1) : (IF i <= k THEN i ELSE i - 1) \in 1 .. n
    BY <1>1
  <2>4. ASSUME NEW j \in 1 .. n PROVE \E i \in 1 .. (n + 1) : rows[i] = journal[j]
    <3>1. CASE j <= k
      <4>1. j \in 1 .. (n + 1) /\ rows[j] = journal[j]
        BY <1>1, <2>2, <3>1
      <4> QED BY <4>1
    <3>2. CASE ~(j <= k)
      <4>1. j + 1 \in 1 .. (n + 1) /\ ~(j + 1 <= k) /\ (j + 1) - 1 = j
        BY <1>1, <3>2
      <4>2. rows[j + 1] = journal[j]
        BY <2>2, <4>1
      <4> QED BY <4>1, <4>2
    <3> QED BY <3>1, <3>2
  <2> QED BY <2>1, <2>2, <2>3, <2>4
<1>8. CASE OneLess(rows)
  <2>1. DOMAIN rows = 1 .. (n - 1)
    BY <1>8 DEF OneLess, n
  <2>2. PICK k \in 1 .. n :
          /\ \A i \in 1 .. (n - 1) : rows[i] = journal[IF i < k THEN i ELSE i + 1]
          /\ IsRun(journal[k])
    BY <1>8 DEF OneLess, n
  <2>3. \A i \in 1 .. (n - 1) : (IF i < k THEN i ELSE i + 1) \in 1 .. n
    BY <1>1
  <2>4. journal[k].raw = Plain /\ Plain # Leaky
    <3>1. Plain # Leaky
      BY ResultsAssumption
    <3>2. journal[k].type # "Notification: Run"
      BY <2>2 DEF IsRun
    <3> QED BY <1>1, <3>1, <3>2 DEF Intact
  <2>5. ASSUME NEW j \in 1 .. n, journal[j].raw = Leaky PROVE \E i \in 1 .. (n - 1) : rows[i] = journal[j]
    <3>0. j # k
      BY <2>4, <2>5
    <3>1. CASE j < k
      <4>1. j \in 1 .. (n - 1) /\ rows[j] = journal[j]
        BY <1>1, <2>2, <3>1
      <4> QED BY <4>1
    <3>2. CASE ~(j < k)
      <4>1. j - 1 \in 1 .. (n - 1) /\ ~(j - 1 < k) /\ (j - 1) + 1 = j
        BY <1>1, <3>0, <3>2
      <4>2. rows[j - 1] = journal[j]
        BY <2>2, <4>1
      <4> QED BY <4>1, <4>2
    <3> QED BY <3>1, <3>2
  <2> QED BY <2>1, <2>2, <2>3, <2>5
<1> QED BY <1>4, <1>5, <1>6, <1>7, <1>8, DamageIs DEF Evidence

(* A leak check finds a leak exactly where a run leaked. *)
LEMMA LeaksAreSeen ==
  ASSUME InStep, NEW rows, Evidence(rows)
  PROVE  Leaks(Entries(rows), Secret) <=> \E r \in 1 .. Len(runs) : runs[r].leak
<1> DEFINE E == Entries(rows)
<1>1. E = [k \in DOMAIN rows |-> Entry(rows[k])]
  BY EntriesAre DEF Evidence
<1>2. Written
  BY DEF InStep
<1>3. PICK at : Commands(at) /\ Completions(at)
  BY DEF InStep
<1>4. Leaky # Plain
  BY ResultsAssumption
<1>5. \A k \in DOMAIN rows : E[k].raw = rows[k].raw /\ rows[k].raw \in {Plain, Leaky}
  BY <1>1, <1>2, BytesAreRead DEF Entry
<1>6. \A k \in DOMAIN rows : raw_contains(E[k], Secret) <=> rows[k].raw = Leaky
  <2> SUFFICES ASSUME NEW k \in DOMAIN rows PROVE raw_contains(E[k], Secret) <=> rows[k].raw = Leaky
    OBVIOUS
  <2> HIDE DEF E
  <2>1. CASE rows[k].raw = Leaky
    <3>1. raw_contains([raw |-> Leaky], Secret)
      BY ResultsAssumption
    <3>2. raw_contains(E[k], Secret)
      BY <1>5, <2>1, <3>1 DEF raw_contains
    <3> QED BY <2>1, <3>2
  <2>2. CASE rows[k].raw = Plain
    <3>1. ~raw_contains([raw |-> Plain], Secret)
      BY ResultsAssumption
    <3>2. ~raw_contains(E[k], Secret)
      BY <1>5, <2>2, <3>1 DEF raw_contains
    <3> QED BY <1>4, <2>2, <3>2
  <2> QED BY <1>5, <2>1, <2>2
<1>7. Leaks(E, Secret) <=> \E k \in 1 .. Len(journal) : journal[k].raw = Leaky
  <2>1. DOMAIN E = DOMAIN rows
    BY <1>1
  <2> HIDE DEF E
  <2>2. Leaks(E, Secret) <=> \E k \in DOMAIN rows : rows[k].raw = Leaky
    BY <1>6, <2>1 DEF Leaks
  <2> QED BY <1>2, <2>2, BytesAreRead
<1>8. ASSUME NEW k \in 1 .. Len(journal), journal[k].raw = Leaky
      PROVE  \E r \in 1 .. Len(runs) : runs[r].leak
  <2>1. IsResult(journal[k])
    BY <1>2, <1>4, <1>8 DEF Written, Intact, IsResult
  <2>2. PICK r \in 1 .. Len(runs) : runs[r].result = k - 1
    BY <1>3, <2>1 DEF Completions
  <2>3. runs[r].result # Null /\ runs[r].result + 1 = k
    BY <2>2, ResultsAssumption
  <2> QED BY <1>3, <1>8, <2>3 DEF Completions
<1>9. ASSUME NEW r \in 1 .. Len(runs), runs[r].leak
      PROVE  \E k \in 1 .. Len(journal) : journal[k].raw = Leaky
  <2>1. runs[r].result # Null
    BY <1>3, <1>9 DEF Completions
  <2> DEFINE k == runs[r].result + 1
  <2>2. k \in 1 .. Len(journal) /\ journal[k].raw = Leaky
    BY <1>3, <1>9, <2>1 DEF Completions
  <2> QED BY <2>2
<1> QED BY <1>7, <1>8, <1>9

-----------------------------------------------------------------------------
(* The names of runs are listed by a fold (Named): what it makes of one more *)
(* name is what Keep makes of it.                                            *)

(* Induction, of a set in place of a predicate: there is no least exception. *)
LEMMA SetInduction ==
  ASSUME NEW S, 0 \in S, \A n \in Nat : n \in S => n + 1 \in S
  PROVE  Nat \subseteq S
<1> DEFINE T == Nat \ S
<1> SUFFICES ASSUME T # {} PROVE FALSE
  OBVIOUS
<1>1. \A x, y \in Nat : x < y => <<x, y>> \in OpToRel(<, Nat)
  BY DEF OpToRel
<1>2. \E x \in T : \A y \in T : ~(<<y, x>> \in OpToRel(<, Nat))
  <2>1. T \subseteq Nat
    OBVIOUS
  <2> HIDE DEF T
  <2> QED BY <2>1, NatLessThanWellFounded, WFMin
<1>3. PICK x \in T : \A y \in T : ~(y < x)
  BY <1>1, <1>2
<1>4. x - 1 \in T /\ x - 1 < x
  BY <1>3
<1> QED BY <1>3, <1>4
(* The names that are passed over: iter is what was kept of those at s.      *)
Unrolls(iter, n, names) ==
  iter = [s \in SUBSET (1 .. n) |->
            IF s = {} THEN <<>> ELSE Keep(iter[s \ {Max(s)}], names[Max(s)])]

(* Before the first of a sequence there is none. *)
LEMMA NoneYet == \A s \in SUBSET (1 .. 0) : s = {}
  OBVIOUS

(* The largest member of a set is the last it reaches. *)
LEMMA MaxIsLast ==
  ASSUME NEW n \in Nat, NEW s \in SUBSET (1 .. (n + 1)), n + 1 \in s
  PROVE  Max(s) = n + 1
<1>1. \E x \in s : \A y \in s : x >= y
  OBVIOUS
<1>2. Max(s) \in s /\ \A y \in s : Max(s) >= y
  BY <1>1 DEF Max
<1>3. Max(s) \in 1 .. (n + 1) /\ Max(s) >= n + 1
  BY <1>2
<1> QED BY <1>3

(* What such a function is, at each set. *)
LEMMA UnrollsAt ==
  ASSUME NEW n \in Nat, NEW iter, NEW names, Unrolls(iter, n, names)
  PROVE  \A s \in SUBSET (1 .. n) :
           /\ s = {} => iter[s] = <<>>
           /\ s # {} => iter[s] = Keep(iter[s \ {Max(s)}], names[Max(s)])
<1> DEFINE step(t) == IF t = {} THEN <<>> ELSE Keep(iter[t \ {Max(t)}], names[Max(t)])
<1>1. iter = [t \in SUBSET (1 .. n) |-> step(t)]
  BY DEF Unrolls
<1> HIDE DEF step
<1>2. \A s \in SUBSET (1 .. n) : iter[s] = step(s)
  BY <1>1
<1> QED BY <1>2 DEF step

(* There is such a function, for any number of names. *)
LEMMA FoldExists ==
  ASSUME NEW names
  PROVE  \A n \in Nat : \E iter : Unrolls(iter, n, names)
<1> DEFINE S == {n \in Nat : \E iter : Unrolls(iter, n, names)}
<1>1. 0 \in S
  <2> DEFINE iter == [s \in SUBSET (1 .. 0) |-> <<>>]
  <2>1. \A s \in SUBSET (1 .. 0) : s = {}
    BY NoneYet
  <2> DEFINE same == [s \in SUBSET (1 .. 0) |->
                        IF s = {} THEN <<>> ELSE Keep(iter[s \ {Max(s)}], names[Max(s)])]
  <2>2. iter = same
    BY <2>1
  <2> HIDE DEF iter
  <2>3. Unrolls(iter, 0, names)
    BY <2>2, Zenon DEF Unrolls
  <2> QED BY <2>3
<1>2. ASSUME NEW n \in Nat, n \in S PROVE n + 1 \in S
  <2>1. PICK iter : Unrolls(iter, n, names)
    BY <1>2
  <2>0. \A s \in SUBSET (1 .. n) :
          /\ s = {} => iter[s] = <<>>
          /\ s # {} => iter[s] = Keep(iter[s \ {Max(s)}], names[Max(s)])
    <3> HIDE DEF S
    <3> QED BY <2>1, UnrollsAt
  <2> DEFINE longer == [s \in SUBSET (1 .. (n + 1)) |->
                          IF n + 1 \in s THEN Keep(iter[s \ {n + 1}], names[n + 1]) ELSE iter[s]]
  <2>2. ASSUME NEW s \in SUBSET (1 .. (n + 1)), n + 1 \in s
        PROVE  longer[s] = Keep(longer[s \ {Max(s)}], names[Max(s)]) /\ s # {}
    <3>1. Max(s) = n + 1
      BY <2>2, MaxIsLast
    <3>2. longer[s \ {n + 1}] = iter[s \ {n + 1}]
      OBVIOUS
    <3> QED BY <2>2, <3>1, <3>2
  <2>3. ASSUME NEW s \in SUBSET (1 .. (n + 1)), n + 1 \notin s
        PROVE  longer[s] = IF s = {} THEN <<>> ELSE Keep(longer[s \ {Max(s)}], names[Max(s)])
    <3>1. s \in SUBSET (1 .. n)
      <4>1. \A x \in s : x \in 1 .. (n + 1) /\ x # n + 1
        BY <2>3
      <4>2. \A x \in s : x \in 1 .. n
        BY <4>1
      <4> QED BY <4>2
    <3>0. s \ {Max(s)} \in SUBSET (1 .. n) /\ n + 1 \notin s \ {Max(s)}
      BY <2>3, <3>1
    <3>2. longer[s] = iter[s] /\ longer[s \ {Max(s)}] = iter[s \ {Max(s)}]
      <4>1. s \ {Max(s)} \in SUBSET (1 .. (n + 1))
        OBVIOUS
      <4> QED BY <2>3, <3>0, <4>1
    <3>3. /\ s = {} => iter[s] = <<>>
          /\ s # {} => iter[s] = Keep(iter[s \ {Max(s)}], names[Max(s)])
      <4> HIDE DEF longer, S
      <4> QED BY <2>0, <3>1
    <3> QED BY <3>2, <3>3
  <2>4. Unrolls(longer, n + 1, names)
    <3>1. \A s \in SUBSET (1 .. (n + 1)) :
            longer[s] = IF s = {} THEN <<>> ELSE Keep(longer[s \ {Max(s)}], names[Max(s)])
      BY <2>2, <2>3
    <3> DEFINE same == [s \in SUBSET (1 .. (n + 1)) |->
                          IF s = {} THEN <<>> ELSE Keep(longer[s \ {Max(s)}], names[Max(s)])]
    <3>2. longer = [s \in SUBSET (1 .. (n + 1)) |-> longer[s]]
      OBVIOUS
    <3> HIDE DEF longer
    <3>3. longer = same
      BY <3>1, <3>2
    <3> QED BY <3>3 DEF Unrolls
  <2> HIDE DEF longer
  <2> QED BY <2>4
<1> HIDE DEF S
<1>3. Nat \subseteq S
  BY <1>1, <1>2, SetInduction
<1> QED BY <1>3 DEF S

(* Named is one, after the last name. *)
LEMMA FoldUnrolls ==
  ASSUME NEW names, NEW n \in Nat, DOMAIN names = 1 .. n
  PROVE  \E iter : Unrolls(iter, n, names) /\ Named(names) = iter[1 .. n]
<1> DEFINE iter == CHOOSE f : Unrolls(f, n, names)
<1>1. \E f : Unrolls(f, n, names)
  BY FoldExists
<1>2. Unrolls(iter, n, names)
  BY <1>1
<1>3. Named(names) = iter[1 .. n]
  BY DEF Named, FoldLeft, MapThenFoldSet, Unrolls
<1> HIDE DEF iter
<1> QED BY <1>2, <1>3

(* What is kept, one name after the other. *)
KeepsInTurn(after, n, names) ==
  after[0] = <<>> /\ \A m \in 0 .. (n - 1) : after[m + 1] = Keep(after[m], names[m + 1])

(* Named keeps one name after the other, from none. *)
LEMMA NamedInTurn ==
  ASSUME NEW names, NEW n \in Nat, DOMAIN names = 1 .. n
  PROVE  \E after : KeepsInTurn(after, n, names) /\ Named(names) = after[n]
<1>1. PICK iter : Unrolls(iter, n, names) /\ Named(names) = iter[1 .. n]
  BY FoldUnrolls
<1>2. \A s \in SUBSET (1 .. n) :
        /\ s = {} => iter[s] = <<>>
        /\ s # {} => iter[s] = Keep(iter[s \ {Max(s)}], names[Max(s)])
  BY <1>1, UnrollsAt
<1> DEFINE after == [m \in 0 .. n |-> iter[1 .. m]]
<1>3. after[0] = <<>>
  <2>1. 1 .. 0 = {}
    OBVIOUS
  <2>2. {} \in SUBSET (1 .. n)
    OBVIOUS
  <2>3. iter[{}] = <<>>
    BY <1>2, <2>2
  <2> QED BY <2>1, <2>3
<1>4. ASSUME NEW m \in 0 .. (n - 1) PROVE after[m + 1] = Keep(after[m], names[m + 1])
  <2> DEFINE s == 1 .. (m + 1)
  <2>1. \A x \in s : x \in 1 .. n
    OBVIOUS
  <2>2. s \in SUBSET (1 .. n)
    BY <2>1
  <2>3. m + 1 \in s /\ s \in SUBSET (1 .. (m + 1)) /\ m \in Nat
    OBVIOUS
  <2>4. Max(s) = m + 1
    BY <2>3, MaxIsLast
  <2>5. s \ {m + 1} = 1 .. m
    OBVIOUS
  <2>6. iter[s] = Keep(iter[s \ {Max(s)}], names[Max(s)])
    BY <1>2, <2>2, <2>3
  <2>7. m \in 0 .. n /\ m + 1 \in 0 .. n
    OBVIOUS
  <2> QED BY <2>4, <2>5, <2>6, <2>7
<1> HIDE DEF after
<1>5. KeepsInTurn(after, n, names)
  BY <1>3, <1>4 DEF KeepsInTurn
<1>6. after[n] = iter[1 .. n]
  BY DEF after
<1> QED BY <1>1, <1>5, <1>6

(* One name more is kept last, or not at all. *)
LEMMA OneMoreName ==
  ASSUME NEW S, NEW names \in Seq(S), NEW name
  PROVE  Named(Append(names, name)) = Keep(Named(names), name)
<1> DEFINE n == Len(names)
           more == Append(names, name)
<1>1. n \in Nat /\ DOMAIN names = 1 .. n /\ DOMAIN more = 1 .. (n + 1)
      /\ more[n + 1] = name /\ \A m \in 1 .. n : more[m] = names[m]
  <2>1. names \in Seq(S \cup {name}) /\ name \in S \cup {name}
    OBVIOUS
  <2> QED BY <2>1, AppendProperties
<1> HIDE DEF n, more
<1>2. PICK before : KeepsInTurn(before, n, names) /\ Named(names) = before[n]
  BY <1>1, NamedInTurn
<1>3. PICK after : KeepsInTurn(after, n + 1, more) /\ Named(more) = after[n + 1]
  BY <1>1, NamedInTurn
<1> DEFINE T == {m \in Nat : m <= n => after[m] = before[m]}
<1>4. 0 \in T
  BY <1>2, <1>3 DEF KeepsInTurn
<1>5. ASSUME NEW m \in Nat, m \in T PROVE m + 1 \in T
  <2> SUFFICES ASSUME m + 1 <= n PROVE after[m + 1] = before[m + 1]
    OBVIOUS
  <2>1. m \in 0 .. (n - 1) /\ m \in 0 .. ((n + 1) - 1) /\ m + 1 \in 1 .. n /\ m <= n
    BY <1>1
  <2>2. after[m + 1] = Keep(after[m], more[m + 1]) /\ before[m + 1] = Keep(before[m], names[m + 1])
    BY <1>2, <1>3, <2>1 DEF KeepsInTurn
  <2>3. after[m] = before[m]
    BY <1>5, <2>1
  <2> QED BY <1>1, <2>1, <2>2, <2>3
<1>6. n \in T
  <2> HIDE DEF T
  <2> QED BY <1>1, <1>4, <1>5, SetInduction
<1>7. after[n] = before[n]
  BY <1>1, <1>6
<1>8. after[n + 1] = Keep(after[n], more[n + 1])
  <2>1. n \in 0 .. ((n + 1) - 1)
    BY <1>1
  <2> QED BY <1>3, <2>1 DEF KeepsInTurn
<1> QED BY <1>1, <1>2, <1>3, <1>7, <1>8 DEF more

(* Of no names none is kept. *)
LEMMA NoNames == Named(<<>>) = <<>>
<1>1. DOMAIN <<>> = 1 .. 0
  OBVIOUS
<1>2. PICK after : KeepsInTurn(after, 0, <<>>) /\ Named(<<>>) = after[0]
  BY <1>1, NamedInTurn
<1> QED BY <1>2 DEF KeepsInTurn

-----------------------------------------------------------------------------
(* What the handler does to the journal keeps it matched with the runs.      *)

(* One row more has its name listed last, or none. *)
LEMMA OneMoreListed ==
  ASSUME NEW S, NEW rows \in Seq(S), NEW row, NEW f,
         f = [k \in 1 .. Len(rows) |-> named_run_name(rows[k])]
  PROVE  NamesOf(Append(rows, row)) = Keep(NamesOf(rows), named_run_name(row))
<1> DEFINE n == Len(rows)
           more == Append(rows, row)
           T == {named_run_name(rows[k]) : k \in 1 .. n}
<1>1. n \in Nat /\ Len(more) = n + 1 /\ more[n + 1] = row /\ \A k \in 1 .. n : more[k] = rows[k]
  <2>1. rows \in Seq(S \cup {row}) /\ row \in S \cup {row}
    OBVIOUS
  <2> QED BY <2>1, AppendProperties
<1>2. f \in Seq(T) /\ Len(f) = n
  BY <1>1
<1> DEFINE g == Append(f, named_run_name(row))
<1>3. /\ g \in Seq(T \cup {named_run_name(row)}) /\ Len(g) = n + 1
      /\ g[n + 1] = named_run_name(row) /\ \A k \in 1 .. n : g[k] = f[k]
  <2> DEFINE U == T \cup {named_run_name(row)}
  <2>1. f \in Seq(U) /\ named_run_name(row) \in U
    BY <1>2
  <2> HIDE DEF T, U
  <2> QED BY <1>2, <2>1, AppendProperties DEF U
<1> DEFINE h == [k \in 1 .. Len(more) |-> named_run_name(more[k])]
<1>4. h = g
  <2>1. DOMAIN g = 1 .. (n + 1) /\ g = [k \in 1 .. (n + 1) |-> g[k]]
    BY <1>3
  <2>2. \A k \in 1 .. (n + 1) : named_run_name(more[k]) = g[k]
    <3> SUFFICES ASSUME NEW k \in 1 .. (n + 1) PROVE named_run_name(more[k]) = g[k]
      OBVIOUS
    <3> HIDE DEF g, more
    <3>1. CASE k \in 1 .. n
      BY <1>1, <1>3, <3>1
    <3>2. CASE k = n + 1
      BY <1>1, <1>3, <3>2
    <3> QED BY <1>1, <3>1, <3>2
  <2> HIDE DEF g, more, n
  <2> QED BY <1>1, <2>1, <2>2
<1>5. Named(g) = Keep(Named(f), named_run_name(row))
  <2> HIDE DEF T
  <2> QED BY <1>2, OneMoreName
<1> QED BY <1>4, <1>5 DEF NamesOf

(* What the server adds is a row that is intact, and the rest stays as it was. *)
Grows(type, name, id, raw) ==
  /\ Len(journal) \in Nat /\ Len(runs) \in Nat
  /\ journal' \in Seq(RowType) /\ Len(journal') = Len(journal) + 1
  /\ \A k \in 1 .. Len(journal) : journal'[k] = journal[k]
  /\ \A k \in 1 .. Len(journal') : Intact(journal'[k]) /\ journal'[k].index = k - 1
  /\ journal'[Len(journal) + 1].type = type /\ journal'[Len(journal) + 1].name = name
  /\ journal'[Len(journal) + 1].json.id = id /\ journal'[Len(journal) + 1].raw = raw
  /\ NamesOf(journal') = Keep(NamesOf(journal), IF type = "Command: Run" THEN name ELSE "")

(* What the server writes: runs with a name and an identity, bytes with a result. *)
Writable(type, name, id, raw) ==
  /\ type \in Supported /\ name \in Names \cup {Null} /\ id \in Ids \cup {Null} /\ raw \in {Plain, Leaky}
  /\ type = "Command: Run" => name \in Names
  /\ type \in RunTypes => id \in Ids
  /\ type # "Notification: Run" => raw = Plain

(* Such a row has its place and what it was written with. *)
LEMMA RowIsIntact ==
  ASSUME Len(journal) \in Nat, NEW type, NEW name, NEW id, NEW raw, Writable(type, name, id, raw),
         NEW row, row = Row(type, name, id, raw)
  PROVE  /\ row \in RowType /\ Intact(row) /\ row.index = Len(journal)
         /\ row.type = type /\ row.name = name /\ row.json.id = id /\ row.raw = raw
<1>1. /\ row.index = Len(journal) /\ row.type = type /\ row.name = name /\ row.raw = raw
      /\ row.json = [class |-> type, name |-> name, id |-> id]
  BY DEF Row
<1>2. row.json.class = type /\ row.json.name = name /\ row.json.id = id
  BY <1>1
<1>3. row \in RowType
  BY DEF Row, RowType, Writable
<1>4. Intact(row)
  BY <1>1, <1>2 DEF Intact, Writable
<1> QED BY <1>1, <1>2, <1>3, <1>4

(* With a row that is intact and in its place, the journal is what it was and that row. *)
LEMMA OneMoreRow ==
  ASSUME Written, NEW row \in RowType, Intact(row), row.index = Len(journal), NEW rows, rows = Append(journal, row)
  PROVE  /\ Len(journal) \in Nat /\ Len(runs) \in Nat
         /\ rows \in Seq(RowType) /\ Len(rows) = Len(journal) + 1 /\ rows[Len(journal) + 1] = row
         /\ \A k \in 1 .. Len(journal) : rows[k] = journal[k]
         /\ \A k \in 1 .. Len(rows) : Intact(rows[k]) /\ rows[k].index = k - 1
         /\ NamesOf(rows) = Keep(NamesOf(journal), named_run_name(row))
<1> DEFINE n == Len(journal)
<1>0. journal \in Seq(RowType)
  BY DEF Written
<1>1. /\ n \in Nat /\ Len(runs) \in Nat
      /\ \A k \in 1 .. n : Intact(journal[k]) /\ journal[k].index = k - 1
  BY DEF Written
<1>4. /\ rows \in Seq(RowType) /\ Len(rows) = n + 1 /\ rows[n + 1] = row
      /\ \A k \in 1 .. n : rows[k] = journal[k]
  BY <1>0, AppendProperties
<1>5. NamesOf(rows) = Keep(NamesOf(journal), named_run_name(row))
  BY <1>0, OneMoreListed
<1>6. row.index = n
  OBVIOUS
<1> HIDE DEF n
<1>7. \A k \in 1 .. (n + 1) : Intact(rows[k]) /\ rows[k].index = k - 1
  <2> SUFFICES ASSUME NEW k \in 1 .. (n + 1) PROVE Intact(rows[k]) /\ rows[k].index = k - 1
    OBVIOUS
  <2>1. CASE k \in 1 .. n
    BY <1>1, <1>4, <2>1
  <2>2. CASE k = n + 1
    <3>1. rows[k] = row /\ k - 1 = n
      BY <1>1, <1>4, <2>2
    <3> QED BY <1>6, <3>1
  <2>3. n \in Nat
    BY <1>1
  <2>4. k \in 1 .. n \/ k = n + 1
    BY <2>3
  <2> QED BY <2>1, <2>2, <2>4
<1> QED BY <1>1, <1>4, <1>5, <1>7 DEF n

(* So it is with whatever the server writes. *)
LEMMA JournalGrows ==
  ASSUME Written, NEW type, NEW name, NEW id, NEW raw, Writable(type, name, id, raw),
         journal' = Append(journal, Row(type, name, id, raw))
  PROVE  Grows(type, name, id, raw)
<1>1. Len(journal) \in Nat
  BY DEF Written
<1>2. \E row : row = Row(type, name, id, raw)
  OBVIOUS
<1> PICK row : row = Row(type, name, id, raw)
  BY <1>2
<1>3. /\ row \in RowType /\ Intact(row) /\ row.index = Len(journal)
      /\ row.type = type /\ row.name = name /\ row.json.id = id /\ row.raw = raw
  BY <1>1, <1>2, RowIsIntact
<1>4. /\ Len(journal) \in Nat /\ Len(runs) \in Nat
      /\ journal' \in Seq(RowType) /\ Len(journal') = Len(journal) + 1 /\ journal'[Len(journal) + 1] = row
      /\ \A k \in 1 .. Len(journal) : journal'[k] = journal[k]
      /\ \A k \in 1 .. Len(journal') : Intact(journal'[k]) /\ journal'[k].index = k - 1
      /\ NamesOf(journal') = Keep(NamesOf(journal), named_run_name(row))
  BY <1>2, <1>3, OneMoreRow
<1>5. named_run_name(row) = IF type = "Command: Run" THEN name ELSE ""
  BY <1>3 DEF named_run_name, IsRun
<1> QED BY <1>3, <1>4, <1>5 DEF Grows

(* An entry that is not about a run changes no answer about runs. *)
LEMMA OtherKeeps ==
  ASSUME InStep, Other
  PROVE  InStep'
<1>1. Written /\ Distinct /\ Listed
  BY DEF InStep
<1>2. PICK at : Commands(at) /\ Completions(at)
  BY DEF InStep
<1>3. Grows("Command: Input", Null, Null, Plain)
  BY <1>1, JournalGrows DEF Other, Writable, Supported, RunTypes
<1>4. runs' = runs
  BY DEF Other
<1> DEFINE n == Len(journal)
<1>5. /\ n \in Nat /\ Len(journal') = n + 1 /\ journal' \in Seq(RowType)
      /\ \A k \in 1 .. n : journal'[k] = journal[k]
      /\ ~IsRun(journal'[n + 1]) /\ ~IsResult(journal'[n + 1])
  BY <1>3 DEF Grows, IsRun, IsResult
<1>6. Written' /\ Distinct'
  BY <1>1, <1>3, <1>4 DEF Grows, Written, Distinct
<1>7. Listed'
  BY <1>1, <1>3, <1>4 DEF Grows, Listed, Keep
<1> HIDE DEF n
<1>8. Commands(at)'
  <2>1. /\ at \in [1 .. Len(runs) -> 1 .. n]
        /\ \A q, r \in 1 .. Len(runs) : q < r => at[q] < at[r]
        /\ \A k \in 1 .. n : IsRun(journal[k]) => \E r \in 1 .. Len(runs) : at[r] = k
        /\ \A r \in 1 .. Len(runs) :
             IsRun(journal[at[r]]) /\ journal[at[r]].name = runs[r].name /\ journal[at[r]].json.id = runs[r].id
    BY <1>2 DEF Commands, n
  <2>2. at \in [1 .. Len(runs) -> 1 .. (n + 1)]
    BY <1>5, <2>1
  <2>3. \A k \in 1 .. (n + 1) : IsRun(journal'[k]) => \E r \in 1 .. Len(runs) : at[r] = k
    <3> SUFFICES ASSUME NEW k \in 1 .. (n + 1), IsRun(journal'[k]) PROVE \E r \in 1 .. Len(runs) : at[r] = k
      OBVIOUS
    <3>1. k # n + 1
      BY <1>5
    <3>2. k \in 1 .. n
      BY <1>5, <3>1
    <3> QED BY <1>5, <2>1, <3>2
  <2>4. \A r \in 1 .. Len(runs) :
          IsRun(journal'[at[r]]) /\ journal'[at[r]].name = runs[r].name /\ journal'[at[r]].json.id = runs[r].id
    BY <1>5, <2>1
  <2> QED BY <1>4, <1>5, <2>1, <2>2, <2>3, <2>4 DEF Commands
<1>9. Completions(at)'
  <2>1. ASSUME NEW r \in 1 .. Len(runs), runs[r].result # Null
        PROVE  LET k == runs[r].result + 1 IN
               /\ k \in 1 .. (n + 1) /\ IsResult(journal'[k]) /\ at[r] < k
               /\ journal'[k].json.id = runs[r].id /\ runs[r].leak = (journal'[k].raw = Leaky)
    <3> DEFINE k == runs[r].result + 1
    <3>1. /\ k \in 1 .. n /\ IsResult(journal[k]) /\ at[r] < k /\ journal[k].json.id = runs[r].id
          /\ runs[r].leak = (journal[k].raw = Leaky)
      BY <1>2, <2>1 DEF Completions, n
    <3> HIDE DEF k
    <3>2. journal'[k] = journal[k] /\ k \in 1 .. (n + 1)
      BY <1>5, <3>1
    <3> QED BY <3>1, <3>2 DEF k
  <2>2. ASSUME NEW k \in 1 .. (n + 1), IsResult(journal'[k])
        PROVE  \E r \in 1 .. Len(runs) : runs[r].result = k - 1
    <3>1. k # n + 1
      BY <1>5, <2>2
    <3>2. k \in 1 .. n /\ journal'[k] = journal[k]
      BY <1>5, <3>1
    <3> QED BY <1>2, <2>2, <3>2 DEF Completions, n
  <2>3. \A r \in 1 .. Len(runs) : runs[r].result = Null => ~runs[r].leak
    BY <1>2 DEF Completions
  <2> QED BY <1>4, <1>5, <2>1, <2>2, <2>3 DEF Completions
<1> QED BY <1>6, <1>7, <1>8, <1>9 DEF InStep

(* A run that is started has the last command, and an identity of its own. *)
LEMMA StartKeeps ==
  ASSUME InStep, NEW name \in Names, NEW id \in Ids, StartRun(name, id)
  PROVE  InStep'
<1>1. Written /\ Distinct /\ Listed
  BY DEF InStep
<1>2. PICK at : Commands(at) /\ Completions(at)
  BY DEF InStep
<1> DEFINE n == Len(journal)
           m == Len(runs)
           run == [name |-> name, id |-> id, result |-> Null, leak |-> FALSE]
<1>3. Grows("Command: Run", name, id, Plain)
  BY <1>1, JournalGrows DEF StartRun, Writable, Supported, RunTypes
<1>4. /\ n \in Nat /\ m \in Nat /\ Len(journal') = n + 1 /\ journal' \in Seq(RowType)
      /\ \A k \in 1 .. n : journal'[k] = journal[k]
      /\ journal'[n + 1].name = name /\ journal'[n + 1].json.id = id
      /\ IsRun(journal'[n + 1]) /\ ~IsResult(journal'[n + 1])
  BY <1>3 DEF Grows, IsRun, IsResult
<1>5. run.name = name /\ run.id = id /\ run.result = Null /\ run.leak = FALSE /\ run \in RunType
  BY DEF RunType
<1> HIDE DEF run
<1>6. /\ runs' = Append(runs, run) /\ runs \in Seq(RunType)
  BY <1>1 DEF StartRun, Written, run
<1>7. runs' \in Seq(RunType) /\ Len(runs') = m + 1 /\ runs'[m + 1] = run /\ \A r \in 1 .. m : runs'[r] = runs[r]
  BY <1>5, <1>6, AppendProperties
<1>8. \A r \in 1 .. m : runs[r].id # id
  <2>1. DOMAIN runs = 1 .. m
    BY <1>6
  <2>2. id \notin {runs[k].id : k \in DOMAIN runs}
    BY DEF StartRun, Unused
  <2> QED BY <2>1, <2>2
<1>9. Written'
  BY <1>3, <1>7 DEF Grows, Written
<1> HIDE DEF n, m
<1>10. \A r \in 1 .. (m + 1) : r \in 1 .. m \/ r = m + 1
  BY <1>4
<1>11. \A k \in 1 .. (n + 1) : k \in 1 .. n \/ k = n + 1
  BY <1>4
<1>12. Distinct'
  <2> SUFFICES ASSUME NEW q \in 1 .. (m + 1), NEW r \in 1 .. (m + 1), runs'[q].id = runs'[r].id PROVE q = r
    BY <1>7 DEF Distinct
  <2>1. CASE q \in 1 .. m /\ r \in 1 .. m
    BY <1>1, <1>7, <2>1 DEF Distinct, m
  <2>2. CASE q = m + 1 /\ r \in 1 .. m
    BY <1>5, <1>7, <1>8, <2>2
  <2>3. CASE q \in 1 .. m /\ r = m + 1
    BY <1>5, <1>7, <1>8, <2>3
  <2> QED BY <1>10, <2>1, <2>2, <2>3
<1>13. Listed'
  <2>1. RunsList(runs') = Keep(RunsList(runs), name)
    <3> DEFINE f == [k \in 1 .. m |-> runs[k].name]
               g == [k \in 1 .. (m + 1) |-> runs'[k].name]
    <3>1. f \in Seq(Names) /\ Len(f) = m
      <4>1. \A k \in 1 .. m : runs[k].name \in Names
        <5>1. \A k \in 1 .. m : runs[k] \in RunType
          BY <1>6 DEF m
        <5> QED BY <5>1 DEF RunType
      <4> QED BY <1>4, <4>1
    <3> HIDE DEF f
    <3>2. /\ Append(f, name) \in Seq(Names) /\ Len(Append(f, name)) = m + 1
          /\ Append(f, name)[m + 1] = name /\ \A k \in 1 .. m : Append(f, name)[k] = f[k]
      BY <3>1, AppendProperties
    <3>3. \A k \in 1 .. (m + 1) : Append(f, name)[k] = runs'[k].name
      <4>1. \A k \in 1 .. m : Append(f, name)[k] = runs'[k].name
        BY <1>7, <3>2 DEF f
      <4>2. Append(f, name)[m + 1] = runs'[m + 1].name
        BY <1>5, <1>7, <3>2
      <4> QED BY <1>10, <4>1, <4>2
    <3>4. Append(f, name) = g
      <4> DEFINE a == Append(f, name)
      <4> HIDE DEF a
      <4>1. a \in Seq(Names) /\ Len(a) = m + 1 /\ \A k \in 1 .. (m + 1) : a[k] = runs'[k].name
        BY <3>2, <3>3 DEF a
      <4>2. a = [k \in 1 .. (m + 1) |-> a[k]]
        BY <4>1
      <4>3. a = g
        BY <4>1, <4>2
      <4> QED BY <4>3 DEF a
    <3>5. Named(Append(f, name)) = Keep(Named(f), name)
      BY <3>1, OneMoreName
    <3> QED BY <1>7, <3>4, <3>5 DEF RunsList, f, m
  <2>2. NamesOf(journal') = Keep(NamesOf(journal), name)
    BY <1>3 DEF Grows
  <2>3. NamesOf(journal) = RunsList(runs) /\ RunsList(runs) \in Seq(Names)
    BY <1>1 DEF Listed
  <2>4. Keep(RunsList(runs), name) \in Seq(Names)
    <3>1. CASE name = ""
      BY <2>3, <3>1 DEF Keep
    <3>2. CASE name # ""
      <4>1. Keep(RunsList(runs), name) = Append(RunsList(runs), name)
        BY <3>2 DEF Keep
      <4>2. Append(RunsList(runs), name) \in Seq(Names)
        BY <2>3, AppendProperties
      <4> QED BY <4>1, <4>2
    <3> QED BY <3>1, <3>2
  <2> QED BY <2>1, <2>2, <2>3, <2>4 DEF Listed
<1>14. \E more : more = [r \in 1 .. (m + 1) |-> IF r = m + 1 THEN n + 1 ELSE at[r]]
  OBVIOUS
<1> PICK more : more = [r \in 1 .. (m + 1) |-> IF r = m + 1 THEN n + 1 ELSE at[r]]
  BY <1>14
<1>15. /\ at \in [1 .. m -> 1 .. n]
       /\ \A q, r \in 1 .. m : q < r => at[q] < at[r]
       /\ \A k \in 1 .. n : IsRun(journal[k]) => \E r \in 1 .. m : at[r] = k
       /\ \A r \in 1 .. m :
            IsRun(journal[at[r]]) /\ journal[at[r]].name = runs[r].name /\ journal[at[r]].json.id = runs[r].id
  BY <1>2 DEF Commands, n, m
<1>16. more[m + 1] = n + 1 /\ \A r \in 1 .. m : more[r] = at[r]
  <2>1. m + 1 \in 1 .. (m + 1) /\ \A r \in 1 .. m : r \in 1 .. (m + 1) /\ r # m + 1
    BY <1>4
  <2> QED BY <2>1
<1>17. more \in [1 .. (m + 1) -> 1 .. (n + 1)]
  BY <1>4, <1>10, <1>15
<1>18. Commands(more)'
  <2>1. ASSUME NEW q \in 1 .. (m + 1), NEW r \in 1 .. (m + 1), q < r PROVE more[q] < more[r]
    <3>1. q \in 1 .. m
      BY <1>4, <2>1
    <3>2. CASE r \in 1 .. m
      BY <1>15, <1>16, <2>1, <3>1, <3>2
    <3>3. CASE r = m + 1
      <4>1. more[q] \in 1 .. n /\ more[r] = n + 1
        BY <1>15, <1>16, <3>1, <3>3
      <4> QED BY <1>4, <4>1
    <3> QED BY <1>10, <3>2, <3>3
  <2>2. ASSUME NEW k \in 1 .. (n + 1), IsRun(journal'[k]) PROVE \E r \in 1 .. (m + 1) : more[r] = k
    <3>1. CASE k \in 1 .. n
      <4>1. PICK r \in 1 .. m : at[r] = k
        BY <1>4, <1>15, <2>2, <3>1
      <4>2. r \in 1 .. (m + 1) /\ more[r] = k
        BY <1>4, <1>16, <4>1
      <4> QED BY <4>2
    <3>2. CASE k = n + 1
      <4>1. m + 1 \in 1 .. (m + 1)
        BY <1>4
      <4> QED BY <1>16, <3>2, <4>1
    <3> QED BY <1>11, <3>1, <3>2
  <2>3. ASSUME NEW r \in 1 .. (m + 1)
        PROVE  /\ IsRun(journal'[more[r]]) /\ journal'[more[r]].name = runs'[r].name
               /\ journal'[more[r]].json.id = runs'[r].id
    <3>1. CASE r \in 1 .. m
      <4>1. at[r] \in 1 .. n /\ more[r] = at[r] /\ runs'[r] = runs[r]
        BY <1>7, <1>15, <1>16, <3>1
      <4>2. journal'[at[r]] = journal[at[r]]
        BY <1>4, <4>1
      <4> QED BY <1>15, <3>1, <4>1, <4>2
    <3>2. CASE r = m + 1
      BY <1>4, <1>5, <1>7, <1>16, <3>2
    <3> QED BY <1>10, <3>1, <3>2
  <2>4. more \in [1 .. Len(runs') -> 1 .. Len(journal')]
    BY <1>4, <1>7, <1>17
  <2>5. \A q, r \in 1 .. Len(runs') : q < r => more[q] < more[r]
    BY <1>7, <2>1
  <2>6. \A k \in 1 .. Len(journal') : IsRun(journal'[k]) => \E r \in 1 .. Len(runs') : more[r] = k
    BY <1>4, <1>7, <2>2
  <2>7. \A r \in 1 .. Len(runs') :
          /\ IsRun(journal'[more[r]]) /\ journal'[more[r]].name = runs'[r].name
          /\ journal'[more[r]].json.id = runs'[r].id
    BY <1>7, <2>3
  <2> QED BY <2>4, <2>5, <2>6, <2>7 DEF Commands
<1>19. Completions(more)'
  <2>1. ASSUME NEW r \in 1 .. (m + 1), runs'[r].result # Null
        PROVE  LET k == runs'[r].result + 1 IN
               /\ k \in 1 .. (n + 1) /\ IsResult(journal'[k]) /\ more[r] < k
               /\ journal'[k].json.id = runs'[r].id /\ runs'[r].leak = (journal'[k].raw = Leaky)
    <3>0. r \in 1 .. m /\ runs'[r] = runs[r] /\ more[r] = at[r]
      BY <1>5, <1>7, <1>10, <1>16, <2>1
    <3> DEFINE k == runs[r].result + 1
    <3>1. /\ k \in 1 .. n /\ IsResult(journal[k]) /\ at[r] < k /\ journal[k].json.id = runs[r].id
          /\ runs[r].leak = (journal[k].raw = Leaky)
      BY <1>2, <2>1, <3>0 DEF Completions, n, m
    <3> HIDE DEF k
    <3>2. journal'[k] = journal[k] /\ k \in 1 .. (n + 1)
      BY <1>4, <3>1
    <3> QED BY <3>0, <3>1, <3>2 DEF k
  <2>2. ASSUME NEW k \in 1 .. (n + 1), IsResult(journal'[k])
        PROVE  \E r \in 1 .. (m + 1) : runs'[r].result = k - 1
    <3>1. k \in 1 .. n /\ journal'[k] = journal[k]
      BY <1>4, <1>11, <2>2
    <3>2. PICK r \in 1 .. m : runs[r].result = k - 1
      BY <1>2, <2>2, <3>1 DEF Completions, n, m
    <3>3. r \in 1 .. (m + 1) /\ runs'[r] = runs[r]
      BY <1>4, <1>7
    <3> QED BY <3>2, <3>3
  <2>3. ASSUME NEW r \in 1 .. (m + 1), runs'[r].result = Null PROVE ~runs'[r].leak
    <3>1. CASE r \in 1 .. m
      BY <1>2, <1>7, <2>3, <3>1 DEF Completions, m
    <3>2. CASE r = m + 1
      BY <1>5, <1>7, <3>2
    <3> QED BY <1>10, <3>1, <3>2
  <2>4. \A r \in 1 .. Len(runs') : runs'[r].result # Null =>
          /\ runs'[r].result + 1 \in 1 .. Len(journal') /\ IsResult(journal'[runs'[r].result + 1])
          /\ more[r] < runs'[r].result + 1 /\ journal'[runs'[r].result + 1].json.id = runs'[r].id
          /\ runs'[r].leak = (journal'[runs'[r].result + 1].raw = Leaky)
    BY <1>4, <1>7, <2>1
  <2>5. \A k \in 1 .. Len(journal') : IsResult(journal'[k]) => \E r \in 1 .. Len(runs') : runs'[r].result = k - 1
    BY <1>4, <1>7, <2>2
  <2>6. \A r \in 1 .. Len(runs') : runs'[r].result = Null => ~runs'[r].leak
    BY <1>7, <2>3
  <2> QED BY <2>4, <2>5, <2>6 DEF Completions
<1> QED BY <1>9, <1>12, <1>13, <1>18, <1>19 DEF InStep

(* A result is that of the run it names, whichever run was started last. *)
LEMMA CompleteKeeps ==
  ASSUME InStep, NEW c \in DOMAIN runs, NEW raw \in {Plain, Leaky}, Complete(c, raw)
  PROVE  InStep'
<1>1. Written /\ Distinct /\ Listed
  BY DEF InStep
<1>2. PICK at : Commands(at) /\ Completions(at)
  BY DEF InStep
<1> DEFINE n == Len(journal)
           m == Len(runs)
<1>3. /\ c \in 1 .. m /\ runs[c] \in RunType /\ runs[c].id \in Ids /\ runs[c].result = Null
      /\ runs \in Seq(RunType) /\ n \in Nat /\ m \in Nat /\ \A r \in 1 .. m : runs[r] \in RunType
  <2>1. runs \in Seq(RunType) /\ n \in Nat
    BY <1>1 DEF Written
  <2>2. m \in Nat /\ c \in 1 .. m /\ \A r \in 1 .. m : runs[r] \in RunType
    BY <2>1
  <2>3. runs[c].result = Null
    BY DEF Complete, Open
  <2> QED BY <2>1, <2>2, <2>3 DEF RunType
<1>4. Grows("Notification: Run", Null, runs[c].id, raw)
  <2>1. Writable("Notification: Run", Null, runs[c].id, raw)
    BY <1>3 DEF Writable, Supported
  <2> QED BY <1>1, <2>1, JournalGrows DEF Complete
<1>5. /\ Len(journal') = n + 1 /\ journal' \in Seq(RowType)
      /\ \A k \in 1 .. n : journal'[k] = journal[k]
      /\ journal'[n + 1].json.id = runs[c].id /\ journal'[n + 1].raw = raw
      /\ IsResult(journal'[n + 1]) /\ ~IsRun(journal'[n + 1])
  BY <1>4 DEF Grows, IsRun, IsResult
<1>6. runs' = [runs EXCEPT ![c] = [runs[c] EXCEPT !.result = n, !.leak = (raw = Leaky)]]
  BY DEF Complete
<1> DEFINE run == [runs[c] EXCEPT !.result = n, !.leak = (raw = Leaky)]
<1>7. /\ run \in RunType /\ run.name = runs[c].name /\ run.id = runs[c].id /\ run.result = n
      /\ run.leak = (raw = Leaky)
  BY <1>3 DEF RunType
<1> HIDE DEF run
<1>8. runs' = [runs EXCEPT ![c] = run]
  BY <1>6 DEF run
<1>9. /\ runs' \in Seq(RunType) /\ Len(runs') = m /\ runs'[c] = run
      /\ \A r \in 1 .. m : r # c => runs'[r] = runs[r]
  BY <1>3, <1>7, <1>8
<1>10. \A r \in 1 .. m : runs'[r].name = runs[r].name /\ runs'[r].id = runs[r].id
  BY <1>7, <1>9
<1> HIDE DEF n, m
<1>11. \A k \in 1 .. (n + 1) : k \in 1 .. n \/ k = n + 1
  BY <1>3
<1>12. Written'
  BY <1>4, <1>9 DEF Grows, Written, m
<1>13. Distinct'
  BY <1>1, <1>9, <1>10 DEF Distinct, m
<1>14. Listed'
  <2>1. [r \in 1 .. Len(runs') |-> runs'[r].name] = [r \in 1 .. Len(runs) |-> runs[r].name]
    BY <1>9, <1>10 DEF m
  <2>2. RunsList(runs') = RunsList(runs)
    BY <2>1 DEF RunsList
  <2>3. NamesOf(journal') = NamesOf(journal)
    BY <1>4 DEF Grows, Keep
  <2> QED BY <1>1, <2>2, <2>3 DEF Listed
<1>15. /\ at \in [1 .. m -> 1 .. n]
       /\ \A q, r \in 1 .. m : q < r => at[q] < at[r]
       /\ \A k \in 1 .. n : IsRun(journal[k]) => \E r \in 1 .. m : at[r] = k
       /\ \A r \in 1 .. m :
            IsRun(journal[at[r]]) /\ journal[at[r]].name = runs[r].name /\ journal[at[r]].json.id = runs[r].id
  BY <1>2 DEF Commands, n, m
<1>16. Commands(at)'
  <2>1. at \in [1 .. Len(runs') -> 1 .. Len(journal')]
    <3>1. \A r \in 1 .. m : at[r] \in 1 .. (n + 1)
      BY <1>3, <1>15
    <3> QED BY <1>5, <1>9, <1>15, <3>1
  <2>2. \A q, r \in 1 .. Len(runs') : q < r => at[q] < at[r]
    BY <1>9, <1>15
  <2>3. ASSUME NEW k \in 1 .. (n + 1), IsRun(journal'[k]) PROVE \E r \in 1 .. m : at[r] = k
    <3>1. k \in 1 .. n /\ journal'[k] = journal[k]
      BY <1>5, <1>11, <2>3
    <3> QED BY <1>15, <2>3, <3>1
  <2>4. \A k \in 1 .. Len(journal') : IsRun(journal'[k]) => \E r \in 1 .. Len(runs') : at[r] = k
    BY <1>5, <1>9, <2>3
  <2>5. ASSUME NEW r \in 1 .. m
        PROVE  /\ IsRun(journal'[at[r]]) /\ journal'[at[r]].name = runs'[r].name
               /\ journal'[at[r]].json.id = runs'[r].id
    <3>1. at[r] \in 1 .. n
      BY <1>15
    <3>2. journal'[at[r]] = journal[at[r]]
      BY <1>5, <3>1
    <3> QED BY <1>10, <1>15, <3>2
  <2>6. \A r \in 1 .. Len(runs') :
          IsRun(journal'[at[r]]) /\ journal'[at[r]].name = runs'[r].name /\ journal'[at[r]].json.id = runs'[r].id
    BY <1>9, <2>5
  <2> QED BY <2>1, <2>2, <2>4, <2>6 DEF Commands
<1>17. Completions(at)'
  <2>1. ASSUME NEW r \in 1 .. m, runs'[r].result # Null
        PROVE  /\ runs'[r].result + 1 \in 1 .. (n + 1) /\ IsResult(journal'[runs'[r].result + 1])
               /\ at[r] < runs'[r].result + 1 /\ journal'[runs'[r].result + 1].json.id = runs'[r].id
               /\ runs'[r].leak = (journal'[runs'[r].result + 1].raw = Leaky)
    <3>1. CASE r = c
      <4>1. runs'[r] = run /\ runs'[r].result + 1 = n + 1
        BY <1>7, <1>9, <3>1
      <4>2. n + 1 \in 1 .. (n + 1) /\ at[r] < n + 1
        <5>1. at[r] \in 1 .. n
          BY <1>15
        <5> QED BY <1>3, <5>1
      <4> QED BY <1>5, <1>7, <3>1, <4>1, <4>2
    <3>2. CASE r # c
      <4>1. runs'[r] = runs[r] /\ runs[r].result # Null
        BY <1>9, <2>1, <3>2
      <4> DEFINE k == runs[r].result + 1
      <4>2. /\ k \in 1 .. n /\ IsResult(journal[k]) /\ at[r] < k /\ journal[k].json.id = runs[r].id
            /\ runs[r].leak = (journal[k].raw = Leaky)
        BY <1>2, <4>1 DEF Completions, n, m
      <4> HIDE DEF k
      <4>3. journal'[k] = journal[k] /\ k \in 1 .. (n + 1)
        BY <1>3, <1>5, <4>2
      <4> QED BY <4>1, <4>2, <4>3 DEF k
    <3> QED BY <3>1, <3>2
  <2>2. ASSUME NEW k \in 1 .. (n + 1), IsResult(journal'[k])
        PROVE  \E r \in 1 .. m : runs'[r].result = k - 1
    <3>1. CASE k \in 1 .. n
      <4>1. PICK r \in 1 .. m : runs[r].result = k - 1
        BY <1>2, <1>5, <2>2, <3>1 DEF Completions, n, m
      <4>2. k - 1 # Null
        <5>1. k - 1 \in Nat
          BY <3>1
        <5> QED BY <5>1, ResultsAssumption
      <4>3. r # c
        BY <1>3, <4>1, <4>2
      <4> QED BY <1>9, <4>1, <4>3
    <3>2. CASE k = n + 1
      <4>1. runs'[c].result = k - 1
        BY <1>3, <1>7, <1>9, <3>2
      <4> QED BY <1>3, <4>1
    <3> QED BY <1>11, <3>1, <3>2
  <2>3. ASSUME NEW r \in 1 .. m, runs'[r].result = Null PROVE ~runs'[r].leak
    <3>1. r # c
      <4>1. n # Null
        BY <1>3, ResultsAssumption
      <4> QED BY <1>7, <1>9, <2>3, <4>1
    <3>2. runs'[r] = runs[r]
      BY <1>9, <3>1
    <3> QED BY <1>2, <2>3, <3>2 DEF Completions, m
  <2>4. \A r \in 1 .. Len(runs') : runs'[r].result # Null =>
          /\ runs'[r].result + 1 \in 1 .. Len(journal') /\ IsResult(journal'[runs'[r].result + 1])
          /\ at[r] < runs'[r].result + 1 /\ journal'[runs'[r].result + 1].json.id = runs'[r].id
          /\ runs'[r].leak = (journal'[runs'[r].result + 1].raw = Leaky)
    BY <1>5, <1>9, <2>1
  <2>5. \A k \in 1 .. Len(journal') : IsResult(journal'[k]) => \E r \in 1 .. Len(runs') : runs'[r].result = k - 1
    BY <1>5, <1>9, <2>2
  <2>6. \A r \in 1 .. Len(runs') : runs'[r].result = Null => ~runs'[r].leak
    BY <1>9, <2>3
  <2> QED BY <2>4, <2>5, <2>6 DEF Completions
<1> QED BY <1>12, <1>13, <1>14, <1>16, <1>17 DEF InStep

(* Nothing is written, read or asked. *)
LEMMA ResultsStart == ResultsInit => ResultsInv
<1> SUFFICES ASSUME ResultsInit PROVE ResultsInv
  OBVIOUS
<1>1. journal = <<>> /\ runs = <<>> /\ Len(journal) = 0 /\ Len(runs) = 0 /\ 1 .. 0 = {}
  BY DEF ResultsInit
<1>2. Written /\ Distinct
  BY <1>1 DEF Written, Distinct
<1>3. Listed
  <2>1. [k \in 1 .. Len(journal) |-> named_run_name(journal[k])] = <<>>
    BY <1>1
  <2>2. [k \in 1 .. Len(runs) |-> runs[k].name] = <<>>
    BY <1>1
  <2>3. NamesOf(journal) = <<>> /\ RunsList(runs) = <<>>
    BY <2>1, <2>2, NoNames DEF NamesOf, RunsList
  <2> QED BY <2>3 DEF Listed
<1>4. \E at : Commands(at) /\ Completions(at)
  <2>1. \E at : at \in [1 .. 0 -> 1 .. 0]
    <3> DEFINE f == [r \in 1 .. 0 |-> r]
    <3>1. f \in [1 .. 0 -> 1 .. 0]
      OBVIOUS
    <3> QED BY <3>1
  <2>2. PICK at : at \in [1 .. 0 -> 1 .. 0]
    BY <2>1
  <2>3. Commands(at)
    BY <1>1, <2>2 DEF Commands
  <2>4. Completions(at)
    BY <1>1 DEF Completions
  <2> QED BY <2>3, <2>4
<1>5. Asked
  BY DEF ResultsInit, Asked
<1> QED BY <1>2, <1>3, <1>4, <1>5 DEF ResultsInv, InStep

(* A step of the handler is recorded; a read and a question change nothing. *)
LEMMA ResultsStep == ResultsInv /\ [ResultsNext]_resultsVars => ResultsInv'
<1> SUFFICES ASSUME ResultsInv, [ResultsNext]_resultsVars PROVE ResultsInv'
  OBVIOUS
<1>0. InStep /\ Asked
  BY DEF ResultsInv
<1>1. CASE read = Null /\ Handler
  <2>1. InStep'
    BY <1>0, <1>1, OtherKeeps, StartKeeps, CompleteKeeps DEF Handler
  <2>2. UNCHANGED test
    BY <1>1 DEF Handler, Other, StartRun, Complete
  <2>3. Asked'
    <3>1. read' = Null /\ answer' = answer
      BY <1>1, <2>2 DEF test
    <3>2. answer = NoAnswer
      BY <1>0, <1>1 DEF Asked
    <3>3. answer' = NoAnswer'
      BY <3>1, <3>2 DEF NoAnswer
    <3> QED BY <3>1, <3>3 DEF Asked
  <2> QED BY <2>1, <2>3 DEF ResultsInv
<1>2. ASSUME UNCHANGED server PROVE InStep' /\ (Damaged' = Damaged)
  <2>1. journal' = journal /\ runs' = runs
    BY <1>2 DEF server
  <2>2. InStep'
    BY <1>0, <2>1, ZenonT(60) DEF InStep, Written, Distinct, Listed, Commands, Completions
  <2>3. Damaged' = Damaged
    BY <2>1 DEF Damaged
  <2> QED BY <2>2, <2>3
<1>3. CASE Read
  <2>1. PICK rows \in {journal} \cup Damaged : read' = Entries(rows) /\ damage' = (rows # journal)
    BY <1>3 DEF Read
  <2>2. UNCHANGED server /\ ran' = runs /\ answer' = NoAnswer /\ journal' = journal /\ runs' = runs
    BY <1>0, <1>3 DEF Read, Asked, server
  <2>3. InStep' /\ Damaged' = Damaged
    BY <1>2, <2>2
  <2>4. read' = Entries(journal) \/ (damage' /\ \E other \in Damaged' : read' = Entries(other))
    BY <2>1, <2>3
  <2>5. Asked'
    BY <2>2, <2>4 DEF Asked, NoAnswer
  <2> QED BY <2>3, <2>5 DEF ResultsInv
<1>4. ASSUME UNCHANGED <<server, read, damage, ran>>, read \notin {Null, Refused}, Questions' PROVE ResultsInv'
  <2>1. UNCHANGED server /\ read' = read /\ damage' = damage /\ ran' = ran /\ journal' = journal /\ runs' = runs
    BY <1>4 DEF server
  <2>2. InStep' /\ Damaged' = Damaged
    BY <1>2, <2>1
  <2>3. Asked'
    BY <1>0, <1>4, <2>1, <2>2 DEF Asked
  <2> QED BY <2>2, <2>3 DEF ResultsInv
<1>5. CASE AskResult
  BY <1>4, <1>5 DEF AskResult, Asks, Questions
<1>6. CASE AskResultAt
  BY <1>4, <1>6 DEF AskResultAt, Asks, Questions
<1>7. CASE AskRuns
  BY <1>4, <1>7 DEF AskRuns, Asks, Questions
<1>8. CASE AskLeaks
  BY <1>4, <1>8 DEF AskLeaks, Asks, Questions
<1>9. CASE UNCHANGED resultsVars
  <2>1. /\ UNCHANGED server /\ read' = read /\ damage' = damage /\ ran' = ran /\ answer' = answer
        /\ journal' = journal /\ runs' = runs
    BY <1>9 DEF resultsVars, server, test
  <2>2. InStep' /\ Damaged' = Damaged
    BY <1>2, <2>1
  <2>3. Questions' <=> Questions
    BY <2>1 DEF Questions
  <2>4. Asked'
    BY <1>0, <2>1, <2>2, <2>3 DEF Asked, NoAnswer
  <2> QED BY <2>2, <2>4 DEF ResultsInv
<1> QED BY <1>1, <1>3, <1>5, <1>6, <1>7, <1>8, <1>9 DEF ResultsNext

(* What is read is the journal, is no evidence, or is refused every answer *)
(* about results.                                                          *)
LEMMA ReadIsWhole ==
  ASSUME ResultsInv, answer # NoAnswer
  PROVE  /\ ran = runs /\ Questions
         /\ \E rows : Evidence(rows) /\ read = Entries(rows)
         /\ read = Whole \/ (damage /\ ~Valid(read))
         /\ ~damage => read = Whole
<1>1. read # Null /\ read # Refused /\ Questions /\ ran = runs /\ InStep
      /\ (read = Entries(journal) \/ (damage /\ \E rows \in Damaged : read = Entries(rows)))
  BY DEF ResultsInv, Asked
<1>2. Entries(journal) = Whole
  BY <1>1, WholeIs DEF InStep
<1>3. CASE read = Entries(journal)
  BY <1>1, <1>2, <1>3 DEF Evidence
<1>4. CASE damage /\ read # Entries(journal)
  <2>1. PICK rows \in Damaged : read = Entries(rows)
    BY <1>1, <1>4
  <2>2. Evidence(rows)
    BY <1>1, <2>1 DEF Evidence
  <2>3. ~Valid(read)
    BY <1>1, <1>2, <1>4, <2>1, ValidIsWhole
  <2> QED BY <1>1, <1>4, <2>1, <2>2, <2>3
<1> QED BY <1>1, <1>3, <1>4

(* Whole, it lists the runs there were. *)
LEMMA WholeRunsListed ==
  ASSUME InStep
  PROVE  Runs(Whole) = Named([r \in DOMAIN runs |-> runs[r].name]) /\ Runs(Whole) \in Seq(Names)
<1>1. Written /\ Listed
  BY DEF InStep
<1>2. /\ DOMAIN Whole = 1 .. Len(journal) /\ DOMAIN runs = 1 .. Len(runs)
      /\ \A k \in 1 .. Len(journal) :
           Tells(Whole[k]) /\ Whole[k].type = journal[k].type /\ Whole[k].name = journal[k].name
  <2>1. DOMAIN runs = 1 .. Len(runs)
    BY <1>1 DEF Written
  <2> QED BY <1>1, <2>1, WholeIs DEF Whole
<1>3. \A k \in 1 .. Len(journal) : named_run_name(Whole[k]) = named_run_name(journal[k])
  BY <1>2 DEF named_run_name, IsRun
<1>4. [k \in DOMAIN Whole |-> named_run_name(Whole[k])] = [k \in 1 .. Len(journal) |-> named_run_name(journal[k])]
  BY <1>2, <1>3
<1>5. Runs(Whole) = NamesOf(journal)
  BY <1>2, <1>4 DEF Runs, NamesOf
<1> QED BY <1>1, <1>2, <1>5 DEF Listed, RunsList

(* What is answered is true of the runs: each question is one of four. *)
LEMMA AnswersAreInvariant == ResultsInv => AnswerIsTrue
<1> SUFFICES ASSUME ResultsInv, answer # NoAnswer PROVE AnswerIsTrue
  <2>1. ASSUME answer = NoAnswer PROVE AnswerIsTrue
    <3>1. answer.question = "none"
      BY <2>1 DEF NoAnswer
    <3> QED BY <3>1 DEF AnswerIsTrue, Answered
  <2> QED BY <2>1
<1>1. /\ ran = runs /\ Questions
      /\ \E rows : Evidence(rows) /\ read = Entries(rows)
      /\ read = Whole \/ (damage /\ ~Valid(read))
      /\ ~damage => read = Whole
  BY ReadIsWhole
<1>2. InStep
  BY DEF ResultsInv
<1>3. ASSUME NEW name \in Names,
             answer = [question |-> "result", name |-> name, nth |-> 0, is |-> run_result(read, name)]
      PROVE  AnswerIsTrue
  <2>1. answer.question = "result" /\ answer.name = name /\ answer.is = run_result(read, name)
    BY <1>3
  <2> SUFFICES ASSUME answer.is # Refused
               PROVE  /\ Cardinality(RanAs(name)) <= 1
                      /\ \A k \in RanAs(name) : answer.is = ran[k].result
                      /\ RanAs(name) = {} => answer.is = Null
    BY <2>1 DEF AnswerIsTrue, Answered
  <2>2. Valid(read)
    BY <2>1 DEF run_result
  <2>3. read = Whole
    BY <1>1, <2>2
  <2>4. Cardinality(RanAs(name)) \in Nat
    <3>1. PICK at : Commands(at) /\ Completions(at)
      BY <1>2 DEF InStep
    <3>2. IsFiniteSet(RanAs(name))
      BY <1>1, <1>2, <3>1, RunsAreNamed
    <3> QED BY <3>2, FS_CardinalityType
  <2>5. Cardinality(RanAs(name)) <= 1
    <3>1. ~(Cardinality(RanAs(name)) > 1)
      BY <1>1, <1>2, <2>1, <2>3, WholeResult
    <3> QED BY <2>4, <3>1
  <2> QED BY <1>1, <1>2, <2>1, <2>3, <2>5, WholeResult
<1>4. ASSUME NEW name \in Names, NEW nth \in 0 .. 1,
             answer = [question |-> "result at", name |-> name, nth |-> nth, is |-> run_result_at(read, name, nth)]
      PROVE  AnswerIsTrue
  <2>1. /\ answer.question = "result at" /\ answer.name = name /\ answer.nth = nth
        /\ answer.is = run_result_at(read, name, nth)
    BY <1>4
  <2> SUFFICES ASSUME answer.is # Refused
               PROVE  /\ \A k \in Nth(name, nth) : answer.is = ran[k].result
                      /\ Nth(name, nth) = {} => answer.is = Null
    BY <2>1 DEF AnswerIsTrue, Answered
  <2>2. Valid(read)
    BY <2>1 DEF run_result_at
  <2>3. read = Whole
    BY <1>1, <2>2
  <2>4. /\ \A r \in Nth(name, nth) : run_result_at(Whole, name, nth) = runs[r].result
        /\ Nth(name, nth) = {} => run_result_at(Whole, name, nth) = Null
    BY <1>1, <1>2, WholeResultAt
  <2> QED BY <1>1, <2>1, <2>3, <2>4
<1>5. ASSUME answer = [question |-> "runs", name |-> "", nth |-> 0, is |-> Runs(read)]
      PROVE  AnswerIsTrue
  <2>1. answer.question = "runs" /\ answer.is = Runs(read)
    BY <1>5
  <2>2. ~damage => answer.is = Named([r \in DOMAIN ran |-> ran[r].name])
    BY <1>1, <1>2, <2>1, WholeRunsListed
  <2> QED BY <2>1, <2>2 DEF AnswerIsTrue, Answered
<1>6. ASSUME answer = [question |-> "leaks", name |-> "", nth |-> 0, is |-> Leaks(read, Secret)]
      PROVE  AnswerIsTrue
  <2>1. answer.question = "leaks" /\ answer.is = Leaks(read, Secret)
    BY <1>6
  <2>2. PICK rows : Evidence(rows) /\ read = Entries(rows)
    BY <1>1
  <2>3. Leaks(read, Secret) <=> \E r \in 1 .. Len(runs) : runs[r].leak
    BY <1>2, <2>2, LeaksAreSeen
  <2>4. DOMAIN ran = 1 .. Len(runs)
    BY <1>1, <1>2 DEF InStep, Written
  <2>5. answer.is <=> \E r \in DOMAIN ran : ran[r].leak
    BY <1>1, <2>1, <2>3, <2>4
  <2> QED BY <2>1, <2>5 DEF AnswerIsTrue, Answered
<1> QED BY <1>1, <1>3, <1>4, <1>5, <1>6 DEF Questions

(* What is refused was damaged, or is a name that was run more than once. *)
LEMMA RefusalsAreInvariant == ResultsInv => RefusalIsReal
<1> SUFFICES ASSUME ResultsInv PROVE RefusalIsReal
  OBVIOUS
<1>1. InStep /\ Asked
  BY DEF ResultsInv
<1>2. read = Refused => damage
  <2>1. Entries(journal) = Whole /\ Whole \in Seq(EntryType)
    BY <1>1, WholeIs DEF InStep
  <2>2. Entries(journal) # Refused /\ Refused # Null
    BY <2>1, ResultsAssumption
  <2> QED BY <1>1, <2>2 DEF Asked
<1>3. ASSUME answer.is = Refused, ~damage
      PROVE  answer.question = "result" /\ Cardinality(RanAs(answer.name)) > 1
  <2>1. answer # NoAnswer
    <3>1. NoAnswer.is = Null
      BY DEF NoAnswer
    <3>2. Refused # Null
      BY ResultsAssumption
    <3> QED BY <1>3, <3>1, <3>2
  <2>2. ran = runs /\ Questions /\ read = Whole
    BY <1>3, <2>1, ReadIsWhole
  <2>3. ASSUME NEW name \in Names,
               answer = [question |-> "result", name |-> name, nth |-> 0, is |-> run_result(read, name)]
        PROVE  answer.question = "result" /\ Cardinality(RanAs(answer.name)) > 1
    <3>1. answer.question = "result" /\ answer.name = name /\ answer.is = run_result(read, name)
      BY <2>3
    <3> QED BY <1>1, <1>3, <2>2, <3>1, WholeResult
  <2>4. ASSUME NEW name \in Names, NEW nth \in 0 .. 1,
               answer = [question |-> "result at", name |-> name, nth |-> nth, is |-> run_result_at(read, name, nth)]
        PROVE  FALSE
    <3>1. answer.is = run_result_at(read, name, nth)
      BY <2>4
    <3> QED BY <1>1, <1>3, <2>2, <3>1, WholeResultAt
  <2>5. ASSUME answer = [question |-> "runs", name |-> "", nth |-> 0, is |-> Runs(read)]
        PROVE  FALSE
    <3>1. answer.is = Runs(Whole)
      BY <2>2, <2>5
    <3>2. Runs(Whole) \in Seq(Names)
      BY <1>1, WholeRunsListed
    <3> QED BY <1>3, <3>1, <3>2, ResultsAssumption
  <2>6. ASSUME answer = [question |-> "leaks", name |-> "", nth |-> 0, is |-> Leaks(read, Secret)]
        PROVE  FALSE
    <3>1. answer.is \in BOOLEAN
      BY <2>6 DEF Leaks
    <3> QED BY <1>3, <3>1, ResultsAssumption
  <2> QED BY <2>2, <2>3, <2>4, <2>5, <2>6 DEF Questions
<1> QED BY <1>2, <1>3 DEF RefusalIsReal

-----------------------------------------------------------------------------
(* Whatever was read in place of the journal, an answer is true of the runs  *)
(* there were: JournalEntry's decoding and validation let nothing else pass. *)
THEOREM AnswersAreTrue == ResultsSpec => []AnswerIsTrue
  BY ResultsStart, ResultsStep, AnswersAreInvariant, PTL DEF ResultsSpec

(* A journal that is read as it is always decodes, and is refused nothing   *)
(* but the one result of a name that was run more than once.                *)
THEOREM RefusalsAreReal == ResultsSpec => []RefusalIsReal
  BY ResultsStart, ResultsStep, RefusalsAreInvariant, PTL DEF ResultsSpec

-----------------------------------------------------------------------------
(* A session's launch is one of Launch, its questions are Results': neither  *)
(* part does anything in the other's company that it does not do alone.      *)
LEMMA SessionHasParts == SessionSpec => LaunchSpec /\ ResultsSpec
<1>1. SessionInit => LaunchInit /\ ResultsInit
  BY DEF SessionInit
<1>2. [SessionNext]_sessionVars => [LaunchNext]_launchVars
  <2>1. SessionNext => [LaunchNext]_launchVars
    BY DEF SessionNext, Launches, Questioned
  <2>2. UNCHANGED sessionVars => UNCHANGED launchVars
    BY DEF sessionVars
  <2> QED BY <2>1, <2>2
<1>3. [SessionNext]_sessionVars => [ResultsNext]_resultsVars
  <2>1. SessionNext => [ResultsNext]_resultsVars
    BY DEF SessionNext, Launches, Questioned
  <2>2. UNCHANGED sessionVars => UNCHANGED resultsVars
    BY DEF sessionVars
  <2> QED BY <2>1, <2>2
<1> QED BY <1>1, <1>2, <1>3, PTL DEF SessionSpec, LaunchSpec, ResultsSpec

(* From the gate to the last question: what was shown of the parts holds of  *)
(* every suite, whichever of them ask (Session, over gate.rs:116-155 and     *)
(* introspection.rs:296-367).                                                *)
THEOREM SessionsAreSound ==
  SessionSpec => [](NoEmptyPass /\ RunsAsSpecified /\ AnswerIsTrue /\ RefusalIsReal)
  BY SessionHasParts, NoSuitePassesEmpty, RunsAsAsked, AnswersAreTrue, RefusalsAreReal, PTL
=============================================================================
