------------------------------- MODULE Server -------------------------------
(***************************************************************************)
(* The restate-server processes a test process owns                        *)
(* (crates/restate-e2e-harness/src/server.rs): concurrent launches,        *)
(* readiness, finish and Drop of their handles, the process-wide registry  *)
(* of started groups, the thread that stops everything on SIGINT or        *)
(* SIGTERM, and the base directory each launch leaves or removes.          *)
(*                                                                         *)
(* The operating system - pids, process groups, zombies, signals, other    *)
(* people's processes - is modelled from how server.rs uses it.            *)
(***************************************************************************)
EXTENDS Integers, FiniteSets

CONSTANTS
  Launches,    (* the threads that each launch one server and drop its handle *)
  Pids,        (* the pids the operating system hands out *)
  Old,         (* directory numbers an earlier process with our pid left behind *)
  None,        (* no launch, no pid *)
  MaxDirs,     (* bound: directory numbers are below it *)
  MaxSignals   (* bound: stop signals sent to the test process *)

ASSUME ServerAssumption ==
  /\ None \notin Launches \cup Pids \cup {"handler"}
  /\ Launches \cap {"absent", "old", "other", "handler"} = {}
  /\ MaxDirs \in Nat /\ MaxSignals \in Nat
  /\ Old \subseteq 0 .. (MaxDirs - 1)

VARIABLES
  pc,          (* where each launch stands *)
  child,       (* Process.child of each launch: the pid it spawned, until reaped *)
  keep,        (* Process.keep_evidence of each launch *)
  panicking,   (* the thread of the launch is unwinding *)
  candidate,   (* the directory number each launch tries, then owns *)
  next,        (* launch_directory's NEXT *)
  dir,         (* the directories: "absent", "old", or the launch that made it *)
  once,        (* INSTALL: "new", "running", "done" or "poisoned" *)
  handler,     (* where the stop-signal thread stands *)
  registered,  (* the signals it has registered for *)
  pending,     (* registered signals that have arrived *)
  sent,        (* signals sent so far *)
  lock,        (* who holds STARTED *)
  groups,      (* STARTED.groups *)
  stopping,    (* STARTED.stopping *)
  toKill,      (* groups the handler has still to kill *)
  exited,      (* "no", "handled" (process::exit) or "default" (killed by a signal) *)
  process,     (* the operating system's processes, by the pid that leads the group *)
  trouble,     (* history: launches that went wrong, so their logs matter *)
  made,        (* history: launches that created a directory *)
  swept,       (* history: launches whose directory was removed *)
  stray        (* history: a kill reached a group the suite did not start *)

handle == <<child, keep, panicking>>
storage == <<candidate, next, dir, made, swept>>
signals == <<once, handler, registered, pending, sent, toKill>>
registry == <<lock, groups, stopping>>
vars == <<pc, handle, storage, signals, registry, exited, process, trouble, stray>>

Signals == {"SIGINT", "SIGTERM"}

Up == exited = "no"

Free(p) == process[p].leader = "free" /\ ~process[p].worker

Goto(l, from, to) == pc[l] = from /\ pc' = [pc EXCEPT ![l] = to]

(* A panic on the launching thread: it unwinds to the drop of the handle, *)
(* which has something to stop only once a child was spawned.             *)
Panic(l, from) ==
  /\ Goto(l, from, IF child[l] = None THEN "failed" ELSE "dropping")
  /\ panicking' = [panicking EXCEPT ![l] = TRUE]
  /\ trouble' = trouble \cup {l}

-----------------------------------------------------------------------------
(* launch_directory *)

(* NEXT.fetch_add selects a candidate. *)
SelectDirectory(l) ==
  /\ Up /\ next < MaxDirs
  /\ Goto(l, "new", "create")
  /\ candidate' = [candidate EXCEPT ![l] = next]
  /\ next' = next + 1
  /\ UNCHANGED <<dir, made, swept, handle, signals, registry, exited, process, trouble, stray>>

(* Mutant: a directory that is already there is taken as it is. *)
AdoptDirectory(l) ==
  /\ Up
  /\ Goto(l, "create", "install")
  /\ dir' = [dir EXCEPT ![candidate[l]] = l]
  /\ made' = made \cup {l}
  /\ UNCHANGED <<candidate, next, swept, handle, signals, registry, exited, process, trouble, stray>>

(* Exclusive creation owns it; one that is already there is skipped, and    *)
(* any other error, with or without a directory there, is a panic.          *)
CreateDirectory(l) ==
  /\ Up
  /\ \/ /\ dir[candidate[l]] = "absent"
        /\ Goto(l, "create", "install")
        /\ dir' = [dir EXCEPT ![candidate[l]] = l]
        /\ made' = made \cup {l}
        /\ UNCHANGED <<panicking, trouble>>
     \/ /\ dir[candidate[l]] # "absent"
        /\ Goto(l, "create", "new")
        /\ UNCHANGED <<dir, made, panicking, trouble>>
     \/ /\ Panic(l, "create")
        /\ UNCHANGED <<dir, made>>
  /\ UNCHANGED <<candidate, next, swept, child, keep, signals, registry, exited, process, stray>>

(* The log cannot be created, or a pair of the environment has no value:    *)
(* the directory stays, without a child.                                    *)
PrepareFails(l) ==
  /\ Up
  /\ Panic(l, "install")
  /\ UNCHANGED <<child, keep, storage, signals, registry, exited, process, stray>>

-----------------------------------------------------------------------------
(* stop_on_signal: Once, the handler thread and the handshake with it. *)

(* The first launch to get there starts the thread and waits for it. *)
StartHandler(l) ==
  /\ Up /\ once = "new"
  /\ Goto(l, "install", "handshake")
  /\ once' = "running"
  /\ handler' = "starting"
  /\ UNCHANGED <<registered, pending, sent, toKill, handle, storage, registry, exited, process, trouble, stray>>

(* A later one finds the handler installed, or INSTALL poisoned. *)
HandlerInstalled(l) ==
  /\ Up /\ once = "done"
  /\ Goto(l, "install", "launch")
  /\ UNCHANGED <<handle, storage, signals, registry, exited, process, trouble, stray>>

HandlerPoisoned(l) ==
  /\ Up /\ once = "poisoned"
  /\ Panic(l, "install")
  /\ UNCHANGED <<child, keep, storage, signals, registry, exited, process, stray>>

RegisterInterrupt ==
  /\ Up /\ handler = "starting"
  /\ handler' = "interrupt"
  /\ registered' = registered \cup {"SIGINT"}
  /\ UNCHANGED <<pc, once, pending, sent, toKill, handle, storage, registry, exited, process, trouble, stray>>

RegisterTerminate ==
  /\ Up /\ handler = "interrupt"
  /\ handler' = "ready"
  /\ registered' = registered \cup {"SIGTERM"}
  /\ UNCHANGED <<pc, once, pending, sent, toKill, handle, storage, registry, exited, process, trouble, stray>>

(* The runtime or a registration fails: the thread panics, ready is dropped. *)
RegistrationFails ==
  /\ Up /\ handler \in {"starting", "interrupt"}
  /\ handler' = "dead"
  /\ UNCHANGED <<pc, once, registered, pending, sent, toKill, handle, storage, registry, exited, process, trouble, stray>>

(* Mutant: the launching thread does not wait for the registrations. *)
HandshakeEarly(l) ==
  /\ Up /\ handler # "dead"
  /\ Goto(l, "handshake", "launch")
  /\ once' = "done"
  /\ handler' = IF handler = "ready" THEN "listening" ELSE handler
  /\ UNCHANGED <<registered, pending, sent, toKill, handle, storage, registry, exited, process, trouble, stray>>

(* ready.send meets registered.recv. *)
Handshake(l) ==
  /\ Up /\ handler = "ready"
  /\ Goto(l, "handshake", "launch")
  /\ once' = "done"
  /\ handler' = "listening"
  /\ UNCHANGED <<registered, pending, sent, toKill, handle, storage, registry, exited, process, trouble, stray>>

HandshakeFails(l) ==
  /\ Up /\ handler = "dead"
  /\ Panic(l, "handshake")
  /\ once' = "poisoned"
  /\ UNCHANGED <<handler, registered, pending, sent, toKill, child, keep, storage, registry, exited, process, stray>>

-----------------------------------------------------------------------------
(* Restate::spawn, from the registry lock on. *)

Acquire(who) == lock = None /\ lock' = who

(* A signal is being handled: spawn's assertion panics, releasing the lock. *)
SpawnRefused(l) ==
  /\ Up /\ lock = None /\ stopping
  /\ Panic(l, "launch")
  /\ UNCHANGED <<child, keep, storage, signals, registry, exited, process, stray>>

SpawnFails(l) ==
  /\ Up /\ lock = None /\ ~stopping
  /\ Panic(l, "launch")
  /\ UNCHANGED <<child, keep, storage, signals, registry, exited, process, stray>>

Started(l, p) ==
  /\ Free(p)
  /\ Goto(l, "launch", "register")
  /\ child' = [child EXCEPT ![l] = p]
  /\ keep' = [keep EXCEPT ![l] = TRUE]
  /\ process' = [process EXCEPT ![p] = [leader |-> "alive", worker |-> FALSE, owner |-> l]]

(* The child leads a group of its own; the lock stays held until it is listed. *)
Spawn(l, p) ==
  /\ Up /\ ~stopping
  /\ Acquire(l)
  /\ Started(l, p)
  /\ UNCHANGED <<panicking, storage, signals, groups, stopping, exited, trouble, stray>>

(* Mutant: the guard of the registry outlives the registration. *)
RegisterHeld(l) ==
  /\ Up
  /\ Goto(l, "register", "report")
  /\ groups' = groups \cup {child[l]}
  /\ UNCHANGED <<lock, stopping, handle, storage, signals, exited, process, trouble, stray>>

(* registry.groups.push(group); drop(registry). *)
Register(l) ==
  /\ Up
  /\ Goto(l, "register", "report")
  /\ groups' = groups \cup {child[l]}
  /\ lock' = None
  /\ UNCHANGED <<stopping, handle, storage, signals, exited, process, trouble, stray>>

(* eprintln! of the pid: a broken stderr makes it panic. *)
Report(l) ==
  /\ Up
  /\ \/ /\ Goto(l, "report", "ready")
        /\ UNCHANGED <<panicking, trouble>>
     \/ Panic(l, "report")
  /\ UNCHANGED <<child, keep, storage, signals, registry, exited, process, stray>>

-----------------------------------------------------------------------------
(* ready: supervised stages, then the handle is the test's. *)

(* Mutant: exited() observes with try_wait, which reaps the leader. *)
SeesExitReaping(l) ==
  /\ Up /\ pc[l] = "ready"
  /\ process[child[l]].leader = "zombie"
  /\ process' = [process EXCEPT ![child[l]].leader = "free"]
  /\ Panic(l, "ready")
  /\ UNCHANGED <<child, keep, storage, signals, registry, exited, stray>>

(* exited() reports a child that is gone, leaving it unreaped. *)
SeesExit(l) ==
  /\ Up /\ pc[l] = "ready"
  /\ process[child[l]].leader = "zombie"
  /\ Panic(l, "ready")
  /\ UNCHANGED <<child, keep, storage, signals, registry, exited, process, stray>>

(* The deadline passes, or /version is not what the specification says. *)
ReadyFails(l) ==
  /\ Up
  /\ Panic(l, "ready")
  /\ UNCHANGED <<child, keep, storage, signals, registry, exited, process, stray>>

(* Every probe answered and the last inspection saw the child running. *)
ReadySucceeds(l) ==
  /\ Up /\ pc[l] = "ready"
  /\ process[child[l]].leader = "alive"
  /\ Goto(l, "ready", "up")
  /\ keep' = [keep EXCEPT ![l] = FALSE]
  /\ UNCHANGED <<child, panicking, storage, signals, registry, exited, process, trouble, stray>>

(* The future of ready, or of a finish, is dropped before it completed. *)
Cancelled(l) ==
  /\ Up
  /\ \/ Goto(l, "ready", "dropping")
     \/ Goto(l, "finishing", "dropping")
  /\ trouble' = trouble \cup {l}
  /\ UNCHANGED <<handle, storage, signals, registry, exited, process, stray>>

-----------------------------------------------------------------------------
(* The test's own steps, finish and finish_with_failures. *)

TestPanics(l) ==
  /\ Up
  /\ Panic(l, "up")
  /\ UNCHANGED <<child, keep, storage, signals, registry, exited, process, stray>>

LetGo(l) ==
  /\ Up
  /\ Goto(l, "up", "dropping")
  /\ UNCHANGED <<handle, storage, signals, registry, exited, process, trouble, stray>>

(* Mutant: the evidence is retained only once endpoints were found to fail. *)
FinishUnretained(l) ==
  /\ Up
  /\ Goto(l, "up", "finishing")
  /\ UNCHANGED <<handle, storage, signals, registry, exited, process, trouble, stray>>

(* retain_evidence comes before the future exists. *)
Finish(l) ==
  /\ Up
  /\ Goto(l, "up", "finishing")
  /\ keep' = [keep EXCEPT ![l] = TRUE]
  /\ UNCHANGED <<child, panicking, storage, signals, registry, exited, process, trouble, stray>>

(* finish_endpoints found no failure. *)
FinishClean(l) ==
  /\ Up
  /\ Goto(l, "finishing", "dropping")
  /\ keep' = [keep EXCEPT ![l] = FALSE]
  /\ UNCHANGED <<child, panicking, storage, signals, registry, exited, process, trouble, stray>>

(* It found some: finish asserts, finish_with_failures returns them. *)
FinishFailed(l) ==
  /\ Up
  /\ keep' = [keep EXCEPT ![l] = TRUE]
  /\ \/ Panic(l, "finishing")
     \/ /\ Goto(l, "finishing", "dropping")
        /\ trouble' = trouble \cup {l}
        /\ UNCHANGED panicking
  /\ UNCHANGED <<child, storage, signals, registry, exited, process, stray>>

-----------------------------------------------------------------------------
(* Drop, and the group both it and the signal handler kill. *)

Lives(p) == process[p].leader = "alive" \/ process[p].worker

(* SIGKILL to the group p leads; one already gone is the wanted state. *)
kill_group(p) ==
  /\ stray' = (stray \/ (Lives(p) /\ process[p].owner \notin Launches))
  /\ process' = [process EXCEPT
       ![p].leader = IF @ = "alive" THEN "zombie" ELSE @,
       ![p].worker = FALSE]

LockToDrop(l) ==
  /\ Up
  /\ Acquire(l)
  /\ Goto(l, "dropping", "kill")
  /\ UNCHANGED <<groups, stopping, handle, storage, signals, exited, process, trouble, stray>>

(* kill_group(group). *)
KillOwn(l) ==
  /\ Up /\ pc[l] = "kill"
  /\ kill_group(child[l])
  /\ Goto(l, "kill", "reap")
  /\ UNCHANGED <<handle, storage, signals, registry, exited, trouble>>

(* process.child.wait(). *)
Reap(l) ==
  /\ Up /\ pc[l] = "reap"
  /\ process' = [process EXCEPT ![child[l]].leader = IF @ = "zombie" THEN "free" ELSE @]
  /\ Goto(l, "reap", "reaped")
  /\ UNCHANGED <<handle, storage, signals, registry, exited, trouble, stray>>

(* registry.groups.retain; drop(registry). *)
Unregister(l) ==
  /\ Up
  /\ Goto(l, "reaped", "sweep")
  /\ groups' = groups \ {child[l]}
  /\ lock' = None
  /\ child' = [child EXCEPT ![l] = None]
  /\ UNCHANGED <<keep, panicking, stopping, storage, signals, exited, process, trouble, stray>>

(* The base directory is kept as evidence, or removed. *)
Sweep(l) ==
  /\ Up
  /\ Goto(l, "sweep", "gone")
  /\ IF keep[l] \/ panicking[l]
       THEN UNCHANGED <<dir, swept>>
       ELSE /\ dir' = [dir EXCEPT ![candidate[l]] = "absent"]
            /\ swept' = swept \cup {l}
  /\ UNCHANGED <<candidate, next, made, handle, signals, registry, exited, process, trouble, stray>>

-----------------------------------------------------------------------------
(* The stop-signal thread. *)

(* A signal reaches the process: its default action ends it, unless the *)
(* handler has registered for it by then.                               *)
Signal(s) ==
  /\ Up /\ sent < MaxSignals
  /\ sent' = sent + 1
  /\ IF s \in registered
       THEN /\ pending' = pending \cup {s}
            /\ UNCHANGED exited
       ELSE /\ exited' = "default"
            /\ UNCHANGED pending
  /\ UNCHANGED <<pc, once, handler, registered, toKill, handle, storage, registry, process, trouble, stray>>

(* The select wakes, and the handler takes the registry for itself. *)
Stop ==
  /\ Up /\ handler = "listening" /\ pending # {}
  /\ Acquire("handler")
  /\ handler' = "stopping"
  /\ stopping' = TRUE
  /\ toKill' = groups
  /\ UNCHANGED <<pc, once, registered, pending, sent, groups, handle, storage, exited, process, trouble, stray>>

StopGroup(p) ==
  /\ Up /\ handler = "stopping" /\ p \in toKill
  /\ kill_group(p)
  /\ toKill' = toKill \ {p}
  /\ UNCHANGED <<pc, once, handler, registered, pending, sent, handle, storage, registry, exited, trouble>>

Stopped ==
  /\ Up /\ handler = "stopping" /\ toKill = {}
  /\ handler' = "exiting"
  /\ lock' = None
  /\ UNCHANGED <<pc, once, registered, pending, sent, toKill, groups, stopping, handle, storage, exited, process, trouble, stray>>

(* process::exit, with nobody's Drop. *)
Exit ==
  /\ Up /\ handler = "exiting"
  /\ exited' = "handled"
  /\ UNCHANGED <<pc, handle, storage, signals, registry, process, trouble, stray>>

-----------------------------------------------------------------------------
(* The processes themselves. *)

OnlyProcesses == UNCHANGED <<pc, handle, storage, signals, registry, exited, trouble, stray>>

(* A server's leader forks a worker into its group. *)
Fork(p) ==
  /\ Up /\ process[p].leader = "alive" /\ process[p].owner \in Launches
  /\ process' = [process EXCEPT ![p].worker = TRUE]
  /\ OnlyProcesses

(* A leader exits: a child stays a zombie until waited for, anybody else's *)
(* is reaped by its parent.                                                *)
LeaderExits(p) ==
  /\ Up /\ process[p].leader = "alive"
  /\ process' = [process EXCEPT
       ![p].leader = IF process[p].owner \in Launches THEN "zombie" ELSE "free"]
  /\ OnlyProcesses

(* Somebody else's process gets a pid that is free. *)
Elsewhere(p) ==
  /\ Up /\ Free(p)
  /\ process' = [process EXCEPT ![p] = [leader |-> "alive", worker |-> FALSE, owner |-> None]]
  /\ OnlyProcesses

-----------------------------------------------------------------------------
Init ==
  /\ pc = [l \in Launches |-> "new"]
  /\ child = [l \in Launches |-> None]
  /\ keep = [l \in Launches |-> FALSE]
  /\ panicking = [l \in Launches |-> FALSE]
  /\ candidate = [l \in Launches |-> 0]
  /\ next = 0
  /\ dir = [d \in 0 .. (MaxDirs - 1) |-> IF d \in Old THEN "old" ELSE "absent"]
  /\ once = "new" /\ handler = "none"
  /\ registered = {} /\ pending = {} /\ sent = 0
  /\ lock = None /\ groups = {} /\ stopping = FALSE /\ toKill = {}
  /\ exited = "no"
  /\ process = [p \in Pids |-> [leader |-> "free", worker |-> FALSE, owner |-> None]]
  /\ trouble = {} /\ made = {} /\ swept = {} /\ stray = FALSE

(* What a launching thread does by itself. *)
Launch(l) ==
  \/ SelectDirectory(l) \/ CreateDirectory(l)
  \/ StartHandler(l) \/ HandlerInstalled(l) \/ HandlerPoisoned(l)
  \/ Handshake(l) \/ HandshakeFails(l)
  \/ SpawnRefused(l) \/ SpawnFails(l) \/ (\E p \in Pids : Spawn(l, p))
  \/ Register(l) \/ Report(l)
  \/ SeesExit(l) \/ ReadyFails(l) \/ ReadySucceeds(l)
  \/ FinishClean(l) \/ FinishFailed(l)
  \/ LockToDrop(l) \/ KillOwn(l) \/ Reap(l) \/ Unregister(l) \/ Sweep(l)

(* What the test decides, when it does, and what may go wrong. *)
Test(l) == PrepareFails(l) \/ Cancelled(l) \/ TestPanics(l) \/ LetGo(l) \/ Finish(l)

Handler ==
  \/ RegisterInterrupt \/ RegisterTerminate \/ RegistrationFails
  \/ Stop \/ (\E p \in Pids : StopGroup(p)) \/ Stopped \/ Exit

System ==
  \/ \E s \in Signals : Signal(s)
  \/ \E p \in Pids : Fork(p) \/ LeaderExits(p) \/ Elsewhere(p)

Next == (\E l \in Launches : Launch(l) \/ Test(l)) \/ Handler \/ System

(* Every thread of the test process goes on running; the test owes nothing. *)
Spec == Init /\ [][Next]_vars /\ (\A l \in Launches : WF_vars(Launch(l))) /\ WF_vars(Handler)

-----------------------------------------------------------------------------
(* Where a launch holds the registry. *)
Critical == {"register", "kill", "reap", "reaped"}

(* No process of a server outlives its owner: neither the handle that was    *)
(* dropped, though its leader may have exited before its workers, nor the    *)
(* test process, however a stop signal ends it - handled, or by default      *)
(* before the handler is there (stop_on_signal: "without this, a Ctrl-C      *)
(* leaves the server").                                                      *)
NoOrphan ==
  \A p \in Pids :
    process[p].owner \in Launches /\ (~Up \/ pc[process[p].owner] \in {"sweep", "gone"}) => ~Lives(p)

(* No group of somebody else is ever killed: a pid in the registry, or about *)
(* to be killed by a Drop, is still reserved by a leader nobody reaped       *)
(* (exit_status: "the zombie leader reserves its pid until Drop").           *)
NoStrayKill == ~stray

(* "Exclusive creation owns them", "even if a previous process with this pid *)
(* left evidence behind" (launch_directory): that evidence stays, a launch   *)
(* works in a directory it created and keeps it until it sweeps it itself,   *)
(* whatever other launches create, sweep or fail to create meanwhile, and    *)
(* one that created none neither starts a server nor sweeps anything.        *)
DirectoriesOwned ==
  /\ \A d \in Old : dir[d] = "old"
  /\ \A l \in made \ swept : dir[candidate[l]] = l
  /\ \A l \in Launches \ made : child[l] = None /\ pc[l] \in {"new", "create", "failed"}
  /\ swept \subseteq made

(* The directory of a launch that failed, was cancelled, had endpoint        *)
(* failures or ran in a panicking test is kept (Process.keep_evidence).      *)
EvidenceKept == swept \cap trouble = {}

(* Once a signal is being handled, no new server starts                      *)
(* (spawn's "cannot launch a Restate server during signal shutdown").        *)
NothingStartsWhileStopping ==
  [][stopping => \A l \in Launches : child[l] = None => child'[l] = None]_vars

(* A signal the installed handler has received ends the process.             *)
SignalEnds == (handler = "listening" /\ pending # {}) ~> ~Up

(* A launch never waits for ever, on the handshake, the registry or a Drop:  *)
(* it gets to the test's hands, or to an end.                                *)
Settled(l) == pc[l] \in {"up", "gone", "failed"} \/ ~Up
LaunchesSettle == \A l \in Launches : pc[l] # "new" ~> Settled(l)
=============================================================================
