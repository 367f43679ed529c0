---------------------------- MODULE ServerProofs ----------------------------
(***************************************************************************)
(* Server's safety, for any launches, pids and bounds. Inv strengthens its *)
(* invariants until every step preserves them: who holds the registry,     *)
(* which processes are children and of whom, what is registered, what the  *)
(* handler has still to kill, what its signals imply, and which launches   *)
(* keep their evidence.                                                    *)
(***************************************************************************)
EXTENDS Server, TLAPS

HasChild == {"register", "report", "ready", "up", "finishing", "dropping", "kill", "reap", "reaped"}
Listed == HasChild \ {"register"}
Spawned == HasChild \ {"reaped"}
Ending == {"dropping", "kill", "reap", "reaped", "sweep", "gone"}

Processes ==
  [Pids -> [leader : {"free", "alive", "zombie"}, worker : BOOLEAN, owner : Launches \cup {None}]]

(* The plain types, which every step needs. *)
Types ==
  /\ pc \in [Launches -> {"new", "create", "install", "handshake", "launch", "register",
                          "report", "ready", "up", "finishing", "dropping", "kill", "reap",
                          "reaped", "sweep", "gone", "failed"}]
  /\ child \in [Launches -> Pids \cup {None}]
  /\ keep \in [Launches -> BOOLEAN] /\ panicking \in [Launches -> BOOLEAN]
  /\ process \in Processes
  /\ groups \subseteq Pids /\ toKill \subseteq Pids
  /\ trouble \subseteq Launches /\ made \subseteq Launches /\ swept \subseteq Launches

(* Whoever is in a critical section is the one who holds the registry. *)
Locks ==
  /\ lock \in Launches \cup {None, "handler"}
  /\ \A l \in Launches : pc[l] \in Critical <=> lock = l
  /\ lock = "handler" <=> handler = "stopping"

(* Each launch's child is its own until it is reaped, and no other launch's. *)
Children ==
  /\ \A l \in Launches : child[l] # None <=> pc[l] \in HasChild
  /\ \A l \in Launches : pc[l] \in Spawned =>
       process[child[l]].owner = l /\ process[child[l]].leader # "free"
  /\ \A l \in Launches : pc[l] = "reap" =>
       process[child[l]].leader = "zombie" /\ ~process[child[l]].worker
  /\ \A l \in Launches : pc[l] = "reaped" => process[child[l]].owner \in {l, None}
  /\ \A l, m \in Launches : child[l] # None /\ child[l] = child[m] => l = m

(* A process of the suite's that lives is a child nobody has reaped. *)
Accounted ==
  \A p \in Pids : process[p].owner \in Launches /\ Lives(p) =>
    LET l == process[p].owner IN child[l] = p /\ pc[l] \in Spawned

Registry == \A p \in Pids : p \in groups <=> \E l \in Launches : child[l] = p /\ pc[l] \in Listed

(* What a signal's handling has reached. *)
Stopping ==
  /\ stopping <=> handler \in {"stopping", "exiting"}
  /\ handler = "stopping" => toKill \subseteq groups
  /\ handler = "exiting" => toKill = {}
  /\ stopping => \A p \in Pids : process[p].owner \in Launches /\ Lives(p) => p \in toKill

(* No launch gets as far as spawning before both signals are registered. *)
Handshaken ==
  /\ \A l \in Launches : pc[l] \in {"launch"} \cup HasChild => once = "done"
  /\ registered \subseteq Signals
  /\ once = "new" => handler = "none"
  /\ once = "done" => registered = Signals
  /\ handler = "interrupt" => "SIGINT" \in registered
  /\ handler = "ready" => registered = Signals
  /\ \A l \in Launches : pc[l] = "handshake" => once = "running"
  /\ \A l, m \in Launches : pc[l] = "handshake" /\ pc[m] = "handshake" => l = m

(* Whatever went wrong with a launch, its evidence is marked to be kept. *)
Evidence ==
  /\ \A l \in Launches : pc[l] \in {"register", "report", "ready", "finishing"} => keep[l]
  /\ \A l \in trouble : pc[l] \in Ending \cup {"failed"}
  /\ \A l \in trouble : pc[l] \in Ending => keep[l] \/ panicking[l]
  /\ \A l \in swept : pc[l] = "gone"
  /\ swept \cap trouble = {}

Directories ==
  /\ candidate \in [Launches -> Int] /\ next \in Nat
  /\ dir \in [0 .. (MaxDirs - 1) -> {"absent", "old"} \cup Launches]
  /\ \A l \in Launches : pc[l] # "new" => candidate[l] \in 0 .. (MaxDirs - 1)
  /\ \A l \in made : pc[l] \notin {"new", "create"}
  /\ DirectoriesOwned

(* NoOrphan, where Accounted does not already say it. *)
StoppedWithProcess ==
  ~Up => \A p \in Pids : process[p].owner \in Launches => ~Lives(p)

Inv ==
  Types /\ Locks /\ Children /\ Accounted /\ Registry /\ Stopping /\ Handshaken
  /\ Evidence /\ Directories /\ StoppedWithProcess /\ NoStrayKill

-----------------------------------------------------------------------------
(* Each part of the invariant is kept by every step; the actions that cannot *)
(* disturb a part are taken together.                                        *)

(* The registry changes hands only in spawn, in Drop and in the handler.     *)
LEMMA LocksKept == ASSUME Types, Locks, Handshaken, Next PROVE Locks'
<1> USE ServerAssumption DEF Types, Locks, Goto, Critical
<1>1. ASSUME NEW l \in Launches, Launch(l) PROVE Locks'
  <2>0. CASE SelectDirectory(l) \/ CreateDirectory(l) \/ StartHandler(l) \/ HandlerInstalled(l)
    BY <2>0 DEF SelectDirectory, CreateDirectory, StartHandler, HandlerInstalled, Panic, Handshaken, registry, signals
  <2>1. CASE HandlerPoisoned(l) \/ Handshake(l) \/ HandshakeFails(l)
    BY <2>1 DEF HandlerPoisoned, Handshake, HandshakeFails, Panic, registry, signals
  <2>2. CASE SpawnRefused(l) \/ SpawnFails(l) \/ Report(l)
    BY <2>2 DEF SpawnRefused, SpawnFails, Report, Panic, registry, signals
  <2>3. CASE \/ SeesExit(l) \/ ReadyFails(l) \/ ReadySucceeds(l)
             \/ FinishClean(l) \/ FinishFailed(l) \/ Sweep(l)
    BY <2>3 DEF SeesExit, ReadyFails, ReadySucceeds, FinishClean, FinishFailed, Sweep, Panic,
       registry, signals
  <2>4. CASE \E p \in Pids : Spawn(l, p)
    BY <2>4 DEF Spawn, Started, Acquire, signals
  <2>5. CASE Register(l)
    BY <2>5 DEF Register, signals
  <2>6. CASE LockToDrop(l)
    BY <2>6 DEF LockToDrop, Acquire, signals
  <2>7. CASE KillOwn(l) \/ Reap(l)
    BY <2>7 DEF KillOwn, Reap, registry, signals
  <2>8. CASE Unregister(l)
    BY <2>8 DEF Unregister, signals
  <2> QED BY <1>1, <2>0, <2>1, <2>2, <2>3, <2>4, <2>5, <2>6, <2>7, <2>8 DEF Launch
<1>2. ASSUME NEW l \in Launches, Test(l) PROVE Locks'
  BY <1>2 DEF Test, PrepareFails, Cancelled, TestPanics, LetGo, Finish, Panic, registry, signals
<1>3. CASE Handler
  BY <1>3 DEF Handler, RegisterInterrupt, RegisterTerminate, RegistrationFails, Stop, StopGroup,
     Stopped, Exit, Acquire, registry, signals
<1>4. CASE System
  BY <1>4 DEF System, Signal, Fork, LeaderExits, Elsewhere, OnlyProcesses, registry, signals
<1> QED BY <1>1, <1>2, <1>3, <1>4 DEF Next

(* What a kill makes of the processes is a state of them. *)
LEMMA KillTyped == ASSUME Types, NEW p \in Pids, kill_group(p) PROVE process' \in Processes
<1>1. process[p].leader \in {"free", "alive", "zombie"} /\ process[p].owner \in Launches \cup {None}
  BY DEF Types, Processes
<1>2. PICK s \in {"free", "alive", "zombie"} :
        process' = [process EXCEPT ![p].leader = s, ![p].worker = FALSE]
  BY <1>1 DEF kill_group
<1> QED BY <1>2, ZenonT(60) DEF Types, Processes

(* What it makes of them, pid by pid: the leader is dead, and so is the worker. *)
LEMMA KillIs ==
  ASSUME Types, NEW p \in Pids, kill_group(p)
  PROVE  /\ \A q \in Pids : process'[q].owner = process[q].owner
         /\ \A q \in Pids \ {p} : process'[q] = process[q]
         /\ process'[p].leader = IF process[p].leader = "alive" THEN "zombie" ELSE process[p].leader
         /\ process'[p].worker = FALSE
  BY DEF Types, Processes, kill_group

(* A launch that moves on its own changes its handle, and nothing else here.  *)
LEMMA TypesKept == ASSUME Types, Children, Next PROVE Types'
<1> USE ServerAssumption DEF Types, Goto
<1>1. ASSUME NEW l \in Launches, Launch(l) PROVE Types'
  <2>1. CASE SelectDirectory(l) \/ CreateDirectory(l) \/ StartHandler(l) \/ HandlerInstalled(l)
    <3>1. CASE CreateDirectory(l)
      <4>1. CASE Panic(l, "create") /\ UNCHANGED <<dir, made>>
        BY <3>1, <4>1 DEF CreateDirectory, Panic, registry, signals
      <4>2. CASE ~(Panic(l, "create") /\ UNCHANGED <<dir, made>>)
        BY <3>1, <4>2 DEF CreateDirectory, registry, signals
      <4> QED BY <4>1, <4>2
    <3>2. CASE SelectDirectory(l) \/ StartHandler(l) \/ HandlerInstalled(l)
      BY <3>2 DEF SelectDirectory, StartHandler, HandlerInstalled, registry, signals, handle, storage
    <3> QED BY <2>1, <3>1, <3>2
  <2>2. CASE HandlerPoisoned(l) \/ Handshake(l) \/ HandshakeFails(l)
    BY <2>2, ZenonT(60) DEF HandlerPoisoned, Handshake, HandshakeFails, Panic, registry, signals, handle, storage
  <2>3. CASE SpawnRefused(l) \/ SpawnFails(l)
    BY <2>3, ZenonT(60) DEF SpawnRefused, SpawnFails, Panic, registry, signals, storage
  <2>4. CASE \E p \in Pids : Spawn(l, p)
    BY <2>4 DEF Spawn, Started, Processes, signals, storage
  <2>5. CASE Register(l)
    BY <2>5 DEF Register, Children, HasChild, signals, handle, storage
  <2>6. CASE Report(l)
    BY <2>6, ZenonT(60) DEF Report, Panic, registry, signals, storage
  <2>7. CASE SeesExit(l) \/ ReadyFails(l)
    BY <2>7, ZenonT(60) DEF SeesExit, ReadyFails, Panic, registry, signals, storage
  <2>8. CASE ReadySucceeds(l) \/ FinishClean(l)
    BY <2>8 DEF ReadySucceeds, FinishClean, registry, signals, storage
  <2>9. CASE FinishFailed(l)
    <3>1. keep' \in [Launches -> BOOLEAN] /\ UNCHANGED <<child, storage, signals, registry, process>>
      BY <2>9 DEF FinishFailed
    <3>2. CASE Panic(l, "finishing")
      BY <3>1, <3>2 DEF Panic, registry, signals, storage
    <3>3. CASE Goto(l, "finishing", "dropping") /\ trouble' = trouble \cup {l} /\ UNCHANGED panicking
      BY <3>1, <3>3 DEF registry, signals, storage
    <3> QED BY <2>9, <3>2, <3>3 DEF FinishFailed
  <2>10. CASE LockToDrop(l) \/ Unregister(l)
    BY <2>10 DEF LockToDrop, Unregister, registry, signals, handle, storage
  <2>11. CASE KillOwn(l)
    <3>1. child[l] \in Pids
      BY <2>11 DEF KillOwn, Children, HasChild
    <3>2. process' \in Processes
      BY <2>11, <3>1, KillTyped DEF KillOwn
    <3> QED BY <2>11, <3>2 DEF KillOwn, registry, signals, handle, storage
  <2>12. CASE Reap(l)
    BY <2>12 DEF Reap, Children, HasChild, Processes, registry, signals, handle, storage
  <2>13. CASE Sweep(l)
    BY <2>13 DEF Sweep, registry, signals, handle
  <2> QED BY <1>1, <2>1, <2>2, <2>3, <2>4, <2>5, <2>6, <2>7, <2>8, <2>9, <2>10, <2>11, <2>12, <2>13
      DEF Launch
<1>2. ASSUME NEW l \in Launches, Test(l) PROVE Types'
  <2>1. CASE Cancelled(l) \/ LetGo(l)
    BY <2>1 DEF Cancelled, LetGo, registry, signals, handle, storage
  <2>2. CASE TestPanics(l) \/ PrepareFails(l)
    BY <2>2, ZenonT(60) DEF TestPanics, PrepareFails, Panic, registry, signals, storage
  <2>3. CASE Finish(l)
    BY <2>3 DEF Finish, registry, signals, storage
  <2> QED BY <1>2, <2>1, <2>2, <2>3 DEF Test
<1>3. CASE Handler
  <2>1. CASE RegisterInterrupt \/ RegisterTerminate \/ RegistrationFails \/ Stop \/ Stopped \/ Exit
    BY <2>1 DEF RegisterInterrupt, RegisterTerminate, RegistrationFails, Stop, Stopped, Exit, registry,
       signals, handle, storage
  <2>2. ASSUME NEW p \in Pids, StopGroup(p) PROVE Types'
    <3>1. process' \in Processes
      BY <2>2, KillTyped DEF StopGroup
    <3> QED BY <2>2, <3>1 DEF StopGroup, registry, signals, handle, storage
  <2> QED BY <1>3, <2>1, <2>2 DEF Handler
<1>4. CASE System
  <2>1. ASSUME NEW s \in Signals, Signal(s) PROVE Types'
    BY <2>1 DEF Signal, registry, handle, storage
  <2>2. ASSUME NEW p \in Pids, Fork(p) PROVE Types'
    <3>1. process' \in Processes
      BY <2>2, ZenonT(60) DEF Fork, Processes
    <3> QED BY <2>2, <3>1 DEF Fork, OnlyProcesses, registry, signals, handle, storage
  <2>3. ASSUME NEW p \in Pids, LeaderExits(p) \/ Elsewhere(p) PROVE Types'
    <3>1. CASE LeaderExits(p)
      <4>1. process' \in Processes
        BY <3>1 DEF LeaderExits, Processes
      <4> QED BY <3>1, <4>1 DEF LeaderExits, OnlyProcesses, registry, signals, handle, storage
    <3>2. CASE Elsewhere(p)
      <4>1. process' \in Processes
        BY <3>2 DEF Elsewhere, Processes
      <4> QED BY <3>2, <4>1 DEF Elsewhere, OnlyProcesses, registry, signals, handle, storage
    <3> QED BY <2>3, <3>1, <3>2
  <2> QED BY <1>4, <2>1, <2>2, <2>3 DEF System
<1> QED BY <1>1, <1>2, <1>3, <1>4 DEF Next

(* Only spawn makes a child, of a free pid; only Drop lets one go, once it is reaped. *)
LEMMA ChildrenKept == ASSUME Types, Locks, Children, Next PROVE Children'
<1> USE ServerAssumption DEF Types, Processes, Locks, Children, HasChild, Spawned, Critical, Goto
<1>1. ASSUME NEW l \in Launches, Launch(l) PROVE Children'
  <2>1. CASE SelectDirectory(l) \/ CreateDirectory(l)
    BY <2>1 DEF SelectDirectory, CreateDirectory, Panic, registry, signals, handle, storage
  <2>2. CASE StartHandler(l) \/ HandlerInstalled(l)
    BY <2>2 DEF StartHandler, HandlerInstalled, registry, signals, handle, storage
  <2>3. CASE HandlerPoisoned(l)
    BY <2>3 DEF HandlerPoisoned, Panic, registry, signals, handle, storage
  <2>4. CASE Handshake(l) \/ HandshakeFails(l)
    BY <2>4 DEF Handshake, HandshakeFails, Panic, registry, signals, handle, storage
  <2>5. CASE SpawnRefused(l) \/ SpawnFails(l) \/ Report(l)
    BY <2>5 DEF SpawnRefused, SpawnFails, Report, Panic, registry, signals, handle,
       storage
  <2>6. CASE SeesExit(l) \/ ReadyFails(l) \/ ReadySucceeds(l)
    BY <2>6 DEF SeesExit, ReadyFails, ReadySucceeds, Panic, registry, signals, handle,
       storage
  <2>7. CASE FinishClean(l) \/ FinishFailed(l) \/ Sweep(l)
    BY <2>7 DEF FinishClean, FinishFailed, Sweep, Panic, registry, signals, handle,
       storage
  <2>8. CASE \E p \in Pids : Spawn(l, p)
    BY <2>8 DEF Spawn, Started, Free, Acquire, registry, signals, handle, storage
  <2>9. CASE Register(l)
    BY <2>9 DEF Register, registry, signals, handle, storage
  <2>10. CASE LockToDrop(l)
    BY <2>10 DEF LockToDrop, Acquire, registry, signals, handle, storage
  <2>11. CASE KillOwn(l)
    <3>1. child[l] \in Pids
      BY <2>11 DEF KillOwn
    <3>2. /\ \A q \in Pids : process'[q].owner = process[q].owner
          /\ \A q \in Pids \ {child[l]} : process'[q] = process[q]
          /\ process'[child[l]].leader =
               IF process[child[l]].leader = "alive" THEN "zombie" ELSE process[child[l]].leader
          /\ process'[child[l]].worker = FALSE
      BY <2>11, <3>1, KillIs DEF KillOwn
    <3> QED BY <2>11, <3>1, <3>2 DEF KillOwn, registry, signals, handle, storage
  <2>12. CASE Reap(l)
    BY <2>12 DEF Reap, registry, signals, handle, storage
  <2>13. CASE Unregister(l)
    BY <2>13 DEF Unregister, registry, signals, handle, storage
  <2> QED BY <1>1, <2>1, <2>2, <2>3, <2>4, <2>5, <2>6, <2>7, <2>8, <2>9, <2>10, <2>11,
     <2>12, <2>13 DEF Launch
<1>2. ASSUME NEW l \in Launches, Test(l) PROVE Children'
  BY <1>2 DEF Test, PrepareFails, Cancelled, TestPanics, LetGo, Finish, Panic, registry, signals,
     handle, storage
<1>3. CASE Handler
  <2>1. CASE RegisterInterrupt \/ RegisterTerminate \/ RegistrationFails
    BY <2>1 DEF RegisterInterrupt, RegisterTerminate, RegistrationFails, registry,
       signals, handle, storage
  <2>2. CASE Stop
    BY <2>2 DEF Stop, Acquire, registry, signals, handle, storage
  <2>3. CASE \E p \in Pids : StopGroup(p)
    BY <2>3 DEF StopGroup, kill_group, registry, signals, handle, storage
  <2>4. CASE Stopped \/ Exit
    BY <2>4 DEF Stopped, Exit, registry, signals, handle, storage
  <2> QED BY <1>3, <2>1, <2>2, <2>3, <2>4 DEF Handler
<1>4. CASE System
  BY <1>4, SMTT(40) DEF System, Signal, Fork, LeaderExits, Elsewhere, Free, OnlyProcesses,
     registry, signals, handle, storage
<1> QED BY <1>1, <1>2, <1>3, <1>4 DEF Next

(* Nothing but a spawn brings a process of the suite's to life. *)
LEMMA AccountedKept == ASSUME Types, Children, Accounted, Next PROVE Accounted'
<1> USE ServerAssumption DEF Types, Processes, Children, Accounted, HasChild, Spawned, Lives, Goto
<1>1. ASSUME NEW l \in Launches, Launch(l) PROVE Accounted'
  <2>1. CASE SelectDirectory(l) \/ CreateDirectory(l)
    BY <2>1 DEF SelectDirectory, CreateDirectory, Panic, registry, signals, handle, storage
  <2>2. CASE StartHandler(l) \/ HandlerInstalled(l)
    BY <2>2 DEF StartHandler, HandlerInstalled, registry, signals, handle, storage
  <2>3. CASE HandlerPoisoned(l)
    BY <2>3 DEF HandlerPoisoned, Panic, registry, signals, handle, storage
  <2>4. CASE Handshake(l) \/ HandshakeFails(l)
    BY <2>4 DEF Handshake, HandshakeFails, Panic, registry, signals, handle, storage
  <2>5. CASE SpawnRefused(l) \/ SpawnFails(l) \/ Report(l)
    BY <2>5 DEF SpawnRefused, SpawnFails, Report, Panic, registry, signals, handle,
       storage
  <2>6. CASE SeesExit(l) \/ ReadyFails(l) \/ ReadySucceeds(l)
    BY <2>6 DEF SeesExit, ReadyFails, ReadySucceeds, Panic, registry, signals, handle,
       storage
  <2>7. CASE FinishClean(l) \/ FinishFailed(l) \/ Sweep(l)
    BY <2>7 DEF FinishClean, FinishFailed, Sweep, Panic, registry, signals, handle,
       storage
  <2>8. CASE \E p \in Pids : Spawn(l, p)
    BY <2>8 DEF Spawn, Started, Free, Acquire, registry, signals, handle, storage
  <2>9. CASE Register(l)
    BY <2>9 DEF Register, registry, signals, handle, storage
  <2>10. CASE LockToDrop(l)
    BY <2>10 DEF LockToDrop, Acquire, registry, signals, handle, storage
  <2>11. CASE KillOwn(l)
    <3>1. child[l] \in Pids
      BY <2>11 DEF KillOwn
    <3>2. /\ \A q \in Pids : process'[q].owner = process[q].owner
          /\ \A q \in Pids \ {child[l]} : process'[q] = process[q]
          /\ process'[child[l]].leader =
               IF process[child[l]].leader = "alive" THEN "zombie" ELSE process[child[l]].leader
          /\ process'[child[l]].worker = FALSE
      BY <2>11, <3>1, KillIs DEF KillOwn
    <3> QED BY <2>11, <3>1, <3>2 DEF KillOwn, registry, signals, handle, storage
  <2>12. CASE Reap(l)
    BY <2>12 DEF Reap, registry, signals, handle, storage
  <2>13. CASE Unregister(l)
    BY <2>13 DEF Unregister, registry, signals, handle, storage
  <2> QED BY <1>1, <2>1, <2>2, <2>3, <2>4, <2>5, <2>6, <2>7, <2>8, <2>9, <2>10, <2>11,
     <2>12, <2>13 DEF Launch
<1>2. ASSUME NEW l \in Launches, Test(l) PROVE Accounted'
  BY <1>2 DEF Test, PrepareFails, Cancelled, TestPanics, LetGo, Finish, Panic, registry, signals,
     handle, storage
<1>3. CASE Handler
  <2>1. CASE RegisterInterrupt \/ RegisterTerminate \/ RegistrationFails
    BY <2>1 DEF RegisterInterrupt, RegisterTerminate, RegistrationFails, registry,
       signals, handle, storage
  <2>2. CASE Stop
    BY <2>2 DEF Stop, Acquire, registry, signals, handle, storage
  <2>3. CASE \E p \in Pids : StopGroup(p)
    BY <2>3 DEF StopGroup, kill_group, registry, signals, handle, storage
  <2>4. CASE Stopped \/ Exit
    BY <2>4 DEF Stopped, Exit, registry, signals, handle, storage
  <2> QED BY <1>3, <2>1, <2>2, <2>3, <2>4 DEF Handler
<1>4. CASE System
  BY <1>4 DEF System, Signal, Fork, LeaderExits, Elsewhere, Free, OnlyProcesses,
     registry, signals, handle, storage
<1> QED BY <1>1, <1>2, <1>3, <1>4 DEF Next

(* The registry lists a child from Register to Unregister. *)
LEMMA RegistryKept == ASSUME Types, Children, Registry, Next PROVE Registry'
<1> USE ServerAssumption DEF Types, Processes, Children, Registry, HasChild, Listed, Goto
<1>1. ASSUME NEW l \in Launches, Launch(l) PROVE Registry'
  <2>1. CASE SelectDirectory(l) \/ CreateDirectory(l)
    BY <2>1 DEF SelectDirectory, CreateDirectory, Panic, registry, signals, handle, storage
  <2>2. CASE StartHandler(l) \/ HandlerInstalled(l)
    BY <2>2 DEF StartHandler, HandlerInstalled, registry, signals, handle, storage
  <2>3. CASE HandlerPoisoned(l)
    BY <2>3 DEF HandlerPoisoned, Panic, registry, signals, handle, storage
  <2>4. CASE Handshake(l) \/ HandshakeFails(l)
    BY <2>4 DEF Handshake, HandshakeFails, Panic, registry, signals, handle, storage
  <2>5. CASE SpawnRefused(l) \/ SpawnFails(l) \/ Report(l)
    BY <2>5 DEF SpawnRefused, SpawnFails, Report, Panic, registry, signals, handle,
       storage
  <2>6. CASE SeesExit(l) \/ ReadyFails(l) \/ ReadySucceeds(l)
    BY <2>6 DEF SeesExit, ReadyFails, ReadySucceeds, Panic, registry, signals, handle,
       storage
  <2>7. CASE FinishClean(l) \/ FinishFailed(l) \/ Sweep(l)
    BY <2>7, SMTT(30) DEF FinishClean, FinishFailed, Sweep, Panic, registry, signals, handle,
       storage
  <2>8. CASE \E p \in Pids : Spawn(l, p)
    BY <2>8 DEF Spawn, Started, Free, Acquire, registry, signals, handle, storage
  <2>9. CASE Register(l)
    BY <2>9 DEF Register, registry, signals, handle, storage
  <2>10. CASE LockToDrop(l)
    BY <2>10 DEF LockToDrop, Acquire, registry, signals, handle, storage
  <2>11. CASE KillOwn(l)
    BY <2>11 DEF KillOwn, kill_group, registry, signals, handle, storage
  <2>12. CASE Reap(l)
    BY <2>12 DEF Reap, registry, signals, handle, storage
  <2>13. CASE Unregister(l)
    BY <2>13 DEF Unregister, registry, signals, handle, storage
  <2> QED BY <1>1, <2>1, <2>2, <2>3, <2>4, <2>5, <2>6, <2>7, <2>8, <2>9, <2>10, <2>11,
     <2>12, <2>13 DEF Launch
<1>2. ASSUME NEW l \in Launches, Test(l) PROVE Registry'
  <2>1. CASE Cancelled(l) \/ LetGo(l) \/ Finish(l)
    BY <2>1 DEF Cancelled, LetGo, Finish, registry, signals, handle, storage
  <2>2. CASE PrepareFails(l) \/ TestPanics(l)
    BY <2>2 DEF PrepareFails, TestPanics, Panic, registry, signals, handle, storage
  <2> QED BY <1>2, <2>1, <2>2 DEF Test
<1>3. CASE Handler
  <2>1. CASE RegisterInterrupt \/ RegisterTerminate \/ RegistrationFails
    BY <2>1 DEF RegisterInterrupt, RegisterTerminate, RegistrationFails, registry,
       signals, handle, storage
  <2>2. CASE Stop
    BY <2>2 DEF Stop, Acquire, registry, signals, handle, storage
  <2>3. CASE \E p \in Pids : StopGroup(p)
    BY <2>3 DEF StopGroup, kill_group, registry, signals, handle, storage
  <2>4. CASE Stopped \/ Exit
    BY <2>4 DEF Stopped, Exit, registry, signals, handle, storage
  <2> QED BY <1>3, <2>1, <2>2, <2>3, <2>4 DEF Handler
<1>4. CASE System
  BY <1>4 DEF System, Signal, Fork, LeaderExits, Elsewhere, Free, OnlyProcesses,
     registry, signals, handle, storage
<1> QED BY <1>1, <1>2, <1>3, <1>4 DEF Next

(* Once the handler has the registry nothing joins it, and what lives is in it. *)
LEMMA StoppingKept == ASSUME Types, Locks, Children, Accounted, Registry, Stopping, Handshaken, Next PROVE Stopping'
<1> USE ServerAssumption DEF Types, Processes, Locks, Children, Accounted, Registry, Stopping, Handshaken, HasChild, Spawned, Listed, Critical, Lives, Goto
<1>1. ASSUME NEW l \in Launches, Launch(l) PROVE Stopping'
  <2>1. CASE SelectDirectory(l) \/ CreateDirectory(l)
    BY <2>1 DEF SelectDirectory, CreateDirectory, Panic, registry, signals, handle, storage
  <2>2. CASE StartHandler(l) \/ HandlerInstalled(l)
    BY <2>2 DEF StartHandler, HandlerInstalled, registry, signals, handle, storage
  <2>3. CASE HandlerPoisoned(l)
    BY <2>3 DEF HandlerPoisoned, Panic, registry, signals, handle, storage
  <2>4. CASE Handshake(l) \/ HandshakeFails(l)
    BY <2>4 DEF Handshake, HandshakeFails, Panic, registry, signals, handle, storage
  <2>5. CASE SpawnRefused(l) \/ SpawnFails(l) \/ Report(l)
    BY <2>5 DEF SpawnRefused, SpawnFails, Report, Panic, registry, signals, handle,
       storage
  <2>6. CASE SeesExit(l) \/ ReadyFails(l) \/ ReadySucceeds(l)
    BY <2>6 DEF SeesExit, ReadyFails, ReadySucceeds, Panic, registry, signals, handle,
       storage
  <2>7. CASE FinishClean(l) \/ FinishFailed(l) \/ Sweep(l)
    BY <2>7 DEF FinishClean, FinishFailed, Sweep, Panic, registry, signals, handle,
       storage
  <2>8. CASE \E p \in Pids : Spawn(l, p)
    BY <2>8 DEF Spawn, Started, Free, Acquire, registry, signals, handle, storage
  <2>9. CASE Register(l)
    BY <2>9 DEF Register, registry, signals, handle, storage
  <2>10. CASE LockToDrop(l)
    BY <2>10 DEF LockToDrop, Acquire, registry, signals, handle, storage
  <2>11. CASE KillOwn(l)
    <3>1. child[l] \in Pids
      BY <2>11 DEF KillOwn
    <3>2. /\ \A q \in Pids : process'[q].owner = process[q].owner
          /\ \A q \in Pids \ {child[l]} : process'[q] = process[q]
          /\ process'[child[l]].leader =
               IF process[child[l]].leader = "alive" THEN "zombie" ELSE process[child[l]].leader
          /\ process'[child[l]].worker = FALSE
      BY <2>11, <3>1, KillIs DEF KillOwn
    <3> QED BY <2>11, <3>1, <3>2 DEF KillOwn, registry, signals, handle, storage
  <2>12. CASE Reap(l)
    BY <2>12 DEF Reap, registry, signals, handle, storage
  <2>13. CASE Unregister(l)
    BY <2>13 DEF Unregister, registry, signals, handle, storage
  <2> QED BY <1>1, <2>1, <2>2, <2>3, <2>4, <2>5, <2>6, <2>7, <2>8, <2>9, <2>10, <2>11,
     <2>12, <2>13 DEF Launch
<1>2. ASSUME NEW l \in Launches, Test(l) PROVE Stopping'
  BY <1>2 DEF Test, PrepareFails, Cancelled, TestPanics, LetGo, Finish, Panic, registry, signals,
     handle, storage
<1>3. CASE Handler
  <2>1. CASE RegisterInterrupt \/ RegisterTerminate \/ RegistrationFails
    BY <2>1 DEF RegisterInterrupt, RegisterTerminate, RegistrationFails, registry,
       signals, handle, storage
  <2>2. CASE Stop
    BY <2>2 DEF Stop, Acquire, registry, signals, handle, storage
  <2>3. CASE \E p \in Pids : StopGroup(p)
    BY <2>3 DEF StopGroup, kill_group, registry, signals, handle, storage
  <2>4. CASE Stopped \/ Exit
    BY <2>4 DEF Stopped, Exit, registry, signals, handle, storage
  <2> QED BY <1>3, <2>1, <2>2, <2>3, <2>4 DEF Handler
<1>4. CASE System
  BY <1>4 DEF System, Signal, Fork, LeaderExits, Elsewhere, Free, OnlyProcesses,
     registry, signals, handle, storage
<1> QED BY <1>1, <1>2, <1>3, <1>4 DEF Next

(* The one launch that installs the handler hears from it before any goes on. *)
LEMMA HandshakenKept == ASSUME Types, Children, Handshaken, Next PROVE Handshaken'
<1> USE ServerAssumption DEF Types, Children, Handshaken, HasChild, Goto
<1>1. ASSUME NEW l \in Launches, Launch(l) PROVE Handshaken'
  <2>1. CASE SelectDirectory(l) \/ CreateDirectory(l)
    BY <2>1 DEF SelectDirectory, CreateDirectory, Panic, registry, signals, handle, storage
  <2>2. CASE StartHandler(l) \/ HandlerInstalled(l)
    BY <2>2 DEF StartHandler, HandlerInstalled, registry, signals, handle, storage
  <2>3. CASE HandlerPoisoned(l)
    BY <2>3 DEF HandlerPoisoned, Panic, registry, signals, handle, storage
  <2>4. CASE Handshake(l)
    BY <2>4 DEF Handshake, registry, signals, handle, storage
  <2>5. CASE HandshakeFails(l)
    BY <2>5 DEF HandshakeFails, Panic, registry, signals, handle, storage
  <2>6. CASE SpawnRefused(l) \/ SpawnFails(l) \/ Report(l)
    BY <2>6 DEF SpawnRefused, SpawnFails, Report, Panic, registry, signals, handle,
       storage
  <2>7. CASE SeesExit(l) \/ ReadyFails(l) \/ ReadySucceeds(l)
    BY <2>7 DEF SeesExit, ReadyFails, ReadySucceeds, Panic, registry, signals, handle,
       storage
  <2>8. CASE FinishClean(l) \/ FinishFailed(l) \/ Sweep(l)
    BY <2>8 DEF FinishClean, FinishFailed, Sweep, Panic, registry, signals, handle,
       storage
  <2>9. CASE \E p \in Pids : Spawn(l, p)
    BY <2>9 DEF Spawn, Started, Free, Acquire, registry, signals, handle, storage
  <2>10. CASE Register(l)
    BY <2>10 DEF Register, registry, signals, handle, storage
  <2>11. CASE LockToDrop(l)
    BY <2>11 DEF LockToDrop, Acquire, registry, signals, handle, storage
  <2>12. CASE KillOwn(l)
    BY <2>12 DEF KillOwn, kill_group, registry, signals, handle, storage
  <2>13. CASE Reap(l)
    BY <2>13 DEF Reap, registry, signals, handle, storage
  <2>14. CASE Unregister(l)
    BY <2>14 DEF Unregister, registry, signals, handle, storage
  <2> QED BY <1>1, <2>1, <2>2, <2>3, <2>4, <2>5, <2>6, <2>7, <2>8, <2>9, <2>10, <2>11,
     <2>12, <2>13, <2>14 DEF Launch
<1>2. ASSUME NEW l \in Launches, Test(l) PROVE Handshaken'
  BY <1>2 DEF Test, PrepareFails, Cancelled, TestPanics, LetGo, Finish, Panic, registry, signals,
     handle, storage
<1>3. CASE Handler
  <2>1. CASE RegisterInterrupt
    BY <2>1 DEF RegisterInterrupt, Signals, registry, signals, handle, storage
  <2>0. CASE RegisterTerminate
    <3>1. registered' = Signals
      BY <2>0, ZenonT(60) DEF RegisterTerminate, Signals
    <3> QED BY <2>0, <3>1 DEF RegisterTerminate, registry, signals, handle, storage
  <2>9. CASE RegistrationFails
    BY <2>9 DEF RegistrationFails, registry, signals, handle, storage
  <2>2. CASE Stop
    BY <2>2 DEF Stop, Acquire, registry, signals, handle, storage
  <2>3. CASE \E p \in Pids : StopGroup(p)
    BY <2>3 DEF StopGroup, kill_group, registry, signals, handle, storage
  <2>4. CASE Stopped \/ Exit
    BY <2>4 DEF Stopped, Exit, registry, signals, handle, storage
  <2> QED BY <1>3, <2>0, <2>9, <2>1, <2>2, <2>3, <2>4 DEF Handler
<1>4. CASE System
  BY <1>4 DEF System, Signal, Fork, LeaderExits, Elsewhere, Free, OnlyProcesses,
     registry, signals, handle, storage
<1> QED BY <1>1, <1>2, <1>3, <1>4 DEF Next

(* Every way to trouble marks the evidence, and only an untroubled finish unmarks it. *)
LEMMA EvidenceMarked == ASSUME Types, Children, Evidence, Next PROVE Evidence'
<1> USE ServerAssumption DEF Types, Processes, Children, Evidence, HasChild, Ending, Goto
<1>1. ASSUME NEW l \in Launches, Launch(l) PROVE Evidence'
  <2>1. CASE SelectDirectory(l) \/ CreateDirectory(l)
    BY <2>1 DEF SelectDirectory, CreateDirectory, Panic, registry, signals, handle, storage
  <2>2. CASE StartHandler(l) \/ HandlerInstalled(l)
    BY <2>2 DEF StartHandler, HandlerInstalled, registry, signals, handle, storage
  <2>3. CASE HandlerPoisoned(l)
    BY <2>3 DEF HandlerPoisoned, Panic, registry, signals, handle, storage
  <2>4. CASE Handshake(l) \/ HandshakeFails(l)
    BY <2>4 DEF Handshake, HandshakeFails, Panic, registry, signals, handle, storage
  <2>5. CASE SpawnRefused(l) \/ SpawnFails(l) \/ Report(l)
    BY <2>5 DEF SpawnRefused, SpawnFails, Report, Panic, registry, signals, handle,
       storage
  <2>6. CASE SeesExit(l)
    BY <2>6 DEF SeesExit, Panic, registry, signals, handle, storage
  <2>7. CASE ReadyFails(l)
    BY <2>7 DEF ReadyFails, Panic, registry, signals, handle, storage
  <2>8. CASE ReadySucceeds(l)
    BY <2>8 DEF ReadySucceeds, registry, signals, handle, storage
  <2>9. CASE FinishClean(l) \/ FinishFailed(l) \/ Sweep(l)
    BY <2>9 DEF FinishClean, FinishFailed, Sweep, Panic, registry, signals, handle,
       storage
  <2>10. CASE \E p \in Pids : Spawn(l, p)
    BY <2>10 DEF Spawn, Started, Free, Acquire, registry, signals, handle, storage
  <2>11. CASE Register(l)
    BY <2>11 DEF Register, registry, signals, handle, storage
  <2>12. CASE LockToDrop(l)
    BY <2>12 DEF LockToDrop, Acquire, registry, signals, handle, storage
  <2>13. CASE KillOwn(l)
    BY <2>13 DEF KillOwn, kill_group, registry, signals, handle, storage
  <2>14. CASE Reap(l)
    BY <2>14 DEF Reap, registry, signals, handle, storage
  <2>15. CASE Unregister(l)
    BY <2>15 DEF Unregister, registry, signals, handle, storage
  <2> QED BY <1>1, <2>1, <2>2, <2>3, <2>4, <2>5, <2>6, <2>7, <2>8, <2>9, <2>10, <2>11,
     <2>12, <2>13, <2>14, <2>15 DEF Launch
<1>2. ASSUME NEW l \in Launches, Test(l) PROVE Evidence'
  BY <1>2 DEF Test, PrepareFails, Cancelled, TestPanics, LetGo, Finish, Panic, registry, signals,
     handle, storage
<1>3. CASE Handler
  <2>1. CASE RegisterInterrupt \/ RegisterTerminate \/ RegistrationFails
    BY <2>1 DEF RegisterInterrupt, RegisterTerminate, RegistrationFails, registry,
       signals, handle, storage
  <2>2. CASE Stop
    BY <2>2 DEF Stop, Acquire, registry, signals, handle, storage
  <2>3. CASE \E p \in Pids : StopGroup(p)
    BY <2>3 DEF StopGroup, kill_group, registry, signals, handle, storage
  <2>4. CASE Stopped \/ Exit
    BY <2>4 DEF Stopped, Exit, registry, signals, handle, storage
  <2> QED BY <1>3, <2>1, <2>2, <2>3, <2>4 DEF Handler
<1>4. CASE System
  BY <1>4 DEF System, Signal, Fork, LeaderExits, Elsewhere, Free, OnlyProcesses,
     registry, signals, handle, storage
<1> QED BY <1>1, <1>2, <1>3, <1>4 DEF Next

(* A directory is made where there was none, and removed by its own launch. *)
LEMMA DirectoriesKept == ASSUME Types, Children, Evidence, Directories, Next PROVE Directories'
<1> USE ServerAssumption DEF Types, Processes, Directories, DirectoriesOwned, Goto
<1>1. ASSUME NEW l \in Launches, SelectDirectory(l) PROVE Directories'
  BY <1>1 DEF SelectDirectory, handle
<1>2. ASSUME NEW l \in Launches, CreateDirectory(l) PROVE Directories'
  <2>0. pc[l] = "create" /\ l \notin made /\ child[l] = None /\ UNCHANGED <<candidate, next, swept, child>>
    BY <1>2 DEF CreateDirectory, Panic
  <2>1. CASE Goto(l, "create", "new") /\ UNCHANGED <<dir, made>>
    BY <2>0, <2>1
  <2>2. CASE Panic(l, "create") /\ UNCHANGED <<dir, made>>
    BY <2>0, <2>2 DEF Panic
  <2>3. CASE /\ dir[candidate[l]] = "absent"
             /\ Goto(l, "create", "install")
             /\ dir' = [dir EXCEPT ![candidate[l]] = l]
             /\ made' = made \cup {l}
    <3>1. candidate[l] \in 0 .. (MaxDirs - 1)
      BY <2>0
    <3>2. \A d \in Old : dir'[d] = "old"
      BY <2>3, <3>1
    <3>3. \A m \in made' \ swept' : dir'[candidate[m]] = m
      BY <2>0, <2>3, <3>1
    <3>4. \A m \in Launches \ made' : child'[m] = None /\ pc'[m] \in {"new", "create", "failed"}
      BY <2>0, <2>3
    <3>5. \A m \in made' : pc'[m] \notin {"new", "create"}
      BY <2>0, <2>3
    <3> QED BY <2>0, <2>3, <3>1, <3>2, <3>3, <3>4, <3>5
  <2> QED BY <1>2, <2>1, <2>2, <2>3 DEF CreateDirectory
<1>3. ASSUME NEW l \in Launches, Sweep(l) PROVE Directories'
  <2>1. CASE keep[l] \/ panicking[l]
    BY <1>3, <2>1 DEF Sweep, handle
  <2>2. CASE ~(keep[l] \/ panicking[l])
    <3>1. /\ pc[l] = "sweep" /\ pc' = [pc EXCEPT ![l] = "gone"]
          /\ dir' = [dir EXCEPT ![candidate[l]] = "absent"]
          /\ swept' = swept \cup {l}
          /\ UNCHANGED <<candidate, next, made, child>>
      BY <1>3, <2>2 DEF Sweep, handle
    <3>2. l \in made /\ candidate[l] \in 0 .. (MaxDirs - 1) /\ dir[candidate[l]] = l
      BY <3>1 DEF Evidence
    <3>3. \A d \in Old : dir'[d] = "old"
      BY <3>1, <3>2
    <3>4. \A m \in made' \ swept' : dir'[candidate[m]] = m
      BY <3>1, <3>2
    <3> QED BY <3>1, <3>2, <3>3, <3>4
  <2> QED BY <2>1, <2>2
(* Every other step leaves the directories alone, and what moves has its own. *)
<1> DEFINE Leaves == /\ UNCHANGED storage
                     /\ \A m \in Launches : \/ pc'[m] = pc[m] /\ child'[m] = child[m]
                                            \/ m \in made /\ pc'[m] \notin {"new", "create"}
<1>4. CASE Leaves
  BY <1>4 DEF storage
<1>5. ASSUME NEW l \in Launches, Launch(l) PROVE Leaves \/ Directories'
  <2>1. CASE SelectDirectory(l) \/ CreateDirectory(l) \/ Sweep(l)
    BY <2>1, <1>1, <1>2, <1>3
  <2>2. CASE StartHandler(l) \/ HandlerInstalled(l) \/ HandlerPoisoned(l) \/ Handshake(l)
             \/ HandshakeFails(l)
    BY <2>2 DEF StartHandler, HandlerInstalled, HandlerPoisoned, Handshake, HandshakeFails, Panic, handle
  <2>3. CASE SpawnRefused(l) \/ SpawnFails(l) \/ (\E p \in Pids : Spawn(l, p)) \/ Register(l)
             \/ Report(l)
    BY <2>3 DEF SpawnRefused, SpawnFails, Spawn, Started, Register, Report, Panic, handle
  <2>4. CASE SeesExit(l) \/ ReadyFails(l) \/ ReadySucceeds(l) \/ FinishClean(l) \/ FinishFailed(l)
    BY <2>4 DEF SeesExit, ReadyFails, ReadySucceeds, FinishClean, FinishFailed, Panic, handle
  <2>5. CASE LockToDrop(l) \/ KillOwn(l) \/ Reap(l) \/ Unregister(l)
    BY <2>5 DEF LockToDrop, KillOwn, Reap, Unregister, handle
  <2> QED BY <1>5, <2>1, <2>2, <2>3, <2>4, <2>5 DEF Launch
<1>6. ASSUME NEW l \in Launches, Test(l) PROVE Leaves
  BY <1>6 DEF Test, PrepareFails, Cancelled, TestPanics, LetGo, Finish, Panic, handle
<1>7. CASE Handler
  BY <1>4, <1>7 DEF Handler, RegisterInterrupt, RegisterTerminate, RegistrationFails, Stop, StopGroup,
     Stopped, Exit, handle
<1>8. CASE System
  BY <1>4, <1>8 DEF System, Signal, Fork, LeaderExits, Elsewhere, OnlyProcesses, handle
<1> QED BY <1>4, <1>5, <1>6, <1>7, <1>8 DEF Next

(* The process ends with nothing of the suite's alive, and then nothing moves. *)
LEMMA OrphanKept == ASSUME Types, Children, Accounted, Stopping, Handshaken, StoppedWithProcess, Next PROVE StoppedWithProcess'
<1> USE ServerAssumption DEF Types, Processes, Accounted, Stopping, Handshaken, StoppedWithProcess, HasChild, Spawned, Lives, Up
<1>1. ASSUME NEW l \in Launches, Launch(l) PROVE StoppedWithProcess'
  <2>1. CASE SelectDirectory(l) \/ CreateDirectory(l)
    BY <2>1 DEF SelectDirectory, CreateDirectory, Panic, registry, signals, handle, storage
  <2>2. CASE StartHandler(l) \/ HandlerInstalled(l)
    BY <2>2 DEF StartHandler, HandlerInstalled, registry, signals, handle, storage
  <2>3. CASE HandlerPoisoned(l)
    BY <2>3 DEF HandlerPoisoned, Panic, registry, signals, handle, storage
  <2>4. CASE Handshake(l) \/ HandshakeFails(l)
    BY <2>4 DEF Handshake, HandshakeFails, Panic, registry, signals, handle, storage
  <2>5. CASE SpawnRefused(l) \/ SpawnFails(l) \/ Report(l)
    BY <2>5 DEF SpawnRefused, SpawnFails, Report, Panic, registry, signals, handle,
       storage
  <2>6. CASE SeesExit(l) \/ ReadyFails(l) \/ ReadySucceeds(l)
    BY <2>6 DEF SeesExit, ReadyFails, ReadySucceeds, Panic, registry, signals, handle,
       storage
  <2>7. CASE FinishClean(l) \/ FinishFailed(l) \/ Sweep(l)
    BY <2>7 DEF FinishClean, FinishFailed, Sweep, Panic, registry, signals, handle,
       storage
  <2>8. CASE \E p \in Pids : Spawn(l, p)
    BY <2>8 DEF Spawn, Started, Free, Acquire, registry, signals, handle, storage
  <2>9. CASE Register(l)
    BY <2>9 DEF Register, registry, signals, handle, storage
  <2>10. CASE LockToDrop(l)
    BY <2>10 DEF LockToDrop, Acquire, registry, signals, handle, storage
  <2>11. CASE KillOwn(l)
    BY <2>11 DEF KillOwn, kill_group, registry, signals, handle, storage
  <2>12. CASE Reap(l)
    BY <2>12 DEF Reap, registry, signals, handle, storage
  <2>13. CASE Unregister(l)
    BY <2>13 DEF Unregister, registry, signals, handle, storage
  <2> QED BY <1>1, <2>1, <2>2, <2>3, <2>4, <2>5, <2>6, <2>7, <2>8, <2>9, <2>10, <2>11,
     <2>12, <2>13 DEF Launch
<1>2. ASSUME NEW l \in Launches, Test(l) PROVE StoppedWithProcess'
  BY <1>2 DEF Test, PrepareFails, Cancelled, TestPanics, LetGo, Finish, Panic, registry, signals,
     handle, storage
<1>3. CASE Handler
  <2>1. CASE RegisterInterrupt \/ RegisterTerminate \/ RegistrationFails
    BY <2>1 DEF RegisterInterrupt, RegisterTerminate, RegistrationFails, registry,
       signals, handle, storage
  <2>2. CASE Stop
    BY <2>2 DEF Stop, Acquire, registry, signals, handle, storage
  <2>3. CASE \E p \in Pids : StopGroup(p)
    BY <2>3 DEF StopGroup, kill_group, registry, signals, handle, storage
  <2>4. CASE Stopped \/ Exit
    BY <2>4 DEF Stopped, Exit, registry, signals, handle, storage
  <2> QED BY <1>3, <2>1, <2>2, <2>3, <2>4 DEF Handler
<1>4. CASE System
  BY <1>4 DEF System, Signal, Fork, LeaderExits, Elsewhere, Free, OnlyProcesses,
     registry, signals, handle, storage
<1> QED BY <1>1, <1>2, <1>3, <1>4 DEF Next

(* Who kills a group holds the registry, and the group a child not yet reaped. *)
LEMMA StrayKept == ASSUME Types, Locks, Children, Registry, Stopping, NoStrayKill, Next PROVE NoStrayKill'
<1> USE ServerAssumption DEF Types, Processes, Locks, Children, Registry, Stopping, NoStrayKill, HasChild, Spawned, Listed, Critical, Goto
<1>1. ASSUME NEW l \in Launches, Launch(l) PROVE NoStrayKill'
  <2>1. CASE SelectDirectory(l) \/ CreateDirectory(l)
    BY <2>1 DEF SelectDirectory, CreateDirectory, Panic, registry, signals, handle, storage
  <2>2. CASE StartHandler(l) \/ HandlerInstalled(l)
    BY <2>2 DEF StartHandler, HandlerInstalled, registry, signals, handle, storage
  <2>3. CASE HandlerPoisoned(l)
    BY <2>3 DEF HandlerPoisoned, Panic, registry, signals, handle, storage
  <2>4. CASE Handshake(l) \/ HandshakeFails(l)
    BY <2>4 DEF Handshake, HandshakeFails, Panic, registry, signals, handle, storage
  <2>5. CASE SpawnRefused(l) \/ SpawnFails(l) \/ Report(l)
    BY <2>5 DEF SpawnRefused, SpawnFails, Report, Panic, registry, signals, handle,
       storage
  <2>6. CASE SeesExit(l) \/ ReadyFails(l) \/ ReadySucceeds(l)
    BY <2>6 DEF SeesExit, ReadyFails, ReadySucceeds, Panic, registry, signals, handle,
       storage
  <2>7. CASE FinishClean(l) \/ FinishFailed(l) \/ Sweep(l)
    BY <2>7 DEF FinishClean, FinishFailed, Sweep, Panic, registry, signals, handle,
       storage
  <2>8. CASE \E p \in Pids : Spawn(l, p)
    BY <2>8 DEF Spawn, Started, Free, Acquire, registry, signals, handle, storage
  <2>9. CASE Register(l)
    BY <2>9 DEF Register, registry, signals, handle, storage
  <2>10. CASE LockToDrop(l)
    BY <2>10 DEF LockToDrop, Acquire, registry, signals, handle, storage
  <2>11. CASE KillOwn(l)
    BY <2>11 DEF KillOwn, kill_group, registry, signals, handle, storage
  <2>12. CASE Reap(l)
    BY <2>12 DEF Reap, registry, signals, handle, storage
  <2>13. CASE Unregister(l)
    BY <2>13 DEF Unregister, registry, signals, handle, storage
  <2> QED BY <1>1, <2>1, <2>2, <2>3, <2>4, <2>5, <2>6, <2>7, <2>8, <2>9, <2>10, <2>11,
     <2>12, <2>13 DEF Launch
<1>2. ASSUME NEW l \in Launches, Test(l) PROVE NoStrayKill'
  BY <1>2 DEF Test, PrepareFails, Cancelled, TestPanics, LetGo, Finish, Panic, registry, signals,
     handle, storage
<1>3. CASE Handler
  <2>1. CASE RegisterInterrupt \/ RegisterTerminate \/ RegistrationFails
    BY <2>1 DEF RegisterInterrupt, RegisterTerminate, RegistrationFails, registry,
       signals, handle, storage
  <2>2. CASE Stop
    BY <2>2 DEF Stop, Acquire, registry, signals, handle, storage
  <2>3. CASE \E p \in Pids : StopGroup(p)
    BY <2>3 DEF StopGroup, kill_group, registry, signals, handle, storage
  <2>4. CASE Stopped \/ Exit
    BY <2>4 DEF Stopped, Exit, registry, signals, handle, storage
  <2> QED BY <1>3, <2>1, <2>2, <2>3, <2>4 DEF Handler
<1>4. CASE System
  BY <1>4 DEF System, Signal, Fork, LeaderExits, Elsewhere, Free, OnlyProcesses,
     registry, signals, handle, storage
<1> QED BY <1>1, <1>2, <1>3, <1>4 DEF Next

-----------------------------------------------------------------------------
LEMMA InvInit == ASSUME Init PROVE Inv
<1>1. Types /\ Locks /\ Children
  BY ServerAssumption DEF Init, Types, Processes, Locks, Critical, Children, HasChild, Spawned
<1>2. Accounted /\ Registry /\ Stopping
  BY ServerAssumption DEF Init, Accounted, Registry, Listed, HasChild, Lives, Stopping
<1>3. Handshaken /\ Evidence
  BY DEF Init, Handshaken, HasChild, Evidence, Ending, Signals
<1>4. Directories
  BY ServerAssumption DEF Init, Directories, DirectoriesOwned
<1>5. StoppedWithProcess /\ NoStrayKill
  BY DEF Init, StoppedWithProcess, Up, NoStrayKill
<1> QED BY <1>1, <1>2, <1>3, <1>4, <1>5 DEF Inv

LEMMA InvKept == ASSUME Inv, Next PROVE Inv'
<1>1. Types' /\ Locks' /\ Children'
  BY TypesKept, LocksKept, ChildrenKept DEF Inv
<1>2. Accounted' /\ Registry' /\ Stopping'
  BY AccountedKept, RegistryKept, StoppingKept DEF Inv
<1>3. Handshaken' /\ Evidence' /\ Directories'
  BY HandshakenKept, EvidenceMarked, DirectoriesKept DEF Inv
<1>4. StoppedWithProcess' /\ NoStrayKill'
  BY OrphanKept, StrayKept DEF Inv
<1> QED BY <1>1, <1>2, <1>3, <1>4 DEF Inv

LEMMA InvStutters == ASSUME Inv, UNCHANGED vars PROVE Inv'
<1> USE DEF vars, handle, storage, signals, registry
<1>1. Types' /\ Locks' /\ Children'
  BY DEF Inv, Types, Locks, Children
<1>2. Accounted' /\ Registry' /\ Stopping'
  BY DEF Inv, Accounted, Registry, Stopping, Lives
<1>3. Handshaken' /\ Evidence'
  BY DEF Inv, Handshaken, Evidence
<1>4. Directories'
  BY DEF Inv, Directories, DirectoriesOwned
<1>5. StoppedWithProcess' /\ NoStrayKill'
  BY DEF Inv, StoppedWithProcess, NoStrayKill, Lives, Up
<1> QED BY <1>1, <1>2, <1>3, <1>4, <1>5 DEF Inv

(* The strengthened invariant holds in every state the program reaches. *)
THEOREM ServerInvariant == Spec => []Inv
<1>1. Init => Inv
  BY InvInit
<1>2. Inv /\ [Next]_vars => Inv'
  BY InvKept, InvStutters
<1> QED BY <1>1, <1>2, PTL DEF Spec

(* A stop signal, handled or not, leaves none of the suite's servers behind, *)
(* however many launches it meets and wherever they stand.                   *)
THEOREM NoServerOutlives == Spec => []NoOrphan
<1>1. ASSUME Inv PROVE NoOrphan
  BY <1>1 DEF Inv, Accounted, StoppedWithProcess, NoOrphan, HasChild, Spawned
<1> QED BY <1>1, ServerInvariant, PTL

(* Neither Drop nor the signal handler ever kills a group that is not the    *)
(* suite's: the unreaped leader keeps its pid until its group is killed.     *)
THEOREM NoStrangerKilled == Spec => []NoStrayKill
<1>1. Inv => NoStrayKill
  BY DEF Inv
<1> QED BY <1>1, ServerInvariant, PTL

(* While nobody holds the registry, it lists exactly the children spawned    *)
(* and not yet reaped (STARTED).                                             *)
RegistryExact ==
  lock = None => groups = {child[l] : l \in Launches} \ {None}

(* Between critical sections the registry is exactly the unreaped children.  *)
THEOREM RegistryIsExact == Spec => []RegistryExact
<1>1. ASSUME Inv PROVE RegistryExact
  <2>1. SUFFICES ASSUME lock = None PROVE groups = {child[l] : l \in Launches} \ {None}
    BY DEF RegistryExact
  <2>2. \A l \in Launches : child[l] # None <=> pc[l] \in Listed
    BY <1>1, <2>1, ServerAssumption DEF Inv, Locks, Critical, Children, HasChild, Listed
  <2> QED BY <1>1, <2>2, ServerAssumption DEF Inv, Types, Registry
<1> QED BY <1>1, ServerInvariant, PTL

(* Each launch owns the directory it writes to, and no earlier evidence is   *)
(* taken over or removed.                                                    *)
THEOREM DirectoriesAreOwned == Spec => []DirectoriesOwned
<1>1. Inv => DirectoriesOwned
  BY DEF Inv, Directories
<1> QED BY <1>1, ServerInvariant, PTL

(* A launch that went wrong never loses its directory. *)
THEOREM EvidenceIsKept == Spec => []EvidenceKept
<1>1. Inv => EvidenceKept
  BY DEF Inv, Evidence, EvidenceKept
<1> QED BY <1>1, ServerInvariant, PTL

(* Once a stop signal is being handled, no step starts a server. *)
THEOREM NothingStartsLate == Spec => NothingStartsWhileStopping
<1>1. ASSUME Inv, [Next]_vars, stopping, NEW l \in Launches, child[l] = None PROVE child'[l] = None
  <2>1. ASSUME NEW m \in Launches, Launch(m) PROVE child'[l] = None
    BY <1>1, <2>1 DEF Inv, Types, Launch, SelectDirectory, CreateDirectory, StartHandler, HandlerInstalled,
       HandlerPoisoned, Handshake, HandshakeFails, SpawnRefused, SpawnFails, Spawn, Register, Report,
       SeesExit, ReadyFails, ReadySucceeds, FinishClean, FinishFailed, LockToDrop, KillOwn, Reap,
       Unregister, Sweep, handle
  <2>2. ASSUME NEW m \in Launches, Test(m) PROVE child'[l] = None
    BY <1>1, <2>2 DEF Test, PrepareFails, Cancelled, TestPanics, LetGo, Finish, Panic, handle
  <2>3. CASE Handler \/ System
    BY <1>1, <2>3 DEF Handler, RegisterInterrupt, RegisterTerminate, RegistrationFails, Stop, StopGroup,
       Stopped, Exit, System, Signal, Fork, LeaderExits, Elsewhere, OnlyProcesses, handle
  <2>4. CASE UNCHANGED vars
    BY <1>1, <2>4 DEF vars, handle
  <2> QED BY <1>1, <2>1, <2>2, <2>3, <2>4 DEF Next
<1>2. Inv /\ [Next]_vars =>
        [stopping => \A l \in Launches : child[l] = None => child'[l] = None]_vars
  BY <1>1
<1> QED BY <1>2, ServerInvariant, PTL DEF Spec, NothingStartsWhileStopping
=============================================================================
