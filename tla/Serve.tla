-------------------------------- MODULE Serve --------------------------------
(***************************************************************************)
(* A process that serves an endpoint the way the greeter does              *)
(* (examples/greeter: main.rs and lib.rs; restate-ext's shutdown_signal;   *)
(* restate-config): it binds its port, builds the endpoint it is           *)
(* configured for, and serves until a signal asks it to stop. Its          *)
(* supervisor starts it again; Restate sends the invocations that were     *)
(* open to it again, and they replay their journals.                       *)
(***************************************************************************)
EXTENDS Options

CONSTANTS
  None,
  Configs,     (* configurations as written: identity keys, and the service's policy *)
  Service,     (* the service's own options, and those of its handlers, by name *)
  Invocations,
  Hours,       (* bound: the hours of the day at which the clock is read *)
  DrainLimit,  (* the SDK's ten seconds *)
  MaxStarts    (* bound: times the process is started *)

ASSUME ServeAssumption ==
  /\ DrainLimit \in Nat /\ MaxStarts \in Nat
  /\ \A c \in Configs : c.keys.keys \in Seq(ToSet(c.keys.keys))

Signals == {"SIGINT", "SIGTERM"}

VARIABLES
  config,   (* of the process *)
  phase,    (* "starting", "bound", "built", "serving", "draining"; "stopped", "failed" or "killed" *)
  served,   (* the endpoint: the keys it trusts and the service it has *)
  hearable, (* the signals the process can listen for *)
  listens,  (* those it listens for *)
  asked,    (* the signals it was sent *)
  elapsed,  (* of the drain *)
  starts,   (* of the process *)
  open,     (* the attempts in the process *)
  locals,   (* of each attempt: step, and what it has been given *)
  journal,  (* of each invocation, kept by Restate *)
  reply     (* of each invocation, None before *)

process == <<config, phase, served, hearable, listens, asked, elapsed, starts>>
work == <<open, locals, journal, reply>>
vars == <<process, work>>

Up == phase \in {"starting", "bound", "built", "serving", "draining"}
Ended == phase \in {"stopped", "failed", "killed"}

-----------------------------------------------------------------------------
(* main *)

(* A taken port is an error. *)
Bind ==
  /\ phase = "starting"
  /\ phase' \in IF Deserializes(config.policy) THEN {"bound", "failed"} ELSE {"failed"}
  /\ UNCHANGED <<config, served, hearable, listens, asked, elapsed, starts, work>>

(* endpoint(): what is not configured well is not served at all. *)
Build ==
  /\ phase = "bound"
  /\ LET trusted == configure(identity_keys(config.keys))
         service == apply(config.policy, Service)
     IN IF Refused \in {trusted, service} THEN phase' = "failed" /\ UNCHANGED served
        ELSE phase' = "built" /\ served' = [trusted |-> trusted, service |-> service]
  /\ UNCHANGED <<config, hearable, listens, asked, elapsed, starts, work>>

(* shutdown_signal listens for each signal on its own. *)
Listen ==
  /\ phase = "built"
  /\ phase' = "serving"
  /\ listens' = Signals \cap hearable
  /\ UNCHANGED <<config, served, hearable, asked, elapsed, starts, work>>

(* Mutant: an arm that cannot listen is over at once. *)
ResolvesWhenDeaf == asked \cap listens # {} \/ listens # Signals

(* Mutant: both signals are waited for. *)
ResolvesAfterAll == asked = Signals

(* The select: one signal is enough, an arm that cannot listen never ends. *)
Resolves == asked \cap listens # {}

Shutdown ==
  /\ phase = "serving" /\ Resolves
  /\ phase' = "draining"
  /\ UNCHANGED <<config, served, hearable, listens, asked, elapsed, starts, work>>

(* The SDK's drain: until nothing is open, or the time is up. *)
Tick ==
  /\ phase = "draining" /\ elapsed < DrainLimit
  /\ elapsed' = elapsed + 1
  /\ UNCHANGED <<config, phase, served, hearable, listens, asked, starts, work>>

Stop ==
  /\ phase = "draining" /\ (open = {} \/ elapsed = DrainLimit)
  /\ phase' = "stopped"
  /\ open' = {} /\ UNCHANGED <<locals, journal, reply>>
  /\ UNCHANGED <<config, served, hearable, listens, asked, elapsed, starts>>

(* A signal nobody in the process listens for ends it there. *)
Signal(s) ==
  /\ Up /\ s \notin asked
  /\ asked' = asked \cup {s}
  /\ IF s \in listens THEN UNCHANGED <<phase, open>> ELSE phase' = "killed" /\ open' = {}
  /\ UNCHANGED <<config, served, hearable, listens, elapsed, starts, locals, journal, reply>>

Restart ==
  /\ Ended /\ starts < MaxStarts
  /\ phase' = "starting"
  /\ hearable' \in SUBSET Signals
  /\ listens' = {} /\ asked' = {} /\ elapsed' = 0 /\ starts' = starts + 1
  /\ UNCHANGED <<config, served, work>>

-----------------------------------------------------------------------------
(* Greeter::greet *)

(* By the hour in UTC. *)
greeting(hour) ==
  CASE hour \in 5 .. 11 -> "morning" [] hour \in 12 .. 16 -> "afternoon" [] hour \in 17 .. 21 -> "evening"
    [] OTHER -> "late"

(* An attempt, from the top, of an invocation without a reply. *)
Attempt(i) ==
  /\ phase = "serving" /\ i \notin open /\ reply[i] = None
  /\ open' = open \cup {i}
  /\ locals' = [locals EXCEPT ![i] = [step |-> 0, hour |-> None, message |-> None]]
  /\ UNCHANGED <<process, journal, reply>>

(* A run is given its journaled result, or its closure's, journaled. *)
Given(i, step, results) ==
  IF step < Len(journal[i]) THEN {journal[i][step + 1]} ELSE results

Journaled(i, step, given) ==
  journal' = IF step < Len(journal[i]) THEN journal ELSE [journal EXCEPT ![i] = Append(@, given)]

(* Mutant: the clock is read by every attempt. *)
NowUnjournaled(i) ==
  /\ i \in open /\ locals[i].step = 0
  /\ \E hour \in Hours :
       /\ locals' = [locals EXCEPT ![i] = [step |-> 1, hour |-> hour, message |-> None]]
       /\ Journaled(i, 0, hour)
  /\ UNCHANGED <<process, open, reply>>

(* ctx.now *)
Now(i) ==
  /\ i \in open /\ locals[i].step = 0
  /\ \E hour \in Given(i, 0, Hours) :
       /\ locals' = [locals EXCEPT ![i] = [step |-> 1, hour |-> hour, message |-> None]]
       /\ Journaled(i, 0, hour)
  /\ UNCHANGED <<process, open, reply>>

(* The run greet-person *)
Greet(i) ==
  /\ i \in open /\ locals[i].step = 1
  /\ \E text \in Given(i, 1, {greeting(locals[i].hour)}) :
       /\ locals' = [locals EXCEPT ![i] = [step |-> 2, hour |-> locals[i].hour, message |-> text]]
       /\ Journaled(i, 1, text)
  /\ UNCHANGED <<process, open, reply>>

Return(i) ==
  /\ i \in open /\ locals[i].step = 2
  /\ reply' = [reply EXCEPT ![i] = locals[i].message]
  /\ open' = open \ {i}
  /\ UNCHANGED <<process, locals, journal>>

(* A connection is lost, with its attempt. *)
Lose(i) ==
  /\ i \in open
  /\ open' = open \ {i}
  /\ UNCHANGED <<process, locals, journal, reply>>

-----------------------------------------------------------------------------
Init ==
  /\ config \in Configs /\ phase = "starting" /\ served = None
  /\ hearable \in SUBSET Signals /\ listens = {} /\ asked = {} /\ elapsed = 0 /\ starts = 1
  /\ open = {} /\ locals = [i \in Invocations |-> None]
  /\ journal = [i \in Invocations |-> <<>>] /\ reply = [i \in Invocations |-> None]

Main == Bind \/ Build \/ Listen \/ Shutdown \/ Tick \/ Stop

Next ==
  \/ Main \/ Restart
  \/ \E s \in Signals : Signal(s)
  \/ \E i \in Invocations : Attempt(i) \/ Now(i) \/ Greet(i) \/ Return(i) \/ Lose(i)

(* The process runs, and the drain's time passes; invocations may never end. *)
Spec == Init /\ [][Next]_vars /\ WF_vars(Main)

-----------------------------------------------------------------------------
Serving == phase \in {"serving", "draining"}

(* A policy's field, as it is to be found where the service is discovered. *)
Reaches(set, own, found) ==
  /\ \A field \in DOMAIN set : found[field] = set[field]
  /\ \A field \in DOMAIN own \ DOMAIN set : found[field] = own[field]
  /\ DOMAIN found = DOMAIN set \cup DOMAIN own

(* The keys an operator wrote down, told apart by hand. *)
Written(keys) ==
  IF keys.form = "list" THEN ToSet(keys.keys)
  ELSE LET Part(a, b) == SubSeq(keys.keys, a, b)
           Lone(a, b) ==
             /\ a <= b /\ ToSet(Part(a, b)) \cap Delimiters = {}
             /\ a > 1 => keys.keys[a - 1] \in Delimiters
             /\ b < Len(keys.keys) => keys.keys[b + 1] \in Delimiters
       IN {Part(w[1], w[2]) : w \in {v \in (DOMAIN keys.keys) \X (DOMAIN keys.keys) : Lone(v[1], v[2])}}

(* "The process exits before it ever accepts a request": an endpoint that    *)
(* serves trusts every key that was written, all of them keys, and has every *)
(* override of the service and of its handlers in its own field, a false and *)
(* a zero too, with what is not overridden left alone; names it does not     *)
(* have are not passed over.                                                 *)
ServesConfigured ==
  Serving =>
    /\ served.trusted = Written(config.keys) /\ served.trusted \subseteq ValidKeys
    /\ Reaches(config.policy.options, Service.options, served.service.options)
    /\ DOMAIN served.service.handlers = DOMAIN Service.handlers \cup DOMAIN config.policy.handlers
    /\ \A name \in DOMAIN Service.handlers :
         LET set == IF name \in DOMAIN config.policy.handlers THEN config.policy.handlers[name] ELSE << >>
         IN Reaches(set, Service.handlers[name], served.service.handlers[name])

(* The drain is asked for, by a signal that could be heard; and no signal    *)
(* that could be ends the process mid-step ("without this arm a docker stop  *)
(* kills the process mid-step").                                             *)
DrainsAsAsked ==
  [][/\ Serving /\ phase' \in {"draining", "stopped"} => asked \cap hearable # {}
     /\ Serving /\ phase' = "killed" => asked' \ hearable # {}]_vars

(* A process asked to stop does: whichever signal asks, whenever it comes,   *)
(* however many of them can be heard, and whatever its invocations do.       *)
StopsWhenAsked == asked # {} ~> Ended

(* "A retried or resumed invocation greets with the time its first attempt   *)
(* read instead of reading the clock again": the reply is the greeting of    *)
(* the hour that was journaled, and no attempt was ever given another one.   *)
GreetsByFirstReading ==
  \A i \in Invocations :
    /\ locals[i] # None /\ locals[i].step > 0 => locals[i].hour = journal[i][1]
    /\ reply[i] # None => reply[i] = greeting(journal[i][1])
=============================================================================
