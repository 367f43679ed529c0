-------------------------------- MODULE Launch --------------------------------
(***************************************************************************)
(* Where a suite's server comes from, and what it runs with                *)
(* (crates/restate-e2e-harness: launcher_or_skip and Launcher::launch of   *)
(* gate.rs, the environment of Restate::spawn and the version check of     *)
(* Restate::ready of server.rs).                                           *)
(*                                                                         *)
(* Environments are functions from the variables that are set, empty where *)
(* there is none. A server inherits the test process's; what a spec and    *)
(* the harness add goes over it. What may go wrong between the spawn and   *)
(* the version is in Server and Ready.                                     *)
(***************************************************************************)
EXTENDS Integers, SequencesExt

CONSTANTS
  None,        (* what is absent *)
  Garbled,     (* a value that is not Unicode *)
  Features,    (* name in /version, and flag, the variable that sets it *)
  Specs,       (* name, features and env of the servers suites ask for *)
  Gates,       (* bound: what the gate's variables hold *)
  Inherited,   (* bound: Restate settings in the test process's environment *)
  Ports        (* bound: ports free at launch *)

ASSUME LaunchAssumption ==
  \A set \in Gates \cup Inherited : \A name \in DOMAIN set : set[name] # None

VARIABLES
  spec,     (* of the suite *)
  policy,   (* its ReusePolicy *)
  env,      (* of the test process *)
  phase,    (* "gate", "launch", "starting", "ready", "skipped" or "failed" *)
  launcher, (* launcher_or_skip's answer *)
  addresses, (* the server's, as the handle has them *)
  child,    (* the environment of a spawned server, empty without one *)
  running   (* what the server that answers runs with *)

launchVars == <<spec, policy, env, phase, launcher, addresses, child, running>>

(* What own says goes over what base says. *)
Over(base, own) ==
  [name \in DOMAIN base \cup DOMAIN own |-> IF name \in DOMAIN own THEN own[name] ELSE base[name]]

NoEnvironment == <<>>
Spawned == child # NoEnvironment

-----------------------------------------------------------------------------
(* The gate *)

(* std::env::var is an error for a value that is not Unicode. *)
non_empty(name) == IF name \in DOMAIN env /\ env[name] \notin {"", Garbled} THEN env[name] ELSE None

(* std::env::var_os is not. *)
non_empty_os(name) == IF name \in DOMAIN env /\ env[name] # "" THEN env[name] ELSE None

NoServer == [from |-> "none"]
Panic == [from |-> "panic"]
AtUrls(admin, ingress) == [from |-> "reuse", at |-> [admin |-> admin, ingress |-> ingress]]

(* Mutant: half a configuration is none. *)
ReuseUrlsLenient(allowed, admin, ingress) ==
  IF allowed = "never" \/ None \in {admin, ingress} THEN NoServer ELSE AtUrls(admin, ingress)

(* Both URLs, or neither, where they may be used at all. *)
reuse_urls(allowed, admin, ingress) ==
  IF allowed = "never" \/ (admin = None /\ ingress = None) THEN NoServer
  ELSE IF None \in {admin, ingress} THEN Panic
  ELSE AtUrls(admin, ingress)

ReusedHost == "host.docker.internal"
SpawnedHost == "127.0.0.1"

Or(given, default) == IF given = None THEN default ELSE given

(* No server is a skip, which CI does not accept. *)
server_gate(reuse, binary, host, ci) ==
  IF reuse # NoServer
  THEN [from |-> "reuse", at |-> reuse.at, endpoint_host |-> Or(host, ReusedHost)]
  ELSE IF binary # None
  THEN [from |-> "binary", at |-> binary, endpoint_host |-> Or(host, SpawnedHost)]
  ELSE IF ci # None THEN Panic ELSE NoServer

launcher_or_skip ==
  LET reuse == reuse_urls(policy, non_empty("RESTATE_ADMIN_URL"), non_empty("RESTATE_INGRESS_URL"))
  IN IF reuse = Panic THEN Panic
     ELSE server_gate(reuse, non_empty_os("RESTATE_SERVER_BIN"), non_empty("RESTATE_ENDPOINT_HOST"),
                      non_empty_os("CI"))

Gate ==
  /\ phase = "gate"
  /\ launcher' = launcher_or_skip
  /\ phase' = CASE launcher' = Panic -> "failed" [] launcher' = NoServer -> "skipped" [] OTHER -> "launch"
  /\ UNCHANGED <<spec, policy, env, addresses, child, running>>

-----------------------------------------------------------------------------
(* The launch *)

(* ServerSpec::is_valid_name, of a name as a sequence of characters. *)
NameCharacters == {"a", "1", "-"}
is_valid_name(name) == name # <<>> /\ ToSet(name) \subseteq NameCharacters

(* launch_directory's candidate, which no other launch has. *)
Directory(name) == <<"tmp", "/", "restate-e2e-">> \o name \o <<"-0">>

(* A pair of a spec's env has a name and a value, or panics. *)
Paired == \A k \in DOMAIN spec.env : "value" \in DOMAIN spec.env[k]

(* Command::env: the last value of a variable stays. *)
Layer(environment, pairs) ==
  FoldLeft(LAMBDA under, pair : Over(under, [name \in {pair.name} |-> pair.value]), environment, pairs)

Flags == [k \in DOMAIN spec.features |->
            [name |-> spec.features[k].feature.flag, value |-> IF spec.features[k].on THEN "true" ELSE "false"]]

(* The harness's own values. *)
Loopback(port) == <<"127.0.0.1", port>>

Own(ports) ==
  [RESTATE_BASE_DIR |-> Directory(spec.name), RESTATE_NODE_NAME |-> <<"e2e-">> \o spec.name,
   RESTATE_LISTEN_MODE |-> "tcp", RESTATE_ADMIN__LISTEN_MODE |-> "tcp",
   RESTATE_INGRESS__LISTEN_MODE |-> "tcp",
   RESTATE_BIND_ADDRESS |-> Loopback(ports.node),
   RESTATE_ADVERTISED_ADDRESS |-> Loopback(ports.node),
   RESTATE_INGRESS__BIND_ADDRESS |-> Loopback(ports.ingress),
   RESTATE_ADMIN__BIND_ADDRESS |-> Loopback(ports.admin)]

(* Mutant: a spec's env has the last word. *)
EnvironmentOfSpec(ports) == Layer(Layer(Over(env, Own(ports)), Flags), spec.env)

Environment(ports) == Over(Layer(Layer(env, spec.env), Flags), Own(ports))

(* free_ports are bound together, so that they differ. *)
Free == {p \in [{"ingress", "admin", "node"} -> Ports] : IsInjective(p)}

(* Restate::reuse *)
Reuse ==
  /\ phase = "launch" /\ launcher.from = "reuse" /\ is_valid_name(spec.name)
  /\ phase' = "starting"
  /\ addresses' = launcher.at
  /\ UNCHANGED <<spec, policy, env, launcher, child, running>>

(* Restate::spawn; the binary may not be one. *)
Spawn ==
  /\ phase = "launch" /\ launcher.from = "binary" /\ is_valid_name(spec.name) /\ Paired
  /\ \E ports \in Free :
       /\ child' = Environment(ports)
       /\ addresses' = [admin |-> Loopback(ports.admin), ingress |-> Loopback(ports.ingress)]
  /\ phase' = "starting"
  /\ UNCHANGED <<spec, policy, env, launcher, running>>

LaunchFails ==
  /\ phase = "launch"
  /\ ~is_valid_name(spec.name) \/ (launcher.from = "binary")
  /\ phase' = "failed"
  /\ UNCHANGED <<spec, policy, env, launcher, addresses, child, running>>

-----------------------------------------------------------------------------
(* The server, by what its environment says; a section's mode overrides the *)
(* global one. A release reports some of its features, as they are.         *)
Setting(name, default) == IF name \in DOMAIN child THEN child[name] ELSE default

RunsWith ==
  [base_dir |-> Setting("RESTATE_BASE_DIR", "shared"),
   node     |-> Setting("RESTATE_BIND_ADDRESS", "any"),
   admin    |-> Setting("RESTATE_ADMIN__BIND_ADDRESS", "any"),
   ingress  |-> Setting("RESTATE_INGRESS__BIND_ADDRESS", "any"),
   modes    |-> {Setting(mode, Setting("RESTATE_LISTEN_MODE", "unix")) :
                   mode \in {"RESTATE_ADMIN__LISTEN_MODE", "RESTATE_INGRESS__LISTEN_MODE"}}]

(* A spawned server follows a flag it knows; one that runs already has its own. *)
Reports ==
  {r \in [Features -> {TRUE, FALSE, None}] :
     Spawned => \A f \in Features : r[f] # None /\ f.flag \in DOMAIN child => r[f] = (child[f.flag] = "true")}

ComeUp ==
  /\ phase = "starting" /\ running = None
  /\ \E features \in Reports :
       running' = [features |-> features, as |-> IF Spawned THEN RunsWith ELSE None]
  /\ UNCHANGED <<spec, policy, env, phase, launcher, addresses, child>>

(* The version check of Restate::ready: every feature of the spec, as it is there. *)
Reported == \A k \in DOMAIN spec.features : running.features[spec.features[k].feature] = spec.features[k].on

Ready ==
  /\ phase = "starting" /\ running # None
  /\ phase' = IF Reported THEN "ready" ELSE "failed"
  /\ UNCHANGED <<spec, policy, env, launcher, addresses, child, running>>

-----------------------------------------------------------------------------
LaunchInit ==
  /\ spec \in Specs /\ policy \in {"allowed", "never"}
  /\ \E gate \in Gates, settings \in Inherited : env = Over(settings, gate)
  /\ phase = "gate" /\ launcher = NoServer
  /\ addresses = None /\ child = NoEnvironment /\ running = None

LaunchNext == Gate \/ Reuse \/ Spawn \/ LaunchFails \/ ComeUp \/ Ready

LaunchSpec == LaunchInit /\ [][LaunchNext]_launchVars

-----------------------------------------------------------------------------
(* "An empty variable is unset"; any other supplies something, though one    *)
(* that is not Unicode nothing that can be read.                             *)
Supplied(name) == name \in DOMAIN env /\ env[name] # ""
Readable(name) == Supplied(name) /\ env[name] # Garbled
Urls == {"RESTATE_ADMIN_URL", "RESTATE_INGRESS_URL"}

(* "Supplying only one reuse URL panics. An incomplete configuration never   *)
(* falls back to a binary or a skip" (launcher_or_skip), whatever was        *)
(* supplied.                                                                 *)
HalfPanics ==
  phase # "gate" /\ policy = "allowed" /\ Supplied("RESTATE_ADMIN_URL") # Supplied("RESTATE_INGRESS_URL")
    => launcher = Panic

(* "A run that passed by skipping proves nothing": a suite that ends skipped *)
(* was given no binary and is not in CI, and where it may use a server that  *)
(* runs already, no URL of one that could be read; a single one that could   *)
(* be read panics, whatever else there is. A suite that is ready runs against*)
(* the server at both URLs, or against one of its own where it was given a   *)
(* binary and neither. A URL that is not Unicode is the exception, which     *)
(* HalfPanics does not make.                                                 *)
NoEmptyPass ==
  /\ phase = "skipped" =>
       /\ ~Supplied("CI") /\ ~Supplied("RESTATE_SERVER_BIN")
       /\ policy = "allowed" => \A name \in Urls : Supplied(name) => env[name] = Garbled
  /\ phase # "gate" /\ policy = "allowed" /\ Readable("RESTATE_ADMIN_URL") # Readable("RESTATE_INGRESS_URL") =>
       launcher = Panic
  /\ phase = "ready" =>
       IF policy = "allowed" /\ \E name \in Urls : Readable(name)
       THEN ~Spawned /\ addresses = [admin |-> env["RESTATE_ADMIN_URL"], ingress |-> env["RESTATE_INGRESS_URL"]]
       ELSE Spawned /\ Supplied("RESTATE_SERVER_BIN")

(* Whatever the test process's environment and the spec's pairs say, a suite *)
(* only runs against a server that reports each feature as the spec has it;  *)
(* one that was spawned keeps its data in a directory of its own, under the  *)
(* temp dir, and listens by TCP on the loopback, where the handle expects it.*)
RunsAsSpecified ==
  phase = "ready" =>
    /\ \A k \in DOMAIN spec.features : running.features[spec.features[k].feature] = spec.features[k].on
    /\ Spawned =>
         /\ "/" \notin ToSet(spec.name) /\ running.as.base_dir = Directory(spec.name)
         /\ running.as.modes = {"tcp"}
         /\ running.as.admin = addresses.admin /\ running.as.ingress = addresses.ingress
         /\ {running.as.admin[1], running.as.ingress[1], running.as.node[1]} = {"127.0.0.1"}
         /\ Cardinality({running.as.admin, running.as.ingress, running.as.node}) = 3
=============================================================================
