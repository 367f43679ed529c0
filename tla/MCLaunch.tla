------------------------------- MODULE MCLaunch -------------------------------
(* Every combination of the gate's variables, with settings that disagree. *)
EXTENDS Launch

Scoped == [name |-> "scoped", flag |-> "SCOPED"]
Queues == [name |-> "vqueues", flag |-> "VQUEUES"]
TwoFeatures == {Scoped, Queues}

On(feature) == [feature |-> feature, on |-> TRUE]
Off(feature) == [feature |-> feature, on |-> FALSE]
Pair(name, value) == [name |-> name, value |-> value]

SomeSpecs ==
  {[name |-> <<"a", "-", "1">>, features |-> <<On(Scoped)>>, env |-> <<Pair("SCOPED", "false"), Pair("RESTATE_BASE_DIR", "shared")>>],
   [name |-> <<"a">>, features |-> <<Off(Scoped), On(Queues)>>, env |-> <<Pair("RESTATE_ADMIN__LISTEN_MODE", "unix")>>],
   [name |-> <<"a">>, features |-> <<On(Queues), Off(Queues)>>, env |-> <<>>],
   [name |-> <<"a">>, features |-> <<>>, env |-> <<[name |-> "SCOPED"]>>],
   [name |-> <<"a", "/", "1">>, features |-> <<>>, env |-> <<>>]}

Values(name) ==
  CASE name = "RESTATE_ENDPOINT_HOST" -> {"", "host"}
    [] name = "CI" -> {"", "1", Garbled}
    [] name = "RESTATE_ADMIN_URL" -> {"", "http://admin", Garbled}
    [] name = "RESTATE_INGRESS_URL" -> {"", "http://ingress", Garbled}
    [] OTHER -> {"", "restate-server", Garbled}

GateNames == {"RESTATE_ENDPOINT_HOST", "CI", "RESTATE_ADMIN_URL", "RESTATE_INGRESS_URL", "RESTATE_SERVER_BIN"}

AnyGate ==
  {[name \in {n \in GateNames : g[n] # None} |-> g[name]] :
     g \in {f \in [GateNames -> UNION {Values(n) : n \in GateNames} \cup {None}] :
              \A n \in GateNames : f[n] \in Values(n) \cup {None}}}

NoSettings == << >>
SomeInherited ==
  {NoSettings, ("RESTATE_INGRESS__LISTEN_MODE" :> "unix") @@ ("RESTATE_BIND_ADDRESS" :> <<"0.0.0.0", 1>>) @@ ("VQUEUES" :> "true")}
=============================================================================
