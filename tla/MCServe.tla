------------------------------- MODULE MCServe -------------------------------
(* Configurations of a workflow, well and badly made. *)
EXTENDS Serve

CONSTANTS k1, k2, bad

Keys == {<<k1>>, <<k2>>}
Blanks == {",", " "}
SomeMetadata == {"metadata.team", "metadata.tier"}

Own ==
  [options |-> ("inactivity_timeout" :> "42s") @@ ("ingress_private" :> "true") @@ ("metadata.tier" :> "one"),
   handlers |-> ("run" :> ("abort_timeout" :> "1s")) @@ ("peek" :> << >>)]

List(keys) == [form |-> "list", keys |-> keys]
Text(keys) == [form |-> "text", keys |-> keys]
Policy(options, handlers) == [options |-> options, handlers |-> handlers]
Config(keys, policy) == [keys |-> keys, policy |-> policy]

SomeConfigs ==
  {Config(Text(<<" ", k1, ",", " ", k2, " ">>),
          Policy(("ingress_private" :> "false") @@ ("retry_policy_max_attempts" :> "5")
                   @@ ("metadata.team" :> "greetings"),
                 "run" :> (("workflow_retention" :> "0s") @@ ("abort_timeout" :> "0s")))),
   Config(List(<<>>), Policy(<< >>, << >>)),
   Config(List(<<<<k1>>, <<bad>>>>), Policy(<< >>, << >>)),
   Config(List(<<<<k1>>>>), Policy(<< >>, "Run" :> ("abort_timeout" :> "0s"))),
   Config(List(<<<<k1>>>>), Policy("workflow_retention" :> "1d", << >>))}

SomeHours == {4, 5, 22}
=============================================================================
