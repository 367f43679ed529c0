------------------------------- MODULE Options -------------------------------
(***************************************************************************)
(* From a configuration to an SDK endpoint (crates/restate-config:         *)
(* options.rs, endpoint.rs). Options are functions from the fields that    *)
(* are set, in a configuration as in the SDK: a false or a zero is set.    *)
(***************************************************************************)
EXTENDS Integers, SequencesExt

CONSTANTS
  Refused,    (* what an error leaves *)
  Metadata,   (* the entries of metadata, each of them a field *)
  Delimiters, (* the comma, and white space *)
  ValidKeys   (* the texts, sequences of characters, that the SDK takes for keys *)

(* What both services and handlers have. *)
CommonFields ==
  Metadata \cup
  {"inactivity_timeout", "abort_timeout", "idempotency_retention", "journal_retention",
   "enable_lazy_state", "ingress_private", "retry_policy_initial_interval",
   "retry_policy_exponentiation_factor", "retry_policy_max_interval", "retry_policy_max_attempts",
   "retry_policy_on_max_attempts"}

ServiceFields == CommonFields
HandlerFields == CommonFields \cup {"workflow_retention"}

(* deny_unknown_fields: a configuration with another field is not one. *)
Deserializes(policy) ==
  /\ DOMAIN policy.options \subseteq ServiceFields
  /\ \A handler \in DOMAIN policy.handlers : DOMAIN policy.handlers[handler] \subseteq HandlerFields

(* A text so far, in parts between delimiters. *)
Grow(parts, c) ==
  IF c \in Delimiters THEN Append(parts, <<>>) ELSE [parts EXCEPT ![Len(parts)] = Append(@, c)]

(* identity_keys: a list as it is, or the texts between delimiters. *)
identity_keys(written) ==
  IF written.form = "list" THEN ToSet(written.keys)
  ELSE ToSet(FoldLeft(Grow, <<<<>>>>, written.keys)) \ {<<>>}

(* EndpointConfig::apply: all keys, or the first that is not one. *)
configure(keys) == IF keys \subseteq ValidKeys THEN keys ELSE Refused

(* validate_handlers, against the names the service has. *)
KnowsHandlers(policy, service) == DOMAIN policy.handlers \subseteq DOMAIN service.handlers

(* Mutant: what is false, or zero, is taken as unset. *)
CommonOptionsTruthy(options) ==
  [field \in {f \in DOMAIN options \cap CommonFields : options[f] \notin {"false", "0s"}} |-> options[field]]

(* apply_common_options: every field that is set, and no other, into its own. *)
CommonOptions(options) == [field \in DOMAIN options \cap CommonFields |-> options[field]]

(* What options do not set stays as it is, in the SDK too. *)
Over(options, own) ==
  [field \in DOMAIN options \cup DOMAIN own |-> IF field \in DOMAIN options THEN options[field] ELSE own[field]]

(* The conversions to ServiceOptions and HandlerOptions. *)
ServiceOptions(policy) == CommonOptions(policy.options)

HandlerOptions(options) ==
  Over(CommonOptions(options), [field \in DOMAIN options \cap {"workflow_retention"} |-> options[field]])

(* ServiceOptionsConfig::apply: a definition the endpoint can bind. *)
apply(policy, service) ==
  IF ~KnowsHandlers(policy, service) THEN Refused
  ELSE [options |-> Over(ServiceOptions(policy), service.options),
        handlers |-> [name \in DOMAIN service.handlers |->
                        IF name \in DOMAIN policy.handlers
                        THEN Over(HandlerOptions(policy.handlers[name]), service.handlers[name])
                        ELSE service.handlers[name]]]
=============================================================================
