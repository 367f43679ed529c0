------------------------------- MODULE Ingress -------------------------------
(***************************************************************************)
(* Tasks of a test that call handlers through the ingress, while the test  *)
(* selects their invocations by object (crates/restate-e2e-harness:        *)
(* Restate::invoke of server.rs, Reply of ingress.rs, in_flight_ids_on and *)
(* in_flight_on of admin.rs). An invocation lives in the server; its reply *)
(* may be late, lost, or replaced on its way by an intermediary.           *)
(***************************************************************************)
EXTENDS Calls

CONSTANTS
  Panics,   (* what a failed assertion leaves *)
  Bases,    (* URLs at which the server is published *)
  Clients,  (* the tasks, each of which makes one call *)
  Requests, (* bound: the calls they may make *)
  Targets   (* bound: the objects the test may ask for *)

CallType ==
  [service : Text, key : Text \cup {Null}, handler : Text, scope : Text \cup {Null}, mode : {"call", "send"}]

TargetType == [service : Text, key : Text, scope : [names : Text \cup {Null}, all : BOOLEAN]]

(* Of a server published under a prefix: slashes at the end are not part of *)
(* it, and it has neither a fragment nor a segment of dots.                 *)
ASSUME IngressAssumption ==
  /\ Requests \subseteq CallType /\ Targets \subseteq TargetType
  /\ \A b \in Bases : Trimmed(b) = <<"host">> \o Prefix
  /\ Prefix \in Text /\ "#" \notin Range(Prefix) /\ Undotted(Published) = Published

Sources == {Null, "ingress", "invocation"}

BodyType == [code : Nat \cup {Null}, source : Sources, message : Nat \cup {Null}]

ReplyType ==
  [status : Nat, error_source : Sources, invocation_id : Nat \cup {Null}, body : BodyType]

SelectionType == [target : TargetType, one : BOOLEAN, ids : (SUBSET Nat) \cup {Panics}]

(* A handler returns a value, which may look like an envelope, or a terminal *)
(* error, whose message is its fault or not.                                 *)
Endings == {"value", "envelope", "fault", "text"}

(* Neither is the other, nor any other value. *)
ASSUME AbsenceAssumption ==
  /\ Null # Panics /\ Null \notin {"ingress", "invocation"} \cup Endings
  /\ \A v \in {Null, Panics} :
       v \notin Nat /\ v \notin CallType /\ v \notin ReplyType /\ v \notin SelectionType

VARIABLES
  base,        (* of the ingress and of the admin API, as the handle keeps them *)
  call,        (* of each client, what it called, Null before, Panics if it could not *)
  sent,        (* of each client: the segments it sent *)
  id,          (* history: of each client: the invocation its request became, 0 if none, Null before *)
  reply,       (* of each client, Null before, Panics after a timeout *)
  altered,     (* history: the replies that are not the server's own *)
  fault,       (* of each client: Reply::fault of its reply *)
  invocations, (* the server's rows *)
  selected,    (* of the one selection the test makes *)
  held         (* history: the clients whose calls were in flight at that moment *)

client == <<call, sent, id, reply, altered, fault>>
selection == <<selected, held>>
ingressVars == <<base, client, invocations, selection>>

Absent == [code |-> Null, source |-> Null, message |-> Null]

-----------------------------------------------------------------------------
(* A task of the test *)

(* invoke sends the request, unless the path cannot say it. *)
Invoke(c, called) ==
  /\ call[c] = Null
  /\ call' = [call EXCEPT ![c] = IF Sendable(called) THEN called ELSE Panics]
  /\ sent' = [sent EXCEPT ![c] = IF Sendable(called) THEN Sent(base.ingress \o path(called)) ELSE Null]
  /\ UNCHANGED <<base, id, reply, altered, fault, invocations, selection>>

(* The client's timeout: the task panics, the invocation is left to go on. *)
Timeout(c) ==
  /\ call[c] \notin {Null, Panics} /\ reply[c] = Null
  /\ reply' = [reply EXCEPT ![c] = Panics]
  /\ UNCHANGED <<base, call, sent, id, altered, fault, invocations, selection>>

(* Mutant: the header is not looked at. *)
IsFaultByBody(r) == r.body.code = r.status /\ r.body.source = "invocation"

(* Reply::fault's assertions. *)
IsFault(r) == r.body.code = r.status /\ r.body.source = "invocation" /\ r.error_source = "invocation"

(* The message is the fault's only when it parses: 0 is a text that does not. *)
Fault(c) ==
  /\ reply[c] \notin {Null, Panics} /\ fault[c] = Null
  /\ fault' = [fault EXCEPT ![c] =
       IF IsFault(reply[c]) /\ reply[c].body.message \notin {Null, 0} THEN reply[c].body.message ELSE Panics]
  /\ UNCHANGED <<base, call, sent, id, reply, altered, invocations, selection>>

-----------------------------------------------------------------------------
(* The test *)

(* in_flight_ids_on: the query, as the SQL engine reads it. *)
InFlightOf(target) ==
  LET query == Lexemes(predicate(target) \o <<"AND status <> 'completed'">>)
  IN IF Forwarded(Sent(base.admin \o <<"/", "query">>)) # <<<<"query">>>> \/ ~WellFormed(query) THEN Panics
     ELSE {i \in DOMAIN invocations : invocations[i].ended = Null /\ Satisfies(invocations[i].target, query)}

(* The clients whose calls the server has, and has not completed. *)
Unfinished == {c \in Clients : id[c] \in DOMAIN invocations /\ invocations[id[c]].ended = Null}

Select(target, one, ids) ==
  /\ selected = Null
  /\ selected' = [target |-> target, one |-> one, ids |-> ids]
  /\ held' = Unfinished
  /\ UNCHANGED <<base, client, invocations>>

InFlightIdsOn(target) == Select(target, FALSE, InFlightOf(target))

(* in_flight_on: the only one, or a panic. *)
InFlightOn(target) ==
  LET ids == InFlightOf(target)
  IN Select(target, TRUE, IF ids # Panics /\ Cardinality(ids) = 1 THEN ids ELSE Panics)

-----------------------------------------------------------------------------
(* The server, and what is between it and the test. *)

(* A request arrives, whether or not the client still waits. *)
Accept(c) ==
  /\ call[c] \notin {Null, Panics} /\ id[c] = Null
  /\ LET target == Routed(Forwarded(sent[c]))
     IN IF target = Null
        THEN id' = [id EXCEPT ![c] = 0] /\ UNCHANGED invocations
        ELSE /\ invocations' = Append(invocations, [target |-> target, ended |-> Null])
             /\ id' = [id EXCEPT ![c] = Len(invocations')]
  /\ UNCHANGED <<base, call, sent, reply, altered, fault, selection>>

End(i, how) ==
  /\ i \in DOMAIN invocations /\ invocations[i].ended = Null
  /\ invocations' = [invocations EXCEPT ![i].ended = how]
  /\ UNCHANGED <<base, client, selection>>

Response(status, body, i, source) ==
  [status |-> status, body |-> body, invocation_id |-> i, error_source |-> source]

Envelope(code, source, message) == [code |-> code, source |-> source, message |-> message]

(* What the ingress says of an invocation; a send is answered at once. *)
Said(i) ==
  LET how == invocations[i].ended
  IN IF invocations[i].target.mode = "send" THEN Response(202, Absent, i, Null)
     ELSE CASE how = "value" -> Response(200, Absent, i, Null)
            [] how = "envelope" -> Response(200, Envelope(200, "invocation", i), i, Null)
            [] OTHER -> Response(500, Envelope(500, "invocation", IF how = "text" THEN 0 ELSE i), i, "invocation")

NotFound == Response(404, Envelope(404, "ingress", 0), Null, "ingress")

Answered(c) ==
  \/ id[c] = 0
  \/ /\ id[c] \in DOMAIN invocations
     /\ invocations[id[c]].target.mode = "send" \/ invocations[id[c]].ended # Null

Answer(c) ==
  /\ reply[c] = Null /\ call[c] \notin {Null, Panics} /\ Answered(c)
  /\ reply' = [reply EXCEPT ![c] = IF id[c] = 0 THEN NotFound ELSE Said(id[c])]
  /\ UNCHANGED <<base, call, sent, id, altered, fault, invocations, selection>>

(* An intermediary answers in the server's place, or changes the status. *)
Interfere(c) ==
  /\ reply[c] = Null /\ call[c] \notin {Null, Panics}
  /\ \/ reply' = [reply EXCEPT ![c] = Response(502, Absent, Null, Null)]
     \/ /\ id[c] \in DOMAIN invocations /\ Answered(c)
        /\ reply' = [reply EXCEPT ![c] = [Said(id[c]) EXCEPT !.status = 502]]
  /\ altered' = altered \cup {c}
  /\ UNCHANGED <<base, call, sent, id, fault, invocations, selection>>

-----------------------------------------------------------------------------
IngressInit ==
  /\ \E ingress, admin \in Bases : base = [ingress |-> Trimmed(ingress), admin |-> Trimmed(admin)]
  /\ call = [c \in Clients |-> Null] /\ sent = [c \in Clients |-> Null] /\ id = [c \in Clients |-> Null]
  /\ reply = [c \in Clients |-> Null] /\ altered = {} /\ fault = [c \in Clients |-> Null]
  /\ invocations = <<>>
  /\ selected = Null /\ held = {}

IngressNext ==
  \/ \E c \in Clients :
       \/ \E called \in Requests : Invoke(c, called)
       \/ Timeout(c) \/ Fault(c) \/ Accept(c) \/ Answer(c) \/ Interfere(c)
  \/ \E i \in 1 .. Cardinality(Clients), how \in Endings : End(i, how)
  \/ \E target \in Targets : InFlightIdsOn(target) \/ InFlightOn(target)

IngressSpec == IngressInit /\ [][IngressNext]_ingressVars

-----------------------------------------------------------------------------
(* Two logical values of an object agree. *)
Names(target, called) ==
  /\ called.service = target.service /\ called.key = target.key
  /\ \/ target.scope = AllScopes
     \/ target.scope.names = called.scope

(* "The key is the same value that Target selects": whatever characters a   *)
(* name is made of, whatever URL the server is published at, a selection is *)
(* exactly the calls in flight that were made to the object, and a call is  *)
(* only told that there is no handler where there is none.                  *)
CallsAreSelected ==
  /\ selected # Null =>
       LET own == {id[c] : c \in {d \in held : Names(selected.target, call[d])}}
       IN selected.ids = (IF selected.one /\ Cardinality(own) # 1 THEN Panics ELSE own)
  /\ \A c \in Clients :
       id[c] = 0 => [service |-> call[c].service, handler |-> call[c].handler,
                          keyed |-> call[c].key # Null] \notin Deployed

(* "A fault is the invocation's terminal error": decoded of exactly the      *)
(* replies in which the call's own invocation ended in it, and never of a    *)
(* value that looks like an envelope, nor of what an intermediary answered.  *)
FaultIsHandlers ==
  \A c \in Clients :
    LET failed == id[c] \in DOMAIN invocations /\ call[c].mode = "call"
                    /\ invocations[id[c]].ended = "fault"
    IN fault[c] # Null => fault[c] = (IF failed /\ c \notin altered THEN id[c] ELSE Panics)
=============================================================================
