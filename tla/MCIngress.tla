------------------------------ MODULE MCIngress ------------------------------
(* Keys that mean something in a path or in a literal, behind a proxy. *)
EXTENDS Ingress

Codes == [c \in {"/", "#", "%", "'"} |->
            CASE c = "/" -> "2F" [] c = "#" -> "23" [] c = "%" -> "25" [] c = "'" -> "27"]

SomeCharacters ==
  Words \cup {"/", "#", "%", "'", "."} \cup {Codes[c] : c \in DOMAIN Codes}
    \cup {"p", "stock", "hold", "api", "probe"}

UnderP == <<"/", "p">>
PublicBases == {<<"host", "/", "p">>, <<"host", "/", "p", "/", "/">>}

Handlers == {[service |-> <<"stock">>, handler |-> <<"hold">>, keyed |-> TRUE],
             [service |-> <<"api">>, handler |-> <<"probe">>, keyed |-> FALSE]}

Slash == <<"/">>
SlashEncoded == <<"%", "2F">>
Quote == <<"'">>
Parent == <<".", ".">>

Call(service, key, handler, scope, mode) ==
  [service |-> service, key |-> key, handler |-> handler, scope |-> scope, mode |-> mode]

Hold(key, scope) == Call(<<"stock">>, key, <<"hold">>, scope, "call")

SomeRequests ==
  {Hold(Slash, Null), Hold(SlashEncoded, Null), Hold(SlashEncoded, Quote), Hold(Parent, Null),
   [Hold(Quote, Slash) EXCEPT !.mode = "send"], Call(<<"api">>, Null, <<"probe">>, Null, "send"),
   Call(<<"api">>, Null, <<"hold">>, Null, "call")}

Stock(key, scope) == [service |-> <<"stock">>, key |-> key, scope |-> scope]

SomeTargets ==
  {Stock(Slash, Unscoped), Stock(SlashEncoded, Unscoped), Stock(SlashEncoded, Scoped(Quote)),
   Stock(SlashEncoded, AllScopes), Stock(Quote, Scoped(Slash))}

AnyClient == Permutations(Clients)
=============================================================================
