------------------------------- MODULE MCSuite -------------------------------
(* Two handlers whose steps begin alike. *)
EXTENDS Suite, TLC

CONSTANTS i1, i2

TwoIds == {i1, i2}
TwoTargets == {"reserve", "pay"}

Name(text) == [text |-> text, hole |-> Fixed]
With(text, hole) == [text |-> text, hole |-> hole]

Hold == With(<<"h">>, "sku")             (* h{sku} *)
HoldAll == With(<<"h", "a">>, "sku")     (* ha{sku} *)
HoldOther == With(<<"h">>, "id")         (* h{id}: h{sku}'s prefix *)
Audit == Name(<<"a">>)
Hooked == Name(<<"h", "b">>)             (* reads as h{sku} where there is one *)
Anything == With(<<>>, "sku")            (* no prefix *)
Unnamed == Name(<<>>)

Row(target, path) == [target |-> target, path |-> path]
Program(target, steps) == [target |-> target, steps |-> steps]

SomeTables ==
  {{Row("reserve", <<Hold, Audit>>), Row("reserve", <<HoldAll>>)},
   {Row("reserve", <<Hold>>), Row("pay", <<Hooked>>)},
   {Row("reserve", <<Hold>>), Row("reserve", <<Hooked>>)},
   {Row("reserve", <<Hold>>), Row("reserve", <<HoldOther>>)},
   {Row("reserve", <<Anything>>)},
   {Row("pay", <<>>)}}

SomePrograms ==
  {Program("reserve", <<Hold, Unnamed, Audit>>), Program("reserve", <<HoldAll>>),
   Program("reserve", <<Hooked>>), Program("pay", <<Hooked>>)}

AnyOrder == Permutations(TwoIds)

SomeSymbols == {"a", "b", "h"}
SomeHoles == {"sku", "id"}
(* ha, haa and h: h{sku} filled in, of which the second reads as ha{sku} and the third as fixed. *)
SomeValues == {<<"a">>, <<"a", "a">>, <<>>}
=============================================================================
