-------------------------------- MODULE Calls --------------------------------
(***************************************************************************)
(* The texts that name a handler and its object (crates/restate-e2e-       *)
(* harness: Call::path of ingress.rs, Target and sql_literal of admin.rs): *)
(* the path of a call and the SQL predicate of a query, written by the     *)
(* harness from logical values, and read by others: URL parsers, a proxy   *)
(* before the server, the ingress, the SQL engine.                         *)
(*                                                                         *)
(* A text is a sequence of characters; words that no value can be mistaken *)
(* for ("restate", the columns of a predicate) are one character each.     *)
(***************************************************************************)
EXTENDS Integers, SequencesExt

CONSTANTS
  Null,       (* what is absent *)
  Characters, (* of which texts are made *)
  Code,       (* of each character that is not unreserved: its two hex digits *)
  Prefix,     (* the path under which a proxy publishes the server *)
  Deployed    (* the handlers: service, handler, and whether they are keyed *)

Text == Seq(Characters)

Columns == [service |-> "target_service_name =", key |-> "AND target_service_key =", scope |-> "AND scope ="]

Words ==
  {"host", "restate", "scope", "call", "send", "query", "AND scope IS NULL", "AND status <> 'completed'"}
    \cup {Columns[c] : c \in DOMAIN Columns}

(* What marks a path is encoded, and no code is taken for such a mark. *)
ASSUME CallsAssumption ==
  /\ Words \cup {"/", "#", "%", "'", "."} \subseteq Characters /\ Null \notin Characters
  /\ {"/", "#", "%"} \subseteq DOMAIN Code /\ DOMAIN Code \subseteq Characters
  /\ Code \in [DOMAIN Code -> Characters \ {"/", "#"}]
  /\ \A c, d \in DOMAIN Code : Code[c] = Code[d] => c = d

-----------------------------------------------------------------------------
(* What the harness writes. *)

(* Restate::new, Admin::new: a prefix stays, slashes at the end do not. *)
Trimmed(base) == SubSeq(base, 1, Max({k \in DOMAIN base : base[k] # "/"}))

(* Mutant: a slash is kept as it is. *)
SegmentWithSlashes(text) ==
  FoldLeft(LAMBDA url, c : url \o IF c \in DOMAIN Code \ {"/"} THEN <<"%", Code[c]>> ELSE <<c>>, <<>>, text)

Encoded(url, c) == url \o IF c \in DOMAIN Code THEN <<"%", Code[c]>> ELSE <<c>>

push_segment(text) == FoldLeft(Encoded, <<>>, text)

Dots == {<<".">>, <<".", ".">>}

(* Call::path panics otherwise. *)
Sendable(call) == Dots \cap {call.service, call.handler, call.key, call.scope} = {}

path(call) ==
  <<"/", "restate">>
    \o (IF call.scope = Null THEN <<>> ELSE <<"/", "scope", "/">> \o push_segment(call.scope))
    \o <<"/", call.mode, "/">> \o push_segment(call.service)
    \o (IF call.key = Null THEN <<>> ELSE <<"/">> \o push_segment(call.key))
    \o <<"/">> \o push_segment(call.handler)

Quoted(sql, c) == sql \o IF c = "'" THEN <<"'", "'">> ELSE <<c>>

sql_literal(text) == <<"'">> \o FoldLeft(Quoted, <<>>, text) \o <<"'">>

(* ScopeSelection: the unscoped object, one scope's, or that of every scope. *)
Unscoped == [names |-> Null, all |-> FALSE]
Scoped(name) == [names |-> name, all |-> FALSE]
AllScopes == [names |-> Null, all |-> TRUE]

predicate(target) ==
  <<"target_service_name =">> \o sql_literal(target.service)
    \o <<"AND target_service_key =">> \o sql_literal(target.key)
    \o (CASE target.scope = Unscoped -> <<"AND scope IS NULL">>
          [] target.scope = AllScopes -> <<>>
          [] OTHER -> <<"AND scope =">> \o sql_literal(target.scope.names))

-----------------------------------------------------------------------------
(* What others read. *)

Segmented(parts, c) == IF c = "/" THEN Append(parts, <<>>) ELSE [parts EXCEPT ![Len(parts)] = Append(@, c)]

Split(text) == FoldLeft(Segmented, <<<<>>>>, text)

Character(digits) ==
  IF \E c \in DOMAIN Code : Code[c] = digits THEN CHOOSE c \in DOMAIN Code : Code[c] = digits ELSE digits

Decoded(d, c) ==
  IF d.escaped THEN [text |-> Append(d.text, Character(c)), escaped |-> FALSE]
  ELSE IF c = "%" THEN [d EXCEPT !.escaped = TRUE]
  ELSE [d EXCEPT !.text = Append(@, c)]

Decode(segment) == FoldLeft(Decoded, [text |-> <<>>, escaped |-> FALSE], segment).text

(* The HTTP client sends no fragment, nor segments of dots, encoded or not. *)
Dotless(kept, segment) == IF Decode(segment) \in Dots THEN kept ELSE Append(kept, segment)

Undotted(segments) == FoldLeft(Dotless, <<>>, segments)

Sent(url) ==
  LET marks == {k \in DOMAIN url : url[k] = "#"}
      kept == IF marks = {} THEN url ELSE SubSeq(url, 1, Min(marks) - 1)
  IN Undotted(Split(kept))

Published == Split(<<"host">> \o Prefix)

(* The proxy passes on what is under its prefix; segment one is the host. *)
Forwarded(segments) ==
  IF IsPrefix(Published, segments) THEN SubSeq(segments, Len(Published) + 1, Len(segments)) ELSE <<>>

(* The ingress reads a target out of the segments, Null where there is none. *)
Routed(segments) ==
  LET decoded == [k \in DOMAIN segments |-> Decode(segments[k])]
      scoped == Len(decoded) > 3 /\ decoded[2] = <<"scope">>
      rest == SubSeq(decoded, IF scoped THEN 4 ELSE 2, Len(decoded))
      target == [mode |-> rest[1][1], scope |-> IF scoped THEN decoded[3] ELSE Null, service |-> rest[2],
                 key |-> IF Len(rest) = 4 THEN rest[3] ELSE Null, handler |-> rest[Len(rest)]]
  IN IF /\ Len(decoded) > 1 /\ decoded[1] = <<"restate">>
        /\ Len(rest) \in {3, 4} /\ rest[1] \in {<<"call">>, <<"send">>}
        /\ [service |-> target.service, handler |-> target.handler, keyed |-> target.key # Null] \in Deployed
     THEN target ELSE Null

(* The lexemes of a condition: words, and literals with '' for a quote. *)
Word(word) == [word |-> word, literal |-> Null]
Literal(text) == [word |-> Null, literal |-> text]

At(place, text, out) == [at |-> place, text |-> text, out |-> out]

Lexed(state, c) ==
  IF c = "'"
  THEN CASE state.at = "words" -> At("literal", <<>>, state.out)
         [] state.at = "literal" -> At("quote", state.text, state.out)
         [] state.at = "quote" -> At("literal", Append(state.text, c), state.out)
  ELSE CASE state.at = "words" -> At("words", state.text, Append(state.out, Word(c)))
         [] state.at = "literal" -> At("literal", Append(state.text, c), state.out)
         [] state.at = "quote" -> At("words", <<>>, state.out \o <<Literal(state.text), Word(c)>>)

Lexemes(sql) == FoldLeft(Lexed, At("words", <<>>, <<>>), sql).out

(* Whether a row satisfies a well formed condition. *)
WellFormed(lexemes) ==
  \A k \in DOMAIN lexemes :
    IF lexemes[k].word = Null THEN k > 1 /\ \E c \in DOMAIN Columns : lexemes[k - 1].word = Columns[c]
    ELSE (\E c \in DOMAIN Columns : lexemes[k].word = Columns[c]) =>
           k < Len(lexemes) /\ lexemes[k + 1].word = Null

Satisfies(row, lexemes) ==
  \A k \in DOMAIN lexemes :
    /\ \A c \in DOMAIN Columns : lexemes[k].word = Columns[c] => row[c] = lexemes[k + 1].literal
    /\ lexemes[k].word = "AND scope IS NULL" => row.scope = Null

=============================================================================
