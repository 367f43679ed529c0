------------------------------ MODULE RunNames ------------------------------
(***************************************************************************)
(* The step-name table (crates/restate-e2e-harness/src/run_names.rs): the  *)
(* ctx.run names each handler may journal, and the check of a whole run    *)
(* against them.                                                           *)
(*                                                                         *)
(* A declared name is a text with, when it is parametrised, a hole after   *)
(* it: lookup-{sku} is [text |-> "lookup-", hole |-> "sku"]. A text is a   *)
(* sequence of symbols; a run in the journal is [text |-> its name].       *)
(***************************************************************************)
EXTENDS Integers, SequencesExt

CONSTANTS
  Symbols, (* what texts are made of *)
  Holes,   (* the parameters of names *)
  Fixed,   (* the hole of a name without one *)
  None     (* a journal of which nothing is retained *)

Steps == [text : Seq(Symbols), hole : Holes \cup {Fixed}]
Runs == [text : Seq(Symbols)]

ASSUME RunNamesAssumption == None \notin Seq(Runs)

(* Steps as they are declared: the paths of a handler, and their names. *)
PathsOf(table, target) == {row.path : row \in {r \in table : r.target = target}}
NamesOf(paths) == UNION {ToSet(path) : path \in paths}
Parametrised(paths) == {n \in NamesOf(paths) : n.hole # Fixed}

(* A text that starts with the pattern's prefix and goes on after it. *)
Matches(pattern, text) == IsStrictPrefix(pattern.text, text)

(* Mutant: a fixed name may begin like a parametrised one. *)
AcceptsShadowed(paths) ==
  \A p \in Parametrised(paths) :
    /\ p.text # <<>>
    /\ \A q \in Parametrised(paths) : q.text = p.text => q = p

(* RunPatterns::of panics otherwise: a pattern has a prefix, shared with no *)
(* other one, and no fixed name reads as it.                                *)
Accepts(paths) ==
  \A p \in Parametrised(paths) :
    /\ p.text # <<>>
    /\ \A n \in NamesOf(paths) \ Parametrised(paths) : ~Matches(p, n.text)
    /\ \A q \in Parametrised(paths) : q.text = p.text => q = p

(* RunPatterns::pattern: the longest prefix that goes on, or the text itself. *)
Pattern(paths, text) ==
  LET matching == {p \in Parametrised(paths) : Matches(p, text)}
  IN IF matching = {} THEN [text |-> text, hole |-> Fixed]
     ELSE CHOOSE p \in matching : \A q \in matching : Len(q.text) <= Len(p.text)

(* JournalEntry::named_run_name: runs without a name are passed over. *)
Keep(kept, run) == IF run.text = <<>> THEN kept ELSE Append(kept, run)
Named(runs) == FoldLeft(Keep, <<>>, runs)

(* A journal as the check reads it, in patterns of its own handler. *)
Observed(paths, runs) ==
  LET named == Named(runs) IN [k \in DOMAIN named |-> Pattern(paths, named[k].text)]

(* A path is walked by a journal that equals it. *)
Walks(observed, path) == Len(observed) = Len(path) /\ IsPrefix(observed, path)

(* Mutant: a journal that is missing counts as an empty one. *)
EvidenceAssumed(journal) == IF journal = None THEN {<<>>} ELSE {journal}

(* A journal that is missing is no evidence, not even of an empty one. *)
Evidence(journal) == IF journal = None THEN {} ELSE {journal}

(* What was deployed or invoked without a row of its own. *)
Untabled(tabled, met) == met \ tabled

(* Table::check: what is wrong, by kind. target gives the handler of each *)
(* invocation, and journals what is retained of it.                       *)
Violations(table, deployed, target, journals) ==
  LET tabled == {row.target : row \in table}
      ids == {id \in DOMAIN target : target[id] \in tabled}
      read(id) == {Observed(PathsOf(table, target[id]), j) : j \in Evidence(journals[id])}
  IN [missing |-> {id \in DOMAIN target : Evidence(journals[id]) = {}},
      untabled |-> Untabled(tabled, deployed \cup {target[id] : id \in DOMAIN target}),
      undeployed |-> tabled \ deployed,
      unexplained |-> {id \in ids : \E o \in read(id) :
                         \A path \in PathsOf(table, target[id]) : ~IsPrefix(o, path)},
      unwalked |-> {row \in table : \A id \in ids : \A o \in read(id) :
                      target[id] = row.target => ~Walks(o, row.path)}]

NoViolations == [missing |-> {}, untabled |-> {}, undeployed |-> {}, unexplained |-> {}, unwalked |-> {}]
=============================================================================
