------------------------------- MODULE Results -------------------------------
(***************************************************************************)
(* A test that asks a journal for the results of its runs, while the       *)
(* invocation goes on and its runs complete in any order. What the test    *)
(* reads may also be less than evidence: columns not selected, a journal   *)
(* version or an entry type the harness does not know, metadata missing or *)
(* contradicting itself, rows out of order, twice, or filtered so that a   *)
(* notification has lost its command.                                      *)
(***************************************************************************)
EXTENDS Journal

CONSTANTS
  Ids,        (* completion ids, in no order *)
  Names,      (* of runs; "" is an unnamed run *)
  Plain,      (* bytes of an entry, and of a harmless result *)
  Leaky,      (* bytes of a result that hold the secret *)
  Secret,     (* the needle of a leak check *)
  MaxEntries  (* bound: the length of the journal *)

(* What a row may be said to be. *)
Types == Supported \cup {"Command: Unknown"}

(* What rows that are evidence decode to. *)
EntryType ==
  [index : Nat, version : {2}, type : Supported, name : Names \cup {Null}, id : Ids \cup {Null},
   raw : {Plain, Leaky}]

ASSUME ResultsAssumption ==
  /\ MaxEntries \in Nat
  /\ Null \notin Nat \cup Ids \cup Names \cup Types \cup {Plain, Leaky}
  /\ Null \notin [class : Types, name : Names \cup {Null}, id : Ids \cup {Null}]
  /\ Refused \notin {Null} \cup Nat \cup BOOLEAN \cup Seq(Names) \cup Seq(EntryType)
  /\ raw_contains([raw |-> Leaky], Secret) /\ ~raw_contains([raw |-> Plain], Secret)

VARIABLES
  journal,  (* the rows the server holds *)
  runs,     (* history: what the handler ran, in order: name, id, result's index (Null before), leak *)
  read,     (* the entries the test has read, Null before, Refused if they do not decode *)
  damage,   (* history: whether rows were read other than they are *)
  ran,      (* history: runs, when the journal was read *)
  answer    (* the last question and its answer *)

server == <<journal, runs>>
test == <<read, damage, ran, answer>>
resultsVars == <<server, test>>

NoAnswer == [question |-> "none", name |-> "", nth |-> 0, is |-> Null]

Row(type, name, id, raw) ==
  [index |-> Len(journal), version |-> 2, type |-> type, name |-> name,
   json |-> [class |-> type, name |-> name, id |-> id], raw |-> raw]

Room == Len(journal) < MaxEntries

-----------------------------------------------------------------------------
(* The server and the handler. *)

Open == {k \in DOMAIN runs : runs[k].result = Null}
Unused == Ids \ {runs[k].id : k \in DOMAIN runs}

(* Any entry that is not about a run. *)
Other ==
  /\ Room
  /\ journal' = Append(journal, Row("Command: Input", Null, Null, Plain))
  /\ UNCHANGED <<runs, test>>

StartRun(name, id) ==
  /\ Room /\ id \in Unused
  /\ journal' = Append(journal, Row("Command: Run", name, id, Plain))
  /\ runs' = Append(runs, [name |-> name, id |-> id, result |-> Null, leak |-> FALSE])
  /\ UNCHANGED test

(* The run's result is stored as bytes, whichever run completes first. *)
Complete(k, raw) ==
  /\ Room /\ k \in Open
  /\ journal' = Append(journal, Row("Notification: Run", Null, runs[k].id, raw))
  /\ runs' = [runs EXCEPT ![k].result = Len(journal), ![k].leak = (raw = Leaky)]
  /\ UNCHANGED test

-----------------------------------------------------------------------------
(* What may be read in place of the journal. *)

Flawed(row) ==
  {[row EXCEPT !.version = Null], [row EXCEPT !.version = 1],
   [row EXCEPT !.type = Null], [row EXCEPT !.type = "Command: Unknown"], [row EXCEPT !.type = "Command: Input"],
   [row EXCEPT !.raw = Null], [row EXCEPT !.json = Null],
   [row EXCEPT !.json.class = "Command: Unknown"], [row EXCEPT !.json.id = Null]}
  \cup (IF row.type # "Command: Run" THEN {}
        ELSE {[row EXCEPT !.name = Null]} \cup {[row EXCEPT !.name = other] : other \in Names})

Without(rows, k) == SubSeq(rows, 1, k - 1) \o SubSeq(rows, k + 1, Len(rows))

Damaged ==
  (UNION {{[journal EXCEPT ![k] = row] : row \in Flawed(journal[k])} : k \in DOMAIN journal})
  \cup {[journal EXCEPT ![k] = journal[k + 1], ![k + 1] = journal[k]] : k \in 1 .. (Len(journal) - 1)}
  \cup {SubSeq(journal, 1, k) \o SubSeq(journal, k, Len(journal)) : k \in DOMAIN journal}
  \cup {Without(journal, k) : k \in {j \in DOMAIN journal :
          journal[j].type = "Command: Run" /\ \E r \in DOMAIN runs : runs[r].id = journal[j].json.id /\ runs[r].result # Null}}

-----------------------------------------------------------------------------
(* The test. *)

(* Admin::journal: the rows at one moment, decoded. *)
Read ==
  /\ read = Null
  /\ \E rows \in {journal} \cup Damaged :
       /\ read' = Entries(rows)
       /\ damage' = (rows # journal)
  /\ ran' = runs
  /\ UNCHANGED <<server, answer>>

Asks(question, name, nth, is) ==
  /\ read \notin {Null, Refused} /\ answer = NoAnswer
  /\ answer' = [question |-> question, name |-> name, nth |-> nth, is |-> is]
  /\ UNCHANGED <<server, read, damage, ran>>

AskResult == \E name \in Names : Asks("result", name, 0, run_result(read, name))

AskResultAt ==
  \E name \in Names, nth \in 0 .. 1 : Asks("result at", name, nth, run_result_at(read, name, nth))

AskRuns == Asks("runs", "", 0, Runs(read))

AskLeaks == Asks("leaks", "", 0, Leaks(read, Secret))

ResultsInit ==
  /\ journal = <<>> /\ runs = <<>>
  /\ read = Null /\ damage = FALSE /\ ran = <<>>
  /\ answer = NoAnswer

Handler ==
  \/ Other
  \/ \E name \in Names, id \in Ids : StartRun(name, id)
  \/ \E k \in DOMAIN runs, raw \in {Plain, Leaky} : Complete(k, raw)

(* Bound: nothing the server does after the read matters to the test. *)
ResultsNext == (read = Null /\ Handler) \/ Read \/ AskResult \/ AskResultAt \/ AskRuns \/ AskLeaks

ResultsSpec == ResultsInit /\ [][ResultsNext]_resultsVars

-----------------------------------------------------------------------------
Answered(question) == answer.question = question /\ answer.is # Refused

RanAs(name) == {k \in DOMAIN ran : ran[k].name = name}
Nth(name, nth) == {k \in RanAs(name) : Cardinality({j \in RanAs(name) : j < k}) = nth}

(* "Matched by completion id, never proximity", and "an unfamiliar entry must *)
(* not disappear from a named-run assertion": whatever was read, an answer is *)
(* the result of the run that was asked for, absence is of a run that was     *)
(* not started or not over, every named run is listed, and no leak is missed. *)
AnswerIsTrue ==
  /\ Answered("result") =>
       /\ Cardinality(RanAs(answer.name)) <= 1
       /\ \A k \in RanAs(answer.name) : answer.is = ran[k].result
       /\ RanAs(answer.name) = {} => answer.is = Null
  /\ Answered("result at") =>
       /\ \A k \in Nth(answer.name, answer.nth) : answer.is = ran[k].result
       /\ Nth(answer.name, answer.nth) = {} => answer.is = Null
  /\ Answered("runs") /\ ~damage => answer.is = Named([k \in DOMAIN ran |-> ran[k].name])
  /\ Answered("leaks") => (answer.is <=> \E k \in DOMAIN ran : ran[k].leak)

(* A refusal is the reader's last resort: rows read as they are always decode, *)
(* in whatever order the runs completed, and are only refused an answer when a *)
(* repeated name was asked for as if it were unique.                           *)
RefusalIsReal ==
  /\ read = Refused => damage
  /\ answer.is = Refused =>
       damage \/ (answer.question = "result" /\ Cardinality(RanAs(answer.name)) > 1)
=============================================================================
