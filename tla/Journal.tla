------------------------------- MODULE Journal -------------------------------
(***************************************************************************)
(* Reading a journal (crates/restate-e2e-harness/src/introspection.rs):    *)
(* rows of sys_journal decoded to entries, and the results of named runs   *)
(* matched by completion id. What panics in the code is Refused here.      *)
(*                                                                         *)
(* A row is what the server sent: index, version, type, name, json - its   *)
(* entry_json, Null when absent or not JSON, else the class, the run name  *)
(* and the completion id it carries - and raw, the bytes, Null unless hex. *)
(***************************************************************************)
EXTENDS Integers, SequencesExt

CONSTANTS
  Null,    (* a column or a field that is absent *)
  Refused  (* the answer of a question that panics *)

(* Run commands and their notifications; every other kind of entry is Input. *)
Supported == {"Command: Run", "Notification: Run", "Command: Input"}
RunTypes == {"Command: Run", "Notification: Run"}

(* Only the tags of entry_json are read, and must be the row's own. *)
Classified(row) == row.json # Null => row.json.class = row.type

(* JournalEntry::from_row: whether a row is evidence at all. *)
Decodes(row) ==
  /\ row.type # Null /\ row.raw # Null
  /\ row.version = 2 =>
       /\ row.type \in Supported
       /\ Classified(row)
       /\ row.type = "Command: Run" =>
            /\ row.name # Null
            /\ row.json # Null /\ row.json.name # Null => row.json.name = row.name

(* Only a run's identity is kept of entry_json, looked up where its type has it. *)
CompletionId(row) ==
  IF row.json # Null /\ row.type \in RunTypes /\ row.json.class = row.type THEN row.json.id ELSE Null

Entry(row) ==
  [index |-> row.index, version |-> row.version, type |-> row.type, name |-> row.name,
   id |-> CompletionId(row), raw |-> row.raw]

Entries(rows) ==
  IF \A k \in DOMAIN rows : Decodes(rows[k]) THEN [k \in DOMAIN rows |-> Entry(rows[k])] ELSE Refused

(* JournalEntry::is_run, which panics unless the entry can tell. *)
Tells(entry) ==
  entry.version = 2 /\ entry.type \in Supported /\ (entry.type = "Command: Run" => entry.name # Null)

IsRun(entry) == entry.type = "Command: Run"
IsResult(entry) == entry.type = "Notification: Run"

-----------------------------------------------------------------------------
(* validate_run_journal: the whole journal is held to be well formed. *)

Ordered(journal) == \A j, k \in DOMAIN journal : j < k => journal[j].index < journal[k].index

Identified(journal) == \A k \in DOMAIN journal : journal[k].type \in RunTypes => journal[k].id # Null

(* No identity is used twice, by commands or by notifications. *)
Unambiguous(journal) ==
  \A j, k \in DOMAIN journal :
    journal[j].type \in RunTypes /\ journal[j].type = journal[k].type /\ journal[j].id = journal[k].id => j = k

(* Mutant: a notification is expected right after its command. *)
OrphansNearby(journal) ==
  \A k \in DOMAIN journal :
    IsResult(journal[k]) => k > 1 /\ IsRun(journal[k - 1]) /\ journal[k - 1].id = journal[k].id

(* A notification follows its command. *)
NoOrphans(journal) ==
  \A k \in DOMAIN journal :
    IsResult(journal[k]) => \E j \in 1 .. (k - 1) : IsRun(journal[j]) /\ journal[j].id = journal[k].id

Valid(journal) ==
  /\ \A k \in DOMAIN journal : Tells(journal[k])
  /\ Ordered(journal) /\ Identified(journal) /\ Unambiguous(journal) /\ NoOrphans(journal)

-----------------------------------------------------------------------------
(* Questions to a journal of entries; an answer is an index, or Null. *)

(* Where the runs of a name are, in journal order. *)
RunsNamed(journal, name) == {k \in DOMAIN journal : IsRun(journal[k]) /\ journal[k].name = name}

(* Mutant: the result is the next notification. *)
NearestResult(journal, k) ==
  LET after == {j \in DOMAIN journal : j > k /\ IsResult(journal[j])}
  IN IF after = {} THEN Null ELSE journal[CHOOSE j \in after : \A i \in after : j <= i].index

(* result_for_command: by completion id, never by nearness. *)
ResultFor(journal, k) ==
  LET own == {j \in DOMAIN journal : IsResult(journal[j]) /\ journal[j].id = journal[k].id}
  IN IF own = {} THEN Null ELSE journal[CHOOSE j \in own : \A i \in own : j <= i].index

run_result(journal, name) ==
  LET runs == RunsNamed(journal, name)
  IN IF ~Valid(journal) \/ Cardinality(runs) > 1 THEN Refused
     ELSE IF runs = {} THEN Null
     ELSE ResultFor(journal, CHOOSE k \in runs : TRUE)

(* The occurrences of a name are counted from zero. *)
run_result_at(journal, name, occurrence) ==
  LET runs == RunsNamed(journal, name)
      nth == {k \in runs : Cardinality({j \in runs : j < k}) = occurrence}
  IN IF ~Valid(journal) THEN Refused
     ELSE IF nth = {} THEN Null
     ELSE ResultFor(journal, CHOOSE k \in nth : TRUE)

(* JournalEntry::named_run_name, "" when there is none. *)
named_run_name(entry) == IF IsRun(entry) THEN entry.name ELSE ""

(* Admin::runs: the names there are, in order. *)
Keep(names, name) == IF name = "" THEN names ELSE Append(names, name)
Named(names) == FoldLeft(Keep, <<>>, names)

Runs(journal) ==
  IF \A k \in DOMAIN journal : Tells(journal[k])
  THEN Named([k \in DOMAIN journal |-> named_run_name(journal[k])]) ELSE Refused

(* Whether the needle's bytes are in the entry's; the empty needle always is. *)
raw_contains(entry, needle) ==
  \E k \in 0 .. (Len(entry.raw) - Len(needle)) : SubSeq(entry.raw, k + 1, k + Len(needle)) = needle

(* A leak check scans every row. *)
Leaks(journal, needle) == \E k \in DOMAIN journal : raw_contains(journal[k], needle)
=============================================================================
