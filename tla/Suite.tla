-------------------------------- MODULE Suite --------------------------------
(***************************************************************************)
(* A suite that checks what its run journaled against its step-name table  *)
(* (crates/restate-e2e-harness: Table::new and Table::check of             *)
(* run_names.rs, Admin::handlers, all_invocations and all_journals of      *)
(* admin.rs).                                                              *)
(*                                                                         *)
(* The three reads are queries of their own, in any order, while           *)
(* invocations arrive, run, complete and are forgotten: what they answer   *)
(* need never have been true together.                                     *)
(***************************************************************************)
EXTENDS RunNames, FiniteSets

CONSTANTS
  Ids,      (* the invocations *)
  Targets,  (* the handlers *)
  Tables,   (* the tables a suite may have: sets of rows, a target and a path *)
  Programs, (* what handlers do: a target and the steps of an execution *)
  Values    (* what an execution may fill in for a parameter: any texts *)

ASSUME SuiteAssumption ==
  /\ \A table \in Tables : table \subseteq [target : Targets, path : Seq(Steps)]
  /\ Programs \subseteq [target : Targets, steps : Seq(Steps)]
  /\ Values \subseteq Seq(Symbols)

VARIABLES
  table,       (* the rows *)
  phase,       (* "new", "running", "checked", or "refused" by Table::new *)
  offered,     (* the handlers deployed *)
  program,     (* the program each invocation executes *)
  state,       (* of each invocation: "none", "queued", "running", "completed" or "gone" *)
  journal,     (* the runs retained of each invocation, None without an entry *)
  executed,    (* history: the steps behind those runs *)
  handlers,    (* Admin::handlers' answer *)
  invocations, (* Admin::all_invocations' answer: the target of each id *)
  journals,    (* Admin::all_journals' answer *)
  taken,       (* history: executed, when the journals were read *)
  violations   (* Table::check's *)

server == <<offered, program, state, journal, executed>>
reads == <<handlers, invocations, journals, taken>>
vars == <<table, phase, server, reads, violations>>

-----------------------------------------------------------------------------
(* The server *)

Deploy(t) ==
  /\ t \notin offered
  /\ offered' = offered \cup {t}
  /\ UNCHANGED <<table, phase, program, state, journal, executed, reads, violations>>

Arrive(i, p) ==
  /\ state[i] = "none" /\ p.target \in offered
  /\ program' = [program EXCEPT ![i] = p]
  /\ state' = [state EXCEPT ![i] = "queued"]
  /\ UNCHANGED <<table, phase, offered, journal, executed, reads, violations>>

(* The input is journaled: there is a journal, with no run in it. *)
Begin(i) ==
  /\ state[i] = "queued"
  /\ state' = [state EXCEPT ![i] = "running"]
  /\ journal' = [journal EXCEPT ![i] = <<>>]
  /\ UNCHANGED <<table, phase, offered, program, executed, reads, violations>>

(* A ctx.run is journaled, under its name with the parameter filled in. *)
Run(i) ==
  /\ state[i] = "running" /\ Len(executed[i]) < Len(program[i].steps)
  /\ LET step == program[i].steps[Len(executed[i]) + 1]
     IN /\ executed' = [executed EXCEPT ![i] = Append(@, step)]
        /\ \E value \in IF step.hole = Fixed THEN {<<>>} ELSE Values :
             journal' = [journal EXCEPT ![i] = Append(@, [text |-> step.text \o value])]
  /\ UNCHANGED <<table, phase, offered, program, state, reads, violations>>

(* After its last step, or early. *)
Complete(i) ==
  /\ state[i] = "running"
  /\ state' = [state EXCEPT ![i] = "completed"]
  /\ UNCHANGED <<table, phase, offered, program, journal, executed, reads, violations>>

(* The retention of the journal ends, or that of the invocation too. *)
Forget(i) ==
  /\ state[i] = "completed"
  /\ state' \in {state, [state EXCEPT ![i] = "gone"]}
  /\ journal' = [journal EXCEPT ![i] = None]
  /\ UNCHANGED <<table, phase, offered, program, executed, reads, violations>>

-----------------------------------------------------------------------------
(* The suite *)

(* Table::new, handler by handler. *)
NewTable ==
  /\ phase = "new"
  /\ phase' = IF \A t \in Targets : Accepts(PathsOf(table, t)) THEN "running" ELSE "refused"
  /\ UNCHANGED <<table, server, reads, violations>>

ReadHandlers ==
  /\ phase = "running" /\ handlers = None
  /\ handlers' = <<offered>>
  /\ UNCHANGED <<table, phase, server, invocations, journals, taken, violations>>

ReadInvocations ==
  /\ phase = "running" /\ invocations = None
  /\ LET held == {i \in Ids : state[i] \notin {"none", "gone"}}
     IN invocations' = <<[i \in held |-> program[i].target]>>
  /\ UNCHANGED <<table, phase, server, handlers, journals, taken, violations>>

ReadJournals ==
  /\ phase = "running" /\ journals = None
  /\ journals' = <<journal>>
  /\ taken' = executed
  /\ UNCHANGED <<table, phase, server, handlers, invocations, violations>>

Check ==
  /\ phase = "running" /\ None \notin {handlers, invocations, journals}
  /\ phase' = "checked"
  /\ violations' = Violations(table, handlers[1], invocations[1], journals[1])
  /\ UNCHANGED <<table, server, reads>>

-----------------------------------------------------------------------------
Init ==
  /\ table \in Tables /\ phase = "new"
  /\ offered = {}
  /\ program = [i \in Ids |-> None] /\ state = [i \in Ids |-> "none"]
  /\ journal = [i \in Ids |-> None] /\ executed = [i \in Ids |-> <<>>]
  /\ handlers = None /\ invocations = None /\ journals = None
  /\ taken = executed
  /\ violations = NoViolations

Server ==
  \/ \E t \in Targets : Deploy(t)
  \/ \E i \in Ids, p \in Programs : Arrive(i, p)
  \/ \E i \in Ids : Begin(i) \/ Run(i) \/ Complete(i) \/ Forget(i)

(* The table is made first; what happens after the check changes nothing. *)
Next == (phase = "running" /\ Server) \/ NewTable \/ ReadHandlers \/ ReadInvocations \/ ReadJournals \/ Check

Spec == Init /\ [][Next]_vars

-----------------------------------------------------------------------------
Passed == phase = "checked" /\ violations = NoViolations

(* The steps an invocation had really executed when the journals were read,  *)
(* unnamed ones aside.                                                       *)
Took(i) == Named(taken[i])

(* A step whose name cannot be mistaken: a declared one, though a parametrised *)
(* one only if its value is a text and does not make the name go on after a   *)
(* longer prefix ("release-1-A under release-{sku} and release-1-{x} reads as *)
(* the longer pattern", RunPatterns::pattern); or one like none declared.     *)
Clear(paths, step, name) ==
  IF step \in NamesOf(paths)
    THEN \/ step.hole = Fixed
         \/ /\ Matches(step, name)
            /\ \A p \in Parametrised(paths) : Matches(p, name) => Len(p.text) <= Len(step.text)
    ELSE step.hole = Fixed /\ \A p \in Parametrised(paths) : ~Matches(p, name)

Plain(i) ==
  \A k \in DOMAIN taken[i] :
    Clear(PathsOf(table, program[i].target), taken[i][k], journals[1][i][k].text)

(* A journaled name that may be that of a declared step. *)
Fits(step, name) == IF step.hole = Fixed THEN name = step.text ELSE Matches(step, name)

(* What an invocation journaled may be the first steps of a path, and it was *)
(* them unless a name can be mistaken.                                       *)
Follows(i, path) ==
  LET names == Named(journals[1][i])
  IN /\ Len(names) <= Len(path)
     /\ \A k \in DOMAIN names : Fits(path[k], names[k].text)
     /\ Plain(i) => IsPrefix(Took(i), path)

(* A passed check was earned, whatever happened between its reads: every     *)
(* invocation it counted has a journal, and had taken the first steps of a   *)
(* path of its handler; and every path was taken to its end by one of them   *)
(* ("every row is walked in full"). No lost journal stands in for that, and  *)
(* no name read for another one but the one its documentation allows.        *)
PassIsEarned ==
  Passed =>
    /\ \A i \in DOMAIN invocations[1] :
         /\ journals[1][i] # None
         /\ \E path \in PathsOf(table, program[i].target) : Follows(i, path)
    /\ \A row \in table : \E i \in DOMAIN invocations[1] :
         /\ program[i].target = row.target
         /\ Follows(i, row.path) /\ Len(Named(journals[1][i])) = Len(row.path)
         /\ Plain(i) => Took(i) = row.path

(* A failed check names what is really so: steps that no path explains, a    *)
(* path nobody took to its end (again but for names that can be mistaken), a *)
(* journal that had not begun or was lost, a handler without rows, or rows   *)
(* without a deployment that had been seen.                                  *)
FailureIsReal ==
  /\ \A i \in violations.unexplained :
       /\ journals[1][i] # None
       /\ Plain(i) => \A path \in PathsOf(table, program[i].target) : ~IsPrefix(Took(i), path)
  /\ \A row \in violations.unwalked : \A i \in DOMAIN invocations[1] :
       journals[1][i] # None /\ program[i].target = row.target /\ Plain(i) => Took(i) # row.path
  /\ \A i \in violations.missing :
       taken[i] = <<>> \/ state[i] \in {"completed", "gone"}
  /\ \A t \in violations.untabled : t \in offered /\ \A row \in table : row.target # t
  /\ \A t \in violations.undeployed :
       t \notin violations.untabled /\ t \notin handlers[1] /\ \E row \in table : row.target = t
=============================================================================
