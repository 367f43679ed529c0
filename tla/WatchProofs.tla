----------------------------- MODULE WatchProofs -----------------------------
(***************************************************************************)
(* Proofs about module Watch, for any finite selection, any failures and   *)
(* commands, and any bounds: what a watch reports was there, and an idle   *)
(* selection is one that had been in flight.                               *)
(*                                                                         *)
(* A sample is a fold over the rows of an answer, of any length. What it   *)
(* preserves is proved by induction, over sets of numbers: a set that      *)
(* holds zero and each successor of its members is all of Nat.             *)
(***************************************************************************)
EXTENDS Watch, FiniteSetTheorems, WellFoundedInduction, TLAPS

(* Induction, of a set in place of a predicate: there is no least exception. *)
LEMMA SetInduction ==
  ASSUME NEW S, 0 \in S, \A n \in Nat : n \in S => n + 1 \in S
  PROVE  Nat \subseteq S
<1> DEFINE T == Nat \ S
<1> SUFFICES ASSUME T # {} PROVE FALSE
  OBVIOUS
<1>1. \A x, y \in Nat : x < y => <<x, y>> \in OpToRel(<, Nat)
  BY DEF OpToRel
<1>2. \E x \in T : \A y \in T : ~(<<y, x>> \in OpToRel(<, Nat))
  <2>1. T \subseteq Nat
    OBVIOUS
  <2> HIDE DEF T
  <2> QED BY <2>1, NatLessThanWellFounded, WFMin
<1>3. PICK x \in T : \A y \in T : ~(y < x)
  BY <1>1, <1>2
<1>4. x - 1 \in T /\ x - 1 < x
  BY <1>3
<1> QED BY <1>3, <1>4
-----------------------------------------------------------------------------
(* The fold of a sample: iter is the state after the rows at s, in order.  *)
Unrolls(iter, n, r, rows) ==
  iter = [s \in SUBSET (1 .. n) |->
            IF s = {} THEN r ELSE ObserveRow(iter[s \ {Max(s)}], rows[Max(s)])]

(* Before the first row, there is none. *)
LEMMA NoRows == \A s \in SUBSET (1 .. 0) : s = {}
  OBVIOUS

(* The largest member of a set is the last row it reaches. *)
LEMMA MaxIsLast ==
  ASSUME NEW n \in Nat, NEW s \in SUBSET (1 .. (n + 1)), n + 1 \in s
  PROVE  Max(s) = n + 1
<1>1. \E x \in s : \A y \in s : x >= y
  OBVIOUS
<1>2. Max(s) \in s /\ \A y \in s : Max(s) >= y
  BY <1>1 DEF Max
<1>3. Max(s) \in 1 .. (n + 1) /\ Max(s) >= n + 1
  BY <1>2
<1> QED BY <1>3

(* What such a function is, at each set. *)
LEMMA UnrollsAt ==
  ASSUME NEW n \in Nat, NEW iter, NEW r, NEW rows, Unrolls(iter, n, r, rows)
  PROVE  \A s \in SUBSET (1 .. n) :
           /\ s = {} => iter[s] = r
           /\ s # {} => iter[s] = ObserveRow(iter[s \ {Max(s)}], rows[Max(s)])
<1> DEFINE step(t) == IF t = {} THEN r ELSE ObserveRow(iter[t \ {Max(t)}], rows[Max(t)])
<1>1. iter = [t \in SUBSET (1 .. n) |-> step(t)]
  BY DEF Unrolls
<1> HIDE DEF step
<1>2. \A s \in SUBSET (1 .. n) : iter[s] = step(s)
  BY <1>1
<1> QED BY <1>2 DEF step

(* There is such a function, for rows of any number. *)
LEMMA FoldExists ==
  ASSUME NEW r, NEW rows
  PROVE  \A n \in Nat : \E iter : Unrolls(iter, n, r, rows)
<1> DEFINE S == {n \in Nat : \E iter : Unrolls(iter, n, r, rows)}
<1>1. 0 \in S
  <2> DEFINE iter == [s \in SUBSET (1 .. 0) |-> r]
  <2>1. \A s \in SUBSET (1 .. 0) : s = {}
    BY NoRows
  <2>2. Unrolls(iter, 0, r, rows)
    BY <2>1 DEF Unrolls
  <2> QED BY <2>2
<1>2. ASSUME NEW n \in Nat, n \in S PROVE n + 1 \in S
  <2>1. PICK iter : Unrolls(iter, n, r, rows)
    BY <1>2
  <2> DEFINE longer == [s \in SUBSET (1 .. (n + 1)) |->
                          IF n + 1 \in s THEN ObserveRow(iter[s \ {n + 1}], rows[n + 1]) ELSE iter[s]]
  <2>0. \A t \in SUBSET (1 .. n) : /\ t = {} => iter[t] = r
                                   /\ t # {} => iter[t] = ObserveRow(iter[t \ {Max(t)}], rows[Max(t)])
    BY <2>1, UnrollsAt
  <2>2. ASSUME NEW s \in SUBSET (1 .. (n + 1)), n + 1 \in s
        PROVE  longer[s] = ObserveRow(longer[s \ {Max(s)}], rows[Max(s)]) /\ s # {}
    <3>1. Max(s) = n + 1
      BY <2>2, MaxIsLast
    <3>2. longer[s \ {n + 1}] = iter[s \ {n + 1}]
      OBVIOUS
    <3> QED BY <2>2, <3>1, <3>2
  <2>3. ASSUME NEW s \in SUBSET (1 .. (n + 1)), n + 1 \notin s
        PROVE  longer[s] = IF s = {} THEN r ELSE ObserveRow(longer[s \ {Max(s)}], rows[Max(s)])
    <3>1. s \in SUBSET (1 .. n)
      <4>1. \A x \in s : x \in 1 .. (n + 1) /\ x # n + 1
        BY <2>3
      <4>2. \A x \in s : x \in 1 .. n
        BY <4>1
      <4> QED BY <4>2
    <3>0. s \ {Max(s)} \in SUBSET (1 .. n) /\ n + 1 \notin s \ {Max(s)}
      BY <2>3, <3>1
    <3>2. longer[s] = iter[s] /\ longer[s \ {Max(s)}] = iter[s \ {Max(s)}]
      <4>1. s \ {Max(s)} \in SUBSET (1 .. (n + 1))
        OBVIOUS
      <4> QED BY <2>3, <3>0, <4>1
    <3>3. /\ s = {} => iter[s] = r
          /\ s # {} => iter[s] = ObserveRow(iter[s \ {Max(s)}], rows[Max(s)])
      <4> HIDE DEF longer, S
      <4> QED BY <2>0, <3>1
    <3> QED BY <3>2, <3>3
  <2>4. Unrolls(longer, n + 1, r, rows)
    <3>1. \A s \in SUBSET (1 .. (n + 1)) :
            longer[s] = IF s = {} THEN r ELSE ObserveRow(longer[s \ {Max(s)}], rows[Max(s)])
      BY <2>2, <2>3
    <3> DEFINE same == [s \in SUBSET (1 .. (n + 1)) |->
                          IF s = {} THEN r ELSE ObserveRow(longer[s \ {Max(s)}], rows[Max(s)])]
    <3>2. longer = [s \in SUBSET (1 .. (n + 1)) |-> longer[s]]
      OBVIOUS
    <3> HIDE DEF longer
    <3>3. longer = same
      BY <3>1, <3>2
    <3> QED BY <3>3 DEF Unrolls
  <2> HIDE DEF longer
  <2> QED BY <2>4
<1> HIDE DEF S
<1>3. Nat \subseteq S
  BY <1>1, <1>2, SetInduction
<1> QED BY <1>3 DEF S

(* FoldLeft is one, after the last row. *)
LEMMA FoldUnrolls ==
  ASSUME NEW r, NEW rows, NEW n \in Nat, DOMAIN rows = 1 .. n
  PROVE  \E iter : Unrolls(iter, n, r, rows) /\ FoldLeft(ObserveRow, r, rows) = iter[1 .. n]
<1> DEFINE iter == CHOOSE f : Unrolls(f, n, r, rows)
<1>1. \E f : Unrolls(f, n, r, rows)
  BY FoldExists
<1>2. Unrolls(iter, n, r, rows)
  BY <1>1
<1>3. FoldLeft(ObserveRow, r, rows) = iter[1 .. n]
  BY DEF FoldLeft, MapThenFoldSet, Unrolls
<1> HIDE DEF iter
<1> QED BY <1>2, <1>3

(* A fold stays in a set that no row leads out of. *)
LEMMA FoldStays ==
  ASSUME NEW T, NEW r \in T, NEW n \in Nat, NEW rows, DOMAIN rows = 1 .. n
  PROVE  (\A x \in T, k \in 1 .. n : ObserveRow(x, rows[k]) \in T) =>
            FoldLeft(ObserveRow, r, rows) \in T
<1>1. PICK iter : Unrolls(iter, n, r, rows) /\ FoldLeft(ObserveRow, r, rows) = iter[1 .. n]
  BY FoldUnrolls
<1>2. \A s \in SUBSET (1 .. n) :
        /\ s = {} => iter[s] = r
        /\ s # {} => iter[s] = ObserveRow(iter[s \ {Max(s)}], rows[Max(s)])
  BY <1>1, UnrollsAt
<1> SUFFICES ASSUME \A x \in T, k \in 1 .. n : ObserveRow(x, rows[k]) \in T
             PROVE  FoldLeft(ObserveRow, r, rows) \in T
  OBVIOUS
<1> DEFINE S == {m \in Nat : m <= n => \A s \in SUBSET (1 .. m) : iter[s] \in T}
<1>3. 0 \in S
  <2>1. {} \in SUBSET (1 .. n)
    OBVIOUS
  <2>2. iter[{}] = r
    BY <1>2, <2>1
  <2> QED BY <2>2, NoRows
<1>4. ASSUME NEW m \in Nat, m \in S PROVE m + 1 \in S
  <2> SUFFICES ASSUME m + 1 <= n, NEW s \in SUBSET (1 .. (m + 1)) PROVE iter[s] \in T
    OBVIOUS
  <2>1. \A t \in SUBSET (1 .. m) : iter[t] \in T
    BY <1>4
  <2>2. CASE m + 1 \in s
    <3>1. Max(s) = m + 1
      BY <2>2, MaxIsLast
    <3>2. s \in SUBSET (1 .. n)
      <4>1. \A x \in s : x \in 1 .. (m + 1)
        OBVIOUS
      <4>2. \A x \in s : x \in 1 .. n
        BY <4>1
      <4> QED BY <4>2
    <3>3. s \ {m + 1} \in SUBSET (1 .. m)
      <4>1. \A x \in s \ {m + 1} : x \in 1 .. (m + 1) /\ x # m + 1
        OBVIOUS
      <4>2. \A x \in s \ {m + 1} : x \in 1 .. m
        BY <4>1
      <4> QED BY <4>2
    <3>4. iter[s] = ObserveRow(iter[s \ {m + 1}], rows[m + 1])
      BY <1>2, <2>2, <3>1, <3>2
    <3> QED BY <2>1, <3>3, <3>4
  <2>3. CASE m + 1 \notin s
    <3>1. \A x \in s : x \in 1 .. (m + 1) /\ x # m + 1
      BY <2>3
    <3>2. \A x \in s : x \in 1 .. m
      BY <3>1
    <3>3. s \in SUBSET (1 .. m)
      BY <3>2
    <3> QED BY <2>1, <3>3
  <2> QED BY <2>2, <2>3
<1> HIDE DEF S
<1>5. n \in S
  BY <1>3, <1>4, SetInduction
<1>6. 1 .. n \in SUBSET (1 .. n)
  OBVIOUS
<1> QED BY <1>1, <1>5, <1>6 DEF S
-----------------------------------------------------------------------------
(* What is known of a row, of a sample and of what was reported.            *)

RowType ==
  [status : {"absent", "ready", "running", "backing-off", "completed", "purged", Malformed, Failed},
   retry_count : Nat \cup {None},
   last_failure : Failures \cup {None},
   command : Commands \cup {None}]

RetriesType ==
  [max_retry_count : Nat, failures : Seq(Failures), failing_commands : Seq(Commands),
   samples : Nat, observed_idle : BOOLEAN, query_errors : Nat]

(* What the row shows has been shown. *)
Evidenced(row) == {row.retry_count, row.last_failure, row.command} \ {None} \subseteq shown

Sound(r) ==
  /\ r \in RetriesType
  /\ IsInjective(r.failures) /\ IsInjective(r.failing_commands)
  /\ r.max_retry_count \in shown \cup {0}
  /\ ToSet(r.failures) \subseteq shown /\ ToSet(r.failing_commands) \subseteq shown

(* A value is noted at most once. *)
LEMMA NotedSound ==
  ASSUME NEW T, NEW seq \in Seq(T), IsInjective(seq), ToSet(seq) \subseteq shown,
         NEW value \in T \cup {None}, value = None \/ value \in shown
  PROVE  /\ Noted(seq, value) \in Seq(T)
         /\ IsInjective(Noted(seq, value)) /\ ToSet(Noted(seq, value)) \subseteq shown
<1>1. CASE value = None \/ Contains(seq, value)
  BY <1>1 DEF Noted
<1>2. CASE value # None /\ ~Contains(seq, value)
  <2> DEFINE n == Len(seq)
  <2>1. Noted(seq, value) = Append(seq, value) /\ value \in T /\ value \in shown /\ n \in Nat
    BY <1>2 DEF Noted
  <2>2. \A k \in 1 .. n : seq[k] # value /\ seq[k] \in shown
    BY <1>2 DEF Contains, ToSet
  <2>3. /\ Append(seq, value) \in Seq(T) /\ DOMAIN Append(seq, value) = 1 .. (n + 1)
        /\ Append(seq, value)[n + 1] = value
        /\ \A k \in 1 .. n : Append(seq, value)[k] = seq[k]
    BY <2>1
  <2>4. \A j, k \in 1 .. n : seq[j] = seq[k] => j = k
    BY DEF IsInjective
  <2> QED BY <2>1, <2>2, <2>3, <2>4 DEF IsInjective, ToSet
<1> QED BY <1>1, <1>2

(* A row that was shown keeps what is reported sound. *)
LEMMA RowSound ==
  ASSUME NEW r, Sound(r), NEW row \in RowType, Evidenced(row)
  PROVE  Sound(ObserveRow(r, row))
<1> DEFINE count == IF row.retry_count # None /\ row.retry_count > r.max_retry_count
                    THEN row.retry_count ELSE r.max_retry_count
<1>1. r \in RetriesType /\ count \in Nat /\ count \in shown \cup {0}
  BY DEF Sound, RetriesType, RowType, Evidenced
<1>2. /\ Noted(r.failures, row.last_failure) \in Seq(Failures)
      /\ IsInjective(Noted(r.failures, row.last_failure))
      /\ ToSet(Noted(r.failures, row.last_failure)) \subseteq shown
  <2>1. r.failures \in Seq(Failures) /\ row.last_failure \in Failures \cup {None}
        /\ (row.last_failure = None \/ row.last_failure \in shown)
    BY <1>1 DEF RetriesType, RowType, Evidenced
  <2> QED BY <2>1, NotedSound DEF Sound
<1>3. /\ Noted(r.failing_commands, row.command) \in Seq(Commands)
      /\ IsInjective(Noted(r.failing_commands, row.command))
      /\ ToSet(Noted(r.failing_commands, row.command)) \subseteq shown
  <2>1. r.failing_commands \in Seq(Commands) /\ row.command \in Commands \cup {None}
        /\ (row.command = None \/ row.command \in shown)
    BY <1>1 DEF RetriesType, RowType, Evidenced
  <2> QED BY <2>1, NotedSound DEF Sound
<1> DEFINE fs == Noted(r.failures, row.last_failure)
           cs == Noted(r.failing_commands, row.command)
<1>4. ObserveRow(r, row) = [r EXCEPT !.max_retry_count = count, !.failures = fs, !.failing_commands = cs]
  BY <1>1 DEF ObserveRow, RetriesType
<1> HIDE DEF count, fs, cs
<1>5. /\ ObserveRow(r, row) \in RetriesType
      /\ ObserveRow(r, row).max_retry_count = count
      /\ ObserveRow(r, row).failures = fs /\ ObserveRow(r, row).failing_commands = cs
  <2>1. fs \in Seq(Failures) /\ cs \in Seq(Commands) /\ count \in Nat
    BY <1>1, <1>2, <1>3 DEF fs, cs
  <2> QED BY <1>1, <1>4, <2>1 DEF RetriesType
<1> QED BY <1>1, <1>2, <1>3, <1>5 DEF Sound, fs, cs

(* A sample of any number of rows is sound if each of its rows is. *)
LEMMA FoldSound ==
  ASSUME NEW r, Sound(r), NEW rows \in Seq(RowType), \A k \in DOMAIN rows : Evidenced(rows[k])
  PROVE  Sound(FoldLeft(ObserveRow, r, rows))
<1> DEFINE T == {x \in RetriesType : Sound(x)}
           n == Len(rows)
<1>1. r \in T
  BY DEF Sound
<1>2. n \in Nat /\ DOMAIN rows = 1 .. n
  OBVIOUS
<1>3. \A x \in T, k \in 1 .. n : ObserveRow(x, rows[k]) \in T
  <2> SUFFICES ASSUME NEW x \in T, NEW k \in 1 .. n PROVE Sound(ObserveRow(x, rows[k]))
    BY DEF Sound
  <2>1. rows[k] \in RowType /\ Evidenced(rows[k])
    OBVIOUS
  <2> QED BY <2>1, RowSound
<1> HIDE DEF T, n
<1>4. FoldLeft(ObserveRow, r, rows) \in T
  BY <1>1, <1>2, <1>3, FoldStays
<1> QED BY <1>4 DEF T
-----------------------------------------------------------------------------
(* The invariant.                                                           *)

TypeOK ==
  /\ inv \in [Invocations -> RowType]
  /\ task \in {"asking", "sleeping", "done"}
  /\ answer = None \/ answer \in Seq(RowType)
  /\ busy \in BOOLEAN /\ idled \in BOOLEAN /\ seen_in_flight \in BOOLEAN

(* An invocation that has started was started some number of times. *)
Counted == \A i \in Invocations : inv[i].status \in {"running", "backing-off"} => inv[i].retry_count # None

(* Rows, and the answers read from them, show what has been shown. *)
Shown ==
  /\ \A i \in Invocations : Evidenced(inv[i])
  /\ answer # None => \A k \in DOMAIN answer : Evidenced(answer[k])

Quiet(rows) == \A k \in DOMAIN rows : ~InFlight(rows[k])

(* What the sampler has in hand of the selection really was so: in flight  *)
(* once, or idle after that.                                               *)
Witnessed ==
  /\ (\E i \in Invocations : InFlight(inv[i])) => busy
  /\ busy /\ Idle => idled
  /\ seen_in_flight => busy
  /\ answer # None /\ ~Undecodable(answer) =>
       /\ ~Quiet(answer) => busy
       /\ Quiet(answer) /\ seen_in_flight => idled

(* Idleness is the last thing a sampler observes. *)
IdleIsLast == retries.observed_idle => idled /\ task = "done"

WatchInv == TypeOK /\ Counted /\ Shown /\ Witnessed /\ Sound(retries) /\ IdleIsLast

(* A watch begins with nothing observed, of a selection that is idle. *)
LEMMA WatchInit == Init => WatchInv
<1> SUFFICES ASSUME Init PROVE WatchInv
  OBVIOUS
<1>1. /\ NoColumns("absent") \in RowType /\ NoColumns("completed") \in RowType
      /\ Evidenced(NoColumns("absent")) /\ Evidenced(NoColumns("completed"))
      /\ ~InFlight(NoColumns("absent")) /\ ~InFlight(NoColumns("completed"))
      /\ NoColumns("absent").status = "absent" /\ NoColumns("completed").status = "completed"
  BY DEF NoColumns, Row, RowType, Evidenced, InFlight, NoRow
<1>2. \A i \in Invocations : inv[i] \in {NoColumns("absent"), NoColumns("completed")}
  BY DEF Init
<1>3. TypeOK
  BY <1>1, <1>2 DEF Init, TypeOK
<1>4. Counted /\ Shown
  BY <1>1, <1>2 DEF Init, Counted, Shown
<1>5. Witnessed
  BY <1>1, <1>2 DEF Init, Witnessed
<1>6. Sound(retries) /\ IdleIsLast
  BY DEF Init, Sound, RetriesType, IdleIsLast, IsInjective, ToSet
<1> QED BY <1>3, <1>4, <1>5, <1>6 DEF WatchInv

(* A row that changes has shown its columns, and whether it was in flight. *)
LEMMA BecomesKeeps ==
  ASSUME WatchInv, NEW i \in Invocations,
         NEW status \in {"ready", "running", "backing-off", "completed", "purged"},
         NEW count \in Nat \cup {None}, NEW failure \in Failures \cup {None},
         NEW command \in Commands \cup {None},
         status \in {"running", "backing-off"} => count # None,
         Becomes(i, status, count, failure, command)
  PROVE  WatchInv'
<1> DEFINE row == Row(status, count, failure, command)
<1>0. /\ inv \in [Invocations -> RowType] /\ inv' = [inv EXCEPT ![i] = row]
      /\ shown' = shown \cup ({count, failure, command} \ {None})
      /\ busy' = (busy \/ \E j \in Invocations : InFlight(inv'[j]))
      /\ idled' = (idled \/ (busy' /\ \A j \in Invocations : ~InFlight(inv'[j])))
      /\ UNCHANGED <<task, answer, retries, seen_in_flight>>
      /\ TypeOK /\ Counted /\ Shown /\ Witnessed /\ Sound(retries) /\ IdleIsLast
  BY DEF Becomes, WatchInv, TypeOK, sampler
<1>1. /\ row \in RowType /\ row.status = status /\ row.retry_count = count
      /\ row.last_failure = failure /\ row.command = command
  BY DEF Row, RowType
<1> HIDE DEF row
<1>2. /\ inv' \in [Invocations -> RowType] /\ inv'[i] = row
      /\ \A j \in Invocations : j # i => inv'[j] = inv[j]
  BY <1>0, <1>1
<1>3. TypeOK'
  BY <1>0, <1>2 DEF TypeOK
<1>4. Counted'
  BY <1>0, <1>1, <1>2 DEF Counted
<1>5. Shown'
  BY <1>0, <1>1, <1>2 DEF Shown, Evidenced
<1>6. Witnessed'
  <2>1. busy => busy'
    BY <1>0
  <2>2. idled => idled'
    BY <1>0
  <2>3. busy' /\ (\A j \in Invocations : ~InFlight(inv'[j])) => idled'
    BY <1>0
  <2>4. (\E j \in Invocations : InFlight(inv'[j])) => busy'
    BY <1>0
  <2> QED BY <1>0, <2>1, <2>2, <2>3, <2>4 DEF Witnessed, Undecodable, Quiet, Idle, InFlight
<1>7. Sound(retries)'
  BY <1>0 DEF Sound, RetriesType
<1>8. IdleIsLast'
  BY <1>0 DEF IdleIsLast
<1> QED BY <1>3, <1>4, <1>5, <1>6, <1>7, <1>8 DEF WatchInv

(* Whatever happens to an invocation. *)
LEMMA ServerKeeps ==
  ASSUME WatchInv, Server
  PROVE  WatchInv'
<1>1. PICK i \in Invocations :
        \/ Arrive(i) \/ Execute(i) \/ Yield(i) \/ Complete(i) \/ Purge(i)
        \/ \E failure \in Failures, command \in Commands \cup {None} : BackOff(i, failure, command)
  BY DEF Server
<1>2. /\ inv[i].retry_count \in Nat \cup {None}
      /\ inv[i].last_failure \in Failures \cup {None} /\ inv[i].command \in Commands \cup {None}
      /\ inv[i].status \in {"running", "backing-off"} => inv[i].retry_count # None
      /\ 1 # None
  <2>1. inv[i] \in RowType
    BY DEF WatchInv, TypeOK
  <2> QED BY <2>1, WatchAssumption DEF WatchInv, Counted, RowType
<1>3. CASE Arrive(i)
  BY <1>3, BecomesKeeps DEF Arrive
<1>4. CASE Execute(i)
  <2>1. CASE inv[i].status = "ready" /\ Becomes(i, "running", 1, None, None)
    BY <1>2, <2>1, BecomesKeeps
  <2>2. CASE /\ inv[i].status = "backing-off"
             /\ Becomes(i, "running", inv[i].retry_count + 1, inv[i].last_failure, inv[i].command)
    <3>1. inv[i].retry_count + 1 \in Nat /\ inv[i].retry_count + 1 # None
      BY <1>2, <2>2, WatchAssumption
    <3> QED BY <1>2, <2>2, <3>1, BecomesKeeps
  <2> QED BY <1>4, <2>1, <2>2 DEF Execute
<1>5. CASE Yield(i)
  BY <1>5, BecomesKeeps DEF Yield
<1>6. CASE Complete(i)
  BY <1>6, BecomesKeeps DEF Complete
<1>7. CASE Purge(i)
  BY <1>7, BecomesKeeps DEF Purge
<1>8. ASSUME NEW failure \in Failures, NEW command \in Commands \cup {None}, BackOff(i, failure, command)
      PROVE  WatchInv'
  BY <1>2, <1>8, BecomesKeeps DEF BackOff
<1> QED BY <1>1, <1>3, <1>4, <1>5, <1>6, <1>7, <1>8

(* An answer that arrives is of the table as it is. *)
LEMMA AnswersKeep ==
  ASSUME WatchInv, Answers
  PROVE  WatchInv'
<1> DEFINE n == Cardinality(Rows)
<1>0. /\ UNCHANGED <<inv, shown, busy, idled, task, retries, seen_in_flight>>
      /\ TypeOK /\ Counted /\ Shown /\ Witnessed /\ Sound(retries) /\ IdleIsLast
  BY DEF Answers, Answer, AnswerMalformed, AnswerFails, WatchInv, server, sampler
<1>1. IsFiniteSet(Rows) /\ n \in Nat
  <2>1. Rows \subseteq Invocations
    BY DEF Rows
  <2> QED BY <2>1, WatchAssumption, FS_Subset, FS_CardinalityType
<1>2. \A order \in SetToSeqs(Rows) :
        /\ \A k \in 1 .. n : order[k] \in Rows /\ order[k] \in Invocations
        /\ \A i \in Rows : \E k \in 1 .. n : order[k] = i
  <2> SUFFICES ASSUME NEW order \in SetToSeqs(Rows)
               PROVE  /\ \A k \in 1 .. n : order[k] \in Rows /\ order[k] \in Invocations
                      /\ \A i \in Rows : \E k \in 1 .. n : order[k] = i
    OBVIOUS
  <2>1. order \in Injection(1 .. n, Rows)
    BY DEF SetToSeqs, Injection, IsInjective
  <2>2. Cardinality(1 .. n) = n
    BY <1>1, FS_Interval
  <2>3. order \in Surjection(1 .. n, Rows)
    BY <1>1, <2>1, <2>2, FS_Injection
  <2> QED BY <2>1, <2>3 DEF Injection, Surjection, Rows
<1>3. \A i \in Invocations : inv[i] \in RowType /\ Evidenced(inv[i])
  BY <1>0 DEF TypeOK, Shown
<1>4. \A status \in {Malformed, Failed} :
        NoColumns(status) \in RowType /\ Evidenced(NoColumns(status)) /\ NoColumns(status).status = status
  BY DEF NoColumns, Row, RowType, Evidenced
<1>5. SUFFICES /\ answer' \in Seq(RowType) /\ \A k \in DOMAIN answer' : Evidenced(answer'[k])
               /\ ~Undecodable(answer') =>
                    /\ ~Quiet(answer') => busy
                    /\ Quiet(answer') /\ seen_in_flight => idled
  <2>1. TypeOK' /\ Counted' /\ Sound(retries)' /\ IdleIsLast'
    BY <1>0, <1>5 DEF TypeOK, Counted, Sound, RetriesType, IdleIsLast
  <2>2. Shown'
    BY <1>0, <1>5 DEF Shown, Evidenced
  <2>3. Witnessed'
    BY <1>0, <1>5 DEF Witnessed, Idle, InFlight, Undecodable, Quiet
  <2> QED BY <2>1, <2>2, <2>3 DEF WatchInv
<1>6. CASE Answer
  <2>1. PICK order \in SetToSeqs(Rows) : answer' = [k \in 1 .. n |-> inv[order[k]]]
    BY <1>6 DEF Answer
  <2>2. /\ \A k \in 1 .. n : answer'[k] = inv[order[k]] /\ order[k] \in Invocations
        /\ DOMAIN answer' = 1 .. n /\ answer' \in Seq(RowType)
    <3> HIDE DEF n
    <3> QED BY <1>1, <1>2, <1>3, <2>1
  <2>3. ~Quiet(answer') => busy
    BY <1>0, <2>2 DEF Quiet, Witnessed
  <2>4. Quiet(answer') => Idle
    <3> SUFFICES ASSUME Quiet(answer'), NEW i \in Invocations PROVE ~InFlight(inv[i])
      BY DEF Idle
    <3>1. CASE i \in Rows
      BY <1>2, <2>2, <3>1 DEF Quiet
    <3>2. CASE i \notin Rows
      BY <3>2 DEF Rows, InFlight, NoRow
    <3> QED BY <3>1, <3>2
  <2> QED BY <1>0, <1>3, <2>2, <2>3, <2>4 DEF Witnessed
<1>7. CASE AnswerMalformed
  <2>1. PICK order \in SetToSeqs(Rows), bad \in Rows :
          answer' = [k \in 1 .. n |-> IF order[k] = bad THEN NoColumns(Malformed) ELSE inv[order[k]]]
    BY <1>7 DEF AnswerMalformed
  <2>2. /\ \A k \in 1 .. n : answer'[k] = IF order[k] = bad THEN NoColumns(Malformed) ELSE inv[order[k]]
        /\ \A k \in 1 .. n : order[k] \in Invocations
        /\ DOMAIN answer' = 1 .. n /\ answer' \in Seq(RowType)
    <3> HIDE DEF n
    <3> QED BY <1>1, <1>2, <1>3, <1>4, <2>1
  <2>3. Undecodable(answer')
    <3>1. PICK k \in 1 .. n : order[k] = bad
      BY <1>2
    <3> QED BY <1>4, <2>2, <3>1 DEF Undecodable
  <2> QED BY <1>3, <1>4, <2>2, <2>3
<1>8. CASE AnswerFails
  <2>1. answer' = <<NoColumns(Failed)>>
    BY <1>8 DEF AnswerFails
  <2>2. answer' \in Seq(RowType) /\ DOMAIN answer' = 1 .. 1 /\ answer'[1] = NoColumns(Failed)
    BY <1>4, <2>1
  <2>3. Undecodable(answer') /\ \A k \in DOMAIN answer' : Evidenced(answer'[k])
    BY <1>4, <2>2 DEF Undecodable
  <2> QED BY <2>2, <2>3
<1> QED BY <1>6, <1>7, <1>8 DEF Answers

(* A sample is folded into what was observed, or is an error. *)
LEMMA ObserveKeeps ==
  ASSUME WatchInv, Observe
  PROVE  WatchInv'
<1> DEFINE seen == Observed(answer, retries)
           over == Done(answer)
<1>0. /\ TypeOK /\ Counted /\ Shown /\ Witnessed /\ Sound(retries) /\ IdleIsLast
      /\ answer # None /\ answer \in Seq(RowType) /\ task = "asking" /\ answer' = None
      /\ UNCHANGED <<inv, shown, busy, idled>>
      /\ retries' = [seen EXCEPT !.observed_idle = over]
      /\ task' = IF over THEN "done" ELSE "sleeping"
      /\ seen_in_flight' = (seen_in_flight \/ (~Undecodable(answer) /\ ~Quiet(answer)))
  BY DEF WatchInv, TypeOK, Observe, server, Quiet
<1>1. Sound(seen)
  <2>1. CASE Undecodable(answer)
    <3>1. retries.query_errors \in Nat /\ Capped(retries.query_errors) \in Nat
      BY <1>0, WatchAssumption DEF Sound, RetriesType, Capped
    <3> QED BY <1>0, <2>1, <3>1 DEF Observed, Errored, Sound, RetriesType
  <2>2. CASE ~Undecodable(answer)
    <3> DEFINE folded == FoldLeft(ObserveRow, retries, answer)
    <3>1. Sound(folded)
      BY <1>0, FoldSound DEF Shown
    <3>2. seen = [folded EXCEPT !.samples = Capped(@)]
      BY <2>2 DEF Observed
    <3> HIDE DEF folded, seen
    <3>3. folded.samples \in Nat /\ Capped(folded.samples) \in Nat
      BY <3>1, WatchAssumption DEF Sound, RetriesType, Capped
    <3> QED BY <3>1, <3>2, <3>3 DEF Sound, RetriesType
  <2> QED BY <2>1, <2>2
<1>2. over => ~Undecodable(answer) /\ Quiet(answer) /\ seen_in_flight
  BY DEF Done, Quiet
<1>3. over \in BOOLEAN
  BY <1>0 DEF Done, TypeOK
<1> HIDE DEF seen, over
<1>4. Sound(retries') /\ retries'.observed_idle = over
  BY <1>0, <1>1, <1>3 DEF Sound, RetriesType
<1>5. Sound(retries)'
  BY <1>0, <1>4 DEF Sound, RetriesType
<1>6. IdleIsLast'
  BY <1>0, <1>2, <1>4 DEF IdleIsLast, Witnessed
<1>7. TypeOK' /\ Counted' /\ Shown'
  BY <1>0, <1>3 DEF TypeOK, Counted, Shown, Evidenced
<1>8. Witnessed'
  BY <1>0 DEF Witnessed, Idle, InFlight
<1> QED BY <1>5, <1>6, <1>7, <1>8 DEF WatchInv

(* Every step keeps the invariant. *)
LEMMA WatchNext == WatchInv /\ [Next]_vars => WatchInv'
<1> SUFFICES ASSUME WatchInv, [Next]_vars PROVE WatchInv'
  OBVIOUS
<1>1. CASE SampleAgain \/ Stop \/ Finish \/ Finished \/ DropWatch \/ UNCHANGED vars
  <2>1. /\ UNCHANGED <<inv, shown, busy, idled, retries, seen_in_flight>>
        /\ answer' = answer \/ answer' = None
        /\ task' \in {"asking", "sleeping", "done"} /\ (task = "done" => task' = "done")
    BY <1>1 DEF SampleAgain, Stop, Finish, Finished, DropWatch, vars, server, sampler, WatchInv, TypeOK
  <2>2. TypeOK' /\ Counted' /\ Shown' /\ Sound(retries)' /\ IdleIsLast'
    BY <2>1 DEF WatchInv, TypeOK, Counted, Shown, Evidenced, Sound, RetriesType, IdleIsLast
  <2>3. Witnessed'
    BY <2>1 DEF WatchInv, Witnessed, Idle, InFlight, Undecodable, Quiet
  <2> QED BY <2>2, <2>3 DEF WatchInv
<1> QED BY <1>1, ServerKeeps, AnswersKeep, ObserveKeeps DEF Next, Sample

(* The inductive invariant of a watch. *)
THEOREM WatchInvariant == Spec => []WatchInv
  BY WatchInit, WatchNext, PTL DEF Spec

(* Whatever the server showed and in whatever order: each count, failure   *)
(* and command that is reported was shown, and each is reported once.      *)
THEOREM ReportsWhatWasShown == Spec => []ObservationsSound
<1>1. WatchInv => ObservationsSound
  BY DEF WatchInv, Sound, RetriesType, ObservationsSound, ToSet
<1> QED BY <1>1, WatchInvariant, PTL

(* observed_idle was preceded by something in flight, and by nothing. *)
THEOREM IdleIsReal == Spec => []IdleWitnessed
<1>1. WatchInv => IdleWitnessed
  BY DEF WatchInv, IdleIsLast, IdleWitnessed
<1> QED BY <1>1, WatchInvariant, PTL

(* A sample that failed or did not decode is only counted. *)
THEOREM MalformedIsOnlyCounted == Spec => MalformedLeavesNothing
<1>1. WatchInv /\ [Next]_vars =>
        [(answer # None /\ answer' = None /\ Undecodable(answer)) =>
           /\ [retries' EXCEPT !.query_errors = 0] = [retries EXCEPT !.query_errors = 0]
           /\ seen_in_flight' = seen_in_flight]_vars
  <2> SUFFICES ASSUME WatchInv, [Next]_vars, answer # None, answer' = None, Undecodable(answer)
               PROVE  /\ [retries' EXCEPT !.query_errors = 0] = [retries EXCEPT !.query_errors = 0]
                      /\ seen_in_flight' = seen_in_flight
    OBVIOUS
  <2>1. CASE Observe
    <3>1. /\ retries \in RetriesType /\ retries.observed_idle = FALSE /\ seen_in_flight \in BOOLEAN
          /\ retries' = [Errored(retries) EXCEPT !.observed_idle = Done(answer)]
          /\ Done(answer) = FALSE
          /\ seen_in_flight' = seen_in_flight
      BY <2>1 DEF Observe, Observed, Done, WatchInv, IdleIsLast, Sound, TypeOK, RetriesType
    <3> QED BY <3>1 DEF Errored, RetriesType
  <2>2. CASE ~Observe
    <3>1. UNCHANGED <<retries, seen_in_flight>>
      BY <2>2 DEF Next, Server, Arrive, Execute, Yield, Complete, Purge, BackOff, Becomes, Answers, Answer,
           AnswerMalformed, AnswerFails, Sample, SampleAgain, Stop, Finish, Finished, DropWatch, vars, sampler
    <3> QED BY <3>1
  <2> QED BY <2>1, <2>2
<1> QED BY <1>1, WatchInvariant, PTL DEF Spec, MalformedLeavesNothing
=============================================================================
