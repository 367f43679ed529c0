----------------------------- MODULE SuiteProofs -----------------------------
(***************************************************************************)
(* Proofs about Suite, for any invocations, handlers, tables, programs and *)
(* values: a passed check was earned, and a failed one is real. A journal  *)
(* is read as the steps that were executed where their names cannot be     *)
(* mistaken, and what the three reads answer only grows truer.             *)
(***************************************************************************)
EXTENDS Suite, SequenceTheorems, WellFoundedInduction, TLAPS

(* Induction, of a set in place of a predicate: there is no least exception. *)
LEMMA SetInduction ==
  ASSUME NEW S, 0 \in S, \A n \in Nat : n \in S => n + 1 \in S
  PROVE  Nat \subseteq S
<1> DEFINE T == Nat \ S
<1> SUFFICES ASSUME T # {} PROVE FALSE
  OBVIOUS
<1>1. \A x, y \in Nat : x < y => <<x, y>> \in OpToRel(<, Nat)
  BY DEF OpToRel
<1>2. \E x \in T : \A y \in T : ~(<<y, x>> \in OpToRel(<, Nat))
  <2>1. T \subseteq Nat
    OBVIOUS
  <2> HIDE DEF T
  <2> QED BY <2>1, NatLessThanWellFounded, WFMin
<1>3. PICK x \in T : \A y \in T : ~(y < x)
  BY <1>1, <1>2
<1>4. x - 1 \in T /\ x - 1 < x
  BY <1>3
<1> QED BY <1>3, <1>4
-----------------------------------------------------------------------------
(* The runs that are passed over: iter is what was kept of those at s.     *)
Unrolls(iter, n, runs) ==
  iter = [s \in SUBSET (1 .. n) |->
            IF s = {} THEN <<>> ELSE Keep(iter[s \ {Max(s)}], runs[Max(s)])]

(* Before the first of a sequence there is none. *)
LEMMA NoneYet == \A s \in SUBSET (1 .. 0) : s = {}
  OBVIOUS

(* The largest member of a set is the last it reaches. *)
LEMMA MaxIsLast ==
  ASSUME NEW n \in Nat, NEW s \in SUBSET (1 .. (n + 1)), n + 1 \in s
  PROVE  Max(s) = n + 1
<1>1. \E x \in s : \A y \in s : x >= y
  OBVIOUS
<1>2. Max(s) \in s /\ \A y \in s : Max(s) >= y
  BY <1>1 DEF Max
<1>3. Max(s) \in 1 .. (n + 1) /\ Max(s) >= n + 1
  BY <1>2
<1> QED BY <1>3

(* What such a function is, at each set. *)
LEMMA UnrollsAt ==
  ASSUME NEW n \in Nat, NEW iter, NEW runs, Unrolls(iter, n, runs)
  PROVE  \A s \in SUBSET (1 .. n) :
           /\ s = {} => iter[s] = <<>>
           /\ s # {} => iter[s] = Keep(iter[s \ {Max(s)}], runs[Max(s)])
<1> DEFINE step(t) == IF t = {} THEN <<>> ELSE Keep(iter[t \ {Max(t)}], runs[Max(t)])
<1>1. iter = [t \in SUBSET (1 .. n) |-> step(t)]
  BY DEF Unrolls
<1> HIDE DEF step
<1>2. \A s \in SUBSET (1 .. n) : iter[s] = step(s)
  BY <1>1
<1> QED BY <1>2 DEF step

(* There is such a function, for any number of runs. *)
LEMMA FoldExists ==
  ASSUME NEW runs
  PROVE  \A n \in Nat : \E iter : Unrolls(iter, n, runs)
<1> DEFINE S == {n \in Nat : \E iter : Unrolls(iter, n, runs)}
<1>1. 0 \in S
  <2> DEFINE iter == [s \in SUBSET (1 .. 0) |-> <<>>]
  <2>1. \A s \in SUBSET (1 .. 0) : s = {}
    BY NoneYet
  <2> DEFINE same == [s \in SUBSET (1 .. 0) |->
                        IF s = {} THEN <<>> ELSE Keep(iter[s \ {Max(s)}], runs[Max(s)])]
  <2>2. iter = same
    BY <2>1
  <2> HIDE DEF iter
  <2>3. Unrolls(iter, 0, runs)
    BY <2>2, Zenon DEF Unrolls
  <2> QED BY <2>3
<1>2. ASSUME NEW n \in Nat, n \in S PROVE n + 1 \in S
  <2>1. PICK iter : Unrolls(iter, n, runs)
    BY <1>2
  <2>0. \A s \in SUBSET (1 .. n) :
          /\ s = {} => iter[s] = <<>>
          /\ s # {} => iter[s] = Keep(iter[s \ {Max(s)}], runs[Max(s)])
    <3> HIDE DEF S
    <3> QED BY <2>1, UnrollsAt
  <2> DEFINE longer == [s \in SUBSET (1 .. (n + 1)) |->
                          IF n + 1 \in s THEN Keep(iter[s \ {n + 1}], runs[n + 1]) ELSE iter[s]]
  <2>2. ASSUME NEW s \in SUBSET (1 .. (n + 1)), n + 1 \in s
        PROVE  longer[s] = Keep(longer[s \ {Max(s)}], runs[Max(s)]) /\ s # {}
    <3>1. Max(s) = n + 1
      BY <2>2, MaxIsLast
    <3>2. longer[s \ {n + 1}] = iter[s \ {n + 1}]
      OBVIOUS
    <3> QED BY <2>2, <3>1, <3>2
  <2>3. ASSUME NEW s \in SUBSET (1 .. (n + 1)), n + 1 \notin s
        PROVE  longer[s] = IF s = {} THEN <<>> ELSE Keep(longer[s \ {Max(s)}], runs[Max(s)])
    <3>1. s \in SUBSET (1 .. n)
      <4>1. \A x \in s : x \in 1 .. (n + 1) /\ x # n + 1
        BY <2>3
      <4>2. \A x \in s : x \in 1 .. n
        BY <4>1
      <4> QED BY <4>2
    <3>0. s \ {Max(s)} \in SUBSET (1 .. n) /\ n + 1 \notin s \ {Max(s)}
      BY <2>3, <3>1
    <3>2. longer[s] = iter[s] /\ longer[s \ {Max(s)}] = iter[s \ {Max(s)}]
      <4>1. s \ {Max(s)} \in SUBSET (1 .. (n + 1))
        OBVIOUS
      <4> QED BY <2>3, <3>0, <4>1
    <3>3. /\ s = {} => iter[s] = <<>>
          /\ s # {} => iter[s] = Keep(iter[s \ {Max(s)}], runs[Max(s)])
      <4> HIDE DEF longer, S
      <4> QED BY <2>0, <3>1
    <3> QED BY <3>2, <3>3
  <2>4. Unrolls(longer, n + 1, runs)
    <3>1. \A s \in SUBSET (1 .. (n + 1)) :
            longer[s] = IF s = {} THEN <<>> ELSE Keep(longer[s \ {Max(s)}], runs[Max(s)])
      BY <2>2, <2>3
    <3> DEFINE same == [s \in SUBSET (1 .. (n + 1)) |->
                          IF s = {} THEN <<>> ELSE Keep(longer[s \ {Max(s)}], runs[Max(s)])]
    <3>2. longer = [s \in SUBSET (1 .. (n + 1)) |-> longer[s]]
      OBVIOUS
    <3> HIDE DEF longer
    <3>3. longer = same
      BY <3>1, <3>2
    <3> QED BY <3>3 DEF Unrolls
  <2> HIDE DEF longer
  <2> QED BY <2>4
<1> HIDE DEF S
<1>3. Nat \subseteq S
  BY <1>1, <1>2, SetInduction
<1> QED BY <1>3 DEF S

(* Named is one, after the last run. *)
LEMMA FoldUnrolls ==
  ASSUME NEW runs, NEW n \in Nat, DOMAIN runs = 1 .. n
  PROVE  \E iter : Unrolls(iter, n, runs) /\ Named(runs) = iter[1 .. n]
<1> DEFINE iter == CHOOSE f : Unrolls(f, n, runs)
<1>1. \E f : Unrolls(f, n, runs)
  BY FoldExists
<1>2. Unrolls(iter, n, runs)
  BY <1>1
<1>3. Named(runs) = iter[1 .. n]
  BY DEF Named, FoldLeft, MapThenFoldSet, Unrolls
<1> HIDE DEF iter
<1> QED BY <1>2, <1>3

(* What is kept, one run after the other. *)
KeepsInTurn(after, n, runs) ==
  after[0] = <<>> /\ \A m \in 0 .. (n - 1) : after[m + 1] = Keep(after[m], runs[m + 1])

(* Named keeps one run after the other, from none. *)
LEMMA NamedInTurn ==
  ASSUME NEW runs, NEW n \in Nat, DOMAIN runs = 1 .. n
  PROVE  \E after : KeepsInTurn(after, n, runs) /\ Named(runs) = after[n]
<1>1. PICK iter : Unrolls(iter, n, runs) /\ Named(runs) = iter[1 .. n]
  BY FoldUnrolls
<1>2. \A s \in SUBSET (1 .. n) :
        /\ s = {} => iter[s] = <<>>
        /\ s # {} => iter[s] = Keep(iter[s \ {Max(s)}], runs[Max(s)])
  BY <1>1, UnrollsAt
<1> DEFINE after == [m \in 0 .. n |-> iter[1 .. m]]
<1>3. after[0] = <<>>
  <2>1. 1 .. 0 = {}
    OBVIOUS
  <2>2. {} \in SUBSET (1 .. n)
    OBVIOUS
  <2>3. iter[{}] = <<>>
    BY <1>2, <2>2
  <2> QED BY <2>1, <2>3
<1>4. ASSUME NEW m \in 0 .. (n - 1) PROVE after[m + 1] = Keep(after[m], runs[m + 1])
  <2> DEFINE s == 1 .. (m + 1)
  <2>1. \A x \in s : x \in 1 .. n
    OBVIOUS
  <2>2. s \in SUBSET (1 .. n)
    BY <2>1
  <2>3. m + 1 \in s /\ s \in SUBSET (1 .. (m + 1)) /\ m \in Nat
    OBVIOUS
  <2>4. Max(s) = m + 1
    BY <2>3, MaxIsLast
  <2>5. s \ {m + 1} = 1 .. m
    OBVIOUS
  <2>6. iter[s] = Keep(iter[s \ {Max(s)}], runs[Max(s)])
    BY <1>2, <2>2, <2>3
  <2>7. m \in 0 .. n /\ m + 1 \in 0 .. n
    OBVIOUS
  <2> QED BY <2>4, <2>5, <2>6, <2>7
<1> HIDE DEF after
<1>5. KeepsInTurn(after, n, runs)
  BY <1>3, <1>4 DEF KeepsInTurn
<1>6. after[n] = iter[1 .. n]
  BY DEF after
<1> QED BY <1>1, <1>5, <1>6
-----------------------------------------------------------------------------
(* How a journal is read.                                                   *)

(* The run is read as the step: both are named or neither, and its pattern  *)
(* is the step as it was declared.                                          *)
ReadsAs(paths, run, step) ==
  /\ run.text = <<>> <=> step.text = <<>>
  /\ run.text # <<>> => Pattern(paths, run.text) = step

AllReadAs(paths, runs, steps) ==
  /\ runs \in Seq(Runs) /\ steps \in Seq(Steps) /\ Len(runs) = Len(steps)
  /\ \A k \in 1 .. Len(steps) : ReadsAs(paths, runs[k], steps[k])

(* Named runs that are read as named steps, one by one. *)
Alike(paths, kept, took) ==
  /\ kept \in Seq(Runs) /\ took \in Seq(Steps) /\ Len(kept) = Len(took)
  /\ \A k \in 1 .. Len(took) : Pattern(paths, kept[k].text) = took[k]

(* One more run and its step. *)
LEMMA KeepAlike ==
  ASSUME NEW paths, NEW kept, NEW took, Alike(paths, kept, took),
         NEW run \in Runs, NEW step \in Steps, ReadsAs(paths, run, step)
  PROVE  Alike(paths, Keep(kept, run), Keep(took, step))
<1>0. /\ kept \in Seq(Runs) /\ took \in Seq(Steps) /\ Len(kept) = Len(took)
      /\ \A k \in 1 .. Len(took) : Pattern(paths, kept[k].text) = took[k]
  BY DEF Alike
<1>1. CASE run.text = <<>>
  BY <1>1 DEF Keep, ReadsAs
<1>2. CASE run.text # <<>>
  <2>1. Keep(kept, run) = Append(kept, run) /\ Keep(took, step) = Append(took, step)
    BY <1>2 DEF Keep, ReadsAs
  <2>2. Pattern(paths, run.text) = step
    BY <1>2 DEF ReadsAs
  <2> DEFINE more == Append(kept, run)
             taking == Append(took, step)
  <2>3. /\ more \in Seq(Runs) /\ taking \in Seq(Steps) /\ Len(more) = Len(taking)
        /\ Len(taking) = Len(took) + 1
        /\ \A k \in 1 .. Len(took) : more[k] = kept[k] /\ taking[k] = took[k]
        /\ more[Len(taking)] = run /\ taking[Len(taking)] = step
    BY <1>0, AppendProperties
  <2> HIDE DEF more, taking
  <2>4. ASSUME NEW k \in 1 .. Len(taking) PROVE Pattern(paths, more[k].text) = taking[k]
    <3>1. CASE k \in 1 .. Len(took)
      BY <1>0, <2>3, <3>1
    <3>2. CASE k = Len(taking)
      BY <2>2, <2>3, <3>2
    <3> QED BY <1>0, <2>3, <3>1, <3>2
  <2>5. Alike(paths, more, taking)
    BY <2>3, <2>4 DEF Alike
  <2> QED BY <2>1, <2>5 DEF more, taking
<1> QED BY <1>1, <1>2

(* What is kept of runs are runs. *)
LEMMA NamedIsTyped == ASSUME NEW runs \in Seq(Runs) PROVE Named(runs) \in Seq(Runs)
<1> DEFINE n == Len(runs)
<1>1. n \in Nat /\ DOMAIN runs = 1 .. n /\ \A k \in 1 .. n : runs[k] \in Runs
  OBVIOUS
<1> HIDE DEF n
<1>2. PICK kept : KeepsInTurn(kept, n, runs) /\ Named(runs) = kept[n]
  BY <1>1, NamedInTurn
<1> DEFINE S == {m \in Nat : m <= n => kept[m] \in Seq(Runs)}
<1>3. 0 \in S
  <2>1. kept[0] = <<>> /\ <<>> \in Seq(Runs)
    BY <1>2, EmptySeq DEF KeepsInTurn
  <2> QED BY <2>1
<1>4. ASSUME NEW m \in Nat, m \in S PROVE m + 1 \in S
  <2> SUFFICES ASSUME m + 1 <= n PROVE kept[m + 1] \in Seq(Runs)
    OBVIOUS
  <2>1. kept[m] \in Seq(Runs) /\ m \in 0 .. (n - 1) /\ runs[m + 1] \in Runs
    BY <1>1, <1>4
  <2>2. kept[m + 1] = Keep(kept[m], runs[m + 1])
    BY <1>2, <2>1 DEF KeepsInTurn
  <2> QED BY <2>1, <2>2, AppendProperties DEF Keep
<1> HIDE DEF S
<1>5. n \in S
  BY <1>1, <1>3, <1>4, SetInduction
<1> QED BY <1>1, <1>2, <1>5 DEF S

(* A journal whose runs are read as the steps is read as those with a name. *)
LEMMA ObservedIsNamed ==
  ASSUME NEW paths, NEW runs, NEW steps, AllReadAs(paths, runs, steps)
  PROVE  Observed(paths, runs) = Named(steps) /\ Named(steps) \in Seq(Steps)
<1> DEFINE n == Len(steps)
<1>0. /\ runs \in Seq(Runs) /\ steps \in Seq(Steps) /\ Len(runs) = n
      /\ \A k \in 1 .. n : ReadsAs(paths, runs[k], steps[k])
  BY DEF AllReadAs
<1>1. n \in Nat /\ DOMAIN runs = 1 .. n /\ DOMAIN steps = 1 .. n
  BY <1>0
<1> HIDE DEF n
<1>2. PICK kept : KeepsInTurn(kept, n, runs) /\ Named(runs) = kept[n]
  BY <1>1, NamedInTurn
<1>3. PICK took : KeepsInTurn(took, n, steps) /\ Named(steps) = took[n]
  BY <1>1, NamedInTurn
<1> DEFINE S == {m \in Nat : m <= n => Alike(paths, kept[m], took[m])}
<1>4. 0 \in S
  <2>1. kept[0] = <<>> /\ took[0] = <<>>
    BY <1>2, <1>3 DEF KeepsInTurn
  <2>2. Alike(paths, <<>>, <<>>)
    BY DEF Alike
  <2> QED BY <2>1, <2>2
<1>5. ASSUME NEW m \in Nat, m \in S PROVE m + 1 \in S
  <2> SUFFICES ASSUME m + 1 <= n PROVE Alike(paths, kept[m + 1], took[m + 1])
    OBVIOUS
  <2>1. Alike(paths, kept[m], took[m])
    BY <1>1, <1>5
  <2>2. m \in 0 .. (n - 1) /\ m + 1 \in 1 .. n
    BY <1>1
  <2>3. kept[m + 1] = Keep(kept[m], runs[m + 1]) /\ took[m + 1] = Keep(took[m], steps[m + 1])
    BY <1>2, <1>3, <2>2 DEF KeepsInTurn
  <2>4. runs[m + 1] \in Runs /\ steps[m + 1] \in Steps /\ ReadsAs(paths, runs[m + 1], steps[m + 1])
    BY <1>0, <1>1, <2>2
  <2> QED BY <2>1, <2>3, <2>4, KeepAlike
<1> HIDE DEF S
<1>6. n \in S
  BY <1>1, <1>4, <1>5, SetInduction
<1>7. Alike(paths, Named(runs), Named(steps))
  BY <1>1, <1>2, <1>3, <1>6 DEF S
<1>8. /\ Named(runs) \in Seq(Runs) /\ Named(steps) \in Seq(Steps) /\ Len(Named(runs)) = Len(Named(steps))
      /\ \A k \in 1 .. Len(Named(steps)) : Pattern(paths, Named(runs)[k].text) = Named(steps)[k]
  BY <1>7 DEF Alike
<1> QED BY <1>8 DEF Observed

(* The name a run is journaled under, when a step is executed. *)
Filled(step) == IF step.hole = Fixed THEN {<<>>} ELSE Values

(* Two prefixes of a name that are as long are one. *)
LEMMA PrefixesAgree ==
  ASSUME NEW name \in Seq(Symbols), NEW p, p.text \in Seq(Symbols), Matches(p, name),
         NEW q, q.text \in Seq(Symbols), Matches(q, name), Len(p.text) = Len(q.text)
  PROVE  p.text = q.text
<1>1. /\ SubSeq(p.text, 1, Len(p.text)) = SubSeq(name, 1, Len(p.text))
      /\ SubSeq(q.text, 1, Len(q.text)) = SubSeq(name, 1, Len(q.text))
  BY DEF Matches, IsStrictPrefix, IsPrefix
<1>2. SubSeq(p.text, 1, Len(p.text)) = p.text /\ SubSeq(q.text, 1, Len(q.text)) = q.text
  BY SubSeqFull
<1> QED BY <1>1, <1>2

(* No name but an empty one lacks what goes on after a prefix. *)
LEMMA MatchIsLonger ==
  ASSUME NEW name \in Seq(Symbols), NEW p, p.text \in Seq(Symbols), Matches(p, name)
  PROVE  Len(p.text) < Len(name) /\ name # <<>>
<1>1. /\ Len(p.text) <= Len(name) /\ SubSeq(p.text, 1, Len(p.text)) = SubSeq(name, 1, Len(p.text))
      /\ p.text # name
  BY DEF Matches, IsStrictPrefix, IsPrefix
<1>2. SubSeq(p.text, 1, Len(p.text)) = p.text /\ SubSeq(name, 1, Len(name)) = name
  BY SubSeqFull
<1>3. Len(p.text) # Len(name)
  BY <1>1, <1>2
<1> QED BY <1>1, <1>3

(* Of the prefixes that go on in a name there is a longest one. *)
LEMMA LongestExists ==
  ASSUME NEW name \in Seq(Symbols), NEW matching, matching # {},
         \A p \in matching : p.text \in Seq(Symbols) /\ Matches(p, name)
  PROVE  \E p \in matching : \A q \in matching : Len(q.text) <= Len(p.text)
<1> DEFINE spare == {Len(name) - Len(p.text) : p \in matching}
<1>1. \A x, y \in Nat : x < y => <<x, y>> \in OpToRel(<, Nat)
  BY DEF OpToRel
<1>2. \A p \in matching : Len(p.text) \in Nat /\ Len(name) \in Nat /\ Len(name) - Len(p.text) \in Nat
  <2> SUFFICES ASSUME NEW p \in matching PROVE Len(p.text) \in Nat /\ Len(name) \in Nat /\ Len(name) - Len(p.text) \in Nat
    OBVIOUS
  <2>1. p.text \in Seq(Symbols) /\ Matches(p, name)
    OBVIOUS
  <2>2. Len(p.text) < Len(name)
    BY <2>1, MatchIsLonger
  <2> QED BY <2>1, <2>2
<1>3. spare \subseteq Nat /\ spare # {}
  BY <1>2
<1>4. \E x \in spare : \A y \in spare : ~(<<y, x>> \in OpToRel(<, Nat))
  <2> HIDE DEF spare
  <2> QED BY <1>3, NatLessThanWellFounded, WFMin
<1>5. PICK x \in spare : \A y \in spare : ~(y < x)
  BY <1>1, <1>3, <1>4
<1>6. PICK p \in matching : x = Len(name) - Len(p.text)
  BY <1>5
<1>7. \A q \in matching : ~(Len(name) - Len(q.text) < Len(name) - Len(p.text))
  BY <1>5, <1>6
<1> HIDE DEF spare
<1>8. ASSUME NEW q \in matching PROVE Len(q.text) <= Len(p.text)
  <2>1. Len(q.text) \in Nat /\ Len(p.text) \in Nat /\ Len(name) \in Nat
    BY <1>2
  <2>2. ~(Len(name) - Len(q.text) < Len(name) - Len(p.text))
    BY <1>7
  <2> QED BY <2>1, <2>2
<1> QED BY <1>8

(* What a name is read as, it may be. *)
LEMMA PatternFits ==
  ASSUME NEW paths, NamesOf(paths) \subseteq Steps, NEW name \in Seq(Symbols)
  PROVE  Fits(Pattern(paths, name), name) /\ Pattern(paths, name) \in Steps
<1> DEFINE matching == {p \in Parametrised(paths) : Matches(p, name)}
<1>1. CASE matching = {}
  BY <1>1 DEF Pattern, Fits, Steps
<1>2. CASE matching # {}
  <2>1. \A p \in matching : p \in Steps /\ p.text \in Seq(Symbols) /\ Matches(p, name) /\ p.hole # Fixed
    BY DEF Parametrised, Steps
  <2>2. Pattern(paths, name) = CHOOSE p \in matching : \A q \in matching : Len(q.text) <= Len(p.text)
    BY <1>2 DEF Pattern
  <2> HIDE DEF matching
  <2>3. Pattern(paths, name) \in matching
    BY <1>2, <2>1, <2>2, LongestExists
  <2> QED BY <2>1, <2>3 DEF Fits
<1> QED BY <1>1, <1>2

(* What an accepted table's names cannot mistake is read as it was declared. *)
LEMMA ClearIsReadAs ==
  ASSUME NEW paths, NamesOf(paths) \subseteq Steps, Accepts(paths),
         NEW step \in Steps, NEW run \in Runs, Clear(paths, step, run.text),
         NEW value \in Filled(step), run.text = step.text \o value
  PROVE  ReadsAs(paths, run, step)
<1>0. /\ step.text \in Seq(Symbols) /\ step = [text |-> step.text, hole |-> step.hole]
      /\ run.text \in Seq(Symbols)
  BY DEF Steps, Runs
<1> DEFINE matching == {p \in Parametrised(paths) : Matches(p, run.text)}
<1>1. CASE step.hole = Fixed
  <2>1. run.text = step.text
    BY <1>0, <1>1, ConcatEmptySeq DEF Filled
  <2>2. \A p \in Parametrised(paths) : ~Matches(p, step.text)
    <3>1. step \in NamesOf(paths) => step \in NamesOf(paths) \ Parametrised(paths)
      BY <1>1 DEF Parametrised
    <3> QED BY <2>1, <3>1 DEF Clear, Accepts
  <2>3. matching = {}
    BY <2>1, <2>2
  <2>4. Pattern(paths, run.text) = [text |-> run.text, hole |-> Fixed]
    BY <2>3 DEF Pattern
  <2> QED BY <1>0, <1>1, <2>1, <2>4 DEF ReadsAs
<1>2. CASE step.hole # Fixed
  <2>1. step \in Parametrised(paths)
    BY <1>2 DEF Clear, Parametrised
  <2>2. step \in matching /\ \A p \in matching : Len(p.text) <= Len(step.text)
    BY <1>2, <2>1 DEF Clear
  <2>3. run.text # <<>>
    BY <1>0, <2>2, MatchIsLonger
  <2>4. \A p \in matching : p \in Parametrised(paths) /\ Matches(p, run.text) /\ p.text \in Seq(Symbols)
    BY DEF Parametrised, Steps
  <2>5. Pattern(paths, run.text) = CHOOSE p \in matching : \A q \in matching : Len(q.text) <= Len(p.text)
    BY <2>2 DEF Pattern
  <2> DEFINE longest == CHOOSE p \in matching : \A q \in matching : Len(q.text) <= Len(p.text)
  <2> HIDE DEF matching
  <2>6. longest \in matching /\ \A q \in matching : Len(q.text) <= Len(longest.text)
    BY <2>2
  <2> HIDE DEF longest
  <2>7. Len(longest.text) = Len(step.text)
    <3>1. Len(longest.text) \in Nat /\ Len(step.text) \in Nat
      BY <1>0, <2>4, <2>6
    <3> QED BY <2>2, <2>6, <3>1
  <2>8. longest.text = step.text
    BY <1>0, <2>2, <2>4, <2>6, <2>7, PrefixesAgree
  <2>9. longest = step
    BY <2>1, <2>4, <2>6, <2>8 DEF Accepts
  <2>10. step.text # <<>>
    BY <2>1 DEF Accepts
  <2> QED BY <2>3, <2>5, <2>9, <2>10 DEF ReadsAs, longest
<1> QED BY <1>1, <1>2
-----------------------------------------------------------------------------
(* The invariant.                                                           *)

(* What has arrived is of a handler that is deployed, and stays. *)
TypeOK ==
  /\ table \in Tables
  /\ phase \in {"new", "running", "refused", "checked"}
  /\ offered \subseteq Targets
  /\ state \in [Ids -> {"none", "queued", "running", "completed", "gone"}]
  /\ DOMAIN program = Ids /\ DOMAIN journal = Ids
  /\ executed \in [Ids -> Seq(Steps)]
  /\ \A i \in Ids : state[i] # "none" => program[i] \in Programs /\ program[i].target \in offered

(* Each run is that of a step, under its name. *)
Journaled(runs, steps) ==
  /\ runs \in Seq(Runs) /\ Len(runs) = Len(steps)
  /\ \A k \in 1 .. Len(steps) : \E value \in Filled(steps[k]) : runs[k].text = steps[k].text \o value

(* Where there is no journal, nothing had begun or something was lost. *)
Excused(i, steps) == steps = <<>> \/ state[i] \in {"completed", "gone"}

Retained ==
  \A i \in Ids :
    /\ journal[i] # None => Journaled(journal[i], executed[i])
    /\ journal[i] = None => Excused(i, executed[i])
    /\ state[i] \in {"none", "queued"} => executed[i] = <<>>
    /\ state[i] = "running" => journal[i] # None

(* What was read is as good as then, whatever came after. *)
Reads ==
  /\ handlers # None => handlers[1] \subseteq offered
  /\ invocations # None =>
       /\ DOMAIN invocations[1] \subseteq Ids
       /\ \A i \in DOMAIN invocations[1] : state[i] # "none" /\ invocations[1][i] = program[i].target
  /\ journals # None =>
       /\ taken \in [Ids -> Seq(Steps)]
       /\ \A i \in Ids : /\ journals[1][i] # None => Journaled(journals[1][i], taken[i])
                         /\ journals[1][i] = None => Excused(i, taken[i])

Verdict ==
  /\ phase \in {"running", "checked"} => \A t \in Targets : Accepts(PathsOf(table, t))
  /\ phase = "checked" =>
       /\ None \notin {handlers, invocations, journals}
       /\ violations = Violations(table, handlers[1], invocations[1], journals[1])
  /\ phase # "checked" => violations = NoViolations

SuiteInv == TypeOK /\ Retained /\ Reads /\ Verdict

(* A suite begins without a server's doing. *)
LEMMA SuiteInit == Init => SuiteInv
<1> SUFFICES ASSUME Init PROVE SuiteInv
  OBVIOUS
<1>1. \A i \in Ids : /\ program[i] = None /\ state[i] = "none" /\ journal[i] = None /\ executed[i] = <<>>
  BY DEF Init
<1>2. TypeOK
  BY <1>1 DEF Init, TypeOK
<1>3. Retained
  BY <1>1 DEF Retained, Excused
<1>4. Reads /\ Verdict
  BY DEF Init, Reads, Verdict
<1> QED BY <1>2, <1>3, <1>4 DEF SuiteInv

(* What has happened to an invocation is not undone. *)
Ages ==
  /\ offered \subseteq offered'
  /\ \A i \in Ids : /\ state[i] # "none" => state'[i] # "none" /\ program'[i] = program[i]
                    /\ state[i] \in {"completed", "gone"} => state'[i] \in {"completed", "gone"}

(* A deployment adds handlers, and nothing else. *)
LEMMA DeployKeeps ==
  ASSUME TypeOK, Retained, NEW t \in Targets, Deploy(t)
  PROVE  TypeOK' /\ Retained' /\ Ages
<1>1. /\ offered' = offered \cup {t} /\ UNCHANGED <<table, phase, program, state, journal, executed>>
  BY DEF Deploy
<1>2. TypeOK' /\ Ages
  BY <1>1 DEF TypeOK, Ages
<1>3. Retained'
  BY <1>1 DEF Retained, Excused, Journaled
<1> QED BY <1>2, <1>3

(* An invocation arrives with nothing journaled. *)
LEMMA ArriveKeeps ==
  ASSUME TypeOK, Retained, NEW i \in Ids, NEW p \in Programs, Arrive(i, p)
  PROVE  TypeOK' /\ Retained' /\ Ages
<1>1. /\ state[i] = "none" /\ p.target \in offered
      /\ program' = [program EXCEPT ![i] = p] /\ state' = [state EXCEPT ![i] = "queued"]
      /\ UNCHANGED <<table, phase, offered, journal, executed>>
  BY DEF Arrive
<1>2. TypeOK' /\ Ages
  BY <1>1 DEF TypeOK, Ages
<1>3. Retained'
  BY <1>1 DEF TypeOK, Retained, Excused, Journaled
<1> QED BY <1>2, <1>3

(* Its journal begins empty, of no step. *)
LEMMA BeginKeeps ==
  ASSUME TypeOK, Retained, NEW i \in Ids, Begin(i)
  PROVE  TypeOK' /\ Retained' /\ Ages
<1>1. /\ state[i] = "queued" /\ state' = [state EXCEPT ![i] = "running"]
      /\ journal' = [journal EXCEPT ![i] = <<>>]
      /\ UNCHANGED <<table, phase, offered, program, executed>>
  BY DEF Begin
<1>2. TypeOK' /\ Ages
  BY <1>1 DEF TypeOK, Ages
<1>3. <<>> # None /\ Journaled(<<>>, <<>>)
  <2>1. <<>> \in Seq(Runs) /\ Len(<<>>) = 0
    BY EmptySeq
  <2>2. Journaled(<<>>, <<>>)
    BY <2>1 DEF Journaled
  <2> QED BY <2>1, <2>2, RunNamesAssumption
<1>4. ASSUME NEW j \in Ids
      PROVE  /\ journal'[j] # None => Journaled(journal'[j], executed'[j])
             /\ journal'[j] = None => Excused(j, executed[j])'
             /\ state'[j] \in {"none", "queued"} => executed'[j] = <<>>
             /\ state'[j] = "running" => journal'[j] # None
  <2>1. CASE j = i
    BY <1>1, <1>3, <2>1 DEF TypeOK, Retained
  <2>2. CASE j # i
    BY <1>1, <2>2 DEF TypeOK, Retained, Excused
  <2> QED BY <2>1, <2>2
<1> QED BY <1>2, <1>4 DEF Retained, Journaled, Filled

(* A parameter is a text. *)
LEMMA FilledTyped == \A step : \A value \in Filled(step) : value \in Seq(Symbols)
<1>1. <<>> \in Seq(Symbols)
  BY EmptySeq
<1>2. \A value \in Values : value \in Seq(Symbols)
  BY SuiteAssumption
<1> QED BY <1>1, <1>2 DEF Filled

(* A step and its run are one more of each. *)
LEMMA RunKeeps ==
  ASSUME TypeOK, Retained, NEW i \in Ids, Run(i)
  PROVE  TypeOK' /\ Retained' /\ Ages
<1> DEFINE n == Len(executed[i])
           step == program[i].steps[n + 1]
<1>1. PICK value \in Filled(step) :
        /\ state[i] = "running" /\ n < Len(program[i].steps)
        /\ executed' = [executed EXCEPT ![i] = Append(@, step)]
        /\ journal' = [journal EXCEPT ![i] = Append(@, [text |-> step.text \o value])]
        /\ UNCHANGED <<table, phase, offered, program, state>>
  BY DEF Run, Filled
<1>2. /\ executed[i] \in Seq(Steps) /\ program[i].steps \in Seq(Steps)
      /\ journal[i] # None /\ Journaled(journal[i], executed[i])
  BY <1>1, SuiteAssumption DEF TypeOK, Retained
<1>3. n \in Nat /\ step \in Steps
  BY <1>1, <1>2
<1> DEFINE run == [text |-> step.text \o value]
           runs == Append(journal[i], run)
           steps == Append(executed[i], step)
<1>4. run \in Runs
  <2>1. step.text \in Seq(Symbols)
    BY <1>3 DEF Steps
  <2>2. value \in Seq(Symbols)
    BY FilledTyped
  <2> HIDE DEF step
  <2>3. step.text \o value \in Seq(Symbols)
    BY <2>1, <2>2, ConcatProperties
  <2> QED BY <2>3 DEF Runs
<1> HIDE DEF step, n
<1>5. /\ journal[i] \in Seq(Runs) /\ Len(journal[i]) = n
      /\ \A k \in 1 .. n : \E v \in Filled(executed[i][k]) : journal[i][k].text = executed[i][k].text \o v
  BY <1>2 DEF Journaled, n
<1>6. /\ steps \in Seq(Steps) /\ Len(steps) = n + 1
      /\ \A k \in 1 .. n : steps[k] = executed[i][k]
      /\ steps[n + 1] = step
  BY <1>2, <1>3, AppendProperties DEF n
<1>7. /\ runs \in Seq(Runs) /\ Len(runs) = n + 1
      /\ \A k \in 1 .. n : runs[k] = journal[i][k]
      /\ runs[n + 1] = run
  BY <1>3, <1>4, <1>5, AppendProperties
<1>8. run.text = step.text \o value
  OBVIOUS
<1>9. executed' = [executed EXCEPT ![i] = steps] /\ journal' = [journal EXCEPT ![i] = runs]
  BY <1>1 DEF n
<1> HIDE DEF run, runs, steps
<1>10. Journaled(runs, steps)
  <2> SUFFICES ASSUME NEW k \in 1 .. (n + 1)
               PROVE  \E v \in Filled(steps[k]) : runs[k].text = steps[k].text \o v
    BY <1>6, <1>7 DEF Journaled
  <2>1. CASE k = n + 1
    BY <1>6, <1>7, <1>8, <2>1
  <2>2. CASE k \in 1 .. n
    BY <1>5, <1>6, <1>7, <2>2
  <2> QED BY <1>3, <2>1, <2>2
<1>11. runs # None
  BY <1>7, RunNamesAssumption
<1>12. TypeOK' /\ Ages
  BY <1>1, <1>6, <1>9 DEF TypeOK, Ages
<1>13. ASSUME NEW j \in Ids
      PROVE  /\ journal'[j] # None => Journaled(journal'[j], executed'[j])
             /\ journal'[j] = None => Excused(j, executed[j])'
             /\ state'[j] \in {"none", "queued"} => executed'[j] = <<>>
             /\ state'[j] = "running" => journal'[j] # None
  <2>1. CASE j = i
    BY <1>1, <1>9, <1>10, <1>11, <2>1 DEF TypeOK
  <2>2. CASE j # i
    BY <1>1, <1>9, <2>2 DEF TypeOK, Retained, Excused
  <2> QED BY <2>1, <2>2
<1> QED BY <1>12, <1>13 DEF Retained, Journaled, Filled

(* Once it is over, a lost journal is excused. *)
LEMMA EndKeeps ==
  ASSUME TypeOK, Retained, NEW i \in Ids, Complete(i) \/ Forget(i)
  PROVE  TypeOK' /\ Retained' /\ Ages
<1>1. /\ state[i] \in {"running", "completed"}
      /\ state' \in {state, [state EXCEPT ![i] = "completed"], [state EXCEPT ![i] = "gone"]}
      /\ state'[i] \in {"completed", "gone"}
      /\ journal' \in {journal, [journal EXCEPT ![i] = None]}
      /\ UNCHANGED <<table, phase, offered, program, executed>>
  BY DEF Complete, Forget, TypeOK
<1>2. TypeOK' /\ Ages
  BY <1>1 DEF TypeOK, Ages
<1>3. ASSUME NEW j \in Ids
      PROVE  /\ journal'[j] # None => Journaled(journal'[j], executed'[j])
             /\ journal'[j] = None => Excused(j, executed[j])'
             /\ state'[j] \in {"none", "queued"} => executed'[j] = <<>>
             /\ state'[j] = "running" => journal'[j] # None
  <2>1. CASE j = i
    BY <1>1, <2>1 DEF TypeOK, Retained, Excused
  <2>2. CASE j # i
    BY <1>1, <2>2 DEF TypeOK, Retained, Excused
  <2> QED BY <2>1, <2>2
<1> QED BY <1>2, <1>3 DEF Retained, Journaled, Filled

(* Steps of the server leave what was read, and the verdict, as good as it was. *)
LEMMA ServerKeeps ==
  ASSUME SuiteInv, phase = "running", Server
  PROVE  SuiteInv'
<1>1. TypeOK' /\ Retained' /\ Ages
  BY DeployKeeps, ArriveKeeps, BeginKeeps, RunKeeps, EndKeeps DEF Server, SuiteInv
<1>2. UNCHANGED <<table, phase, reads, violations>>
  BY DEF Server, Deploy, Arrive, Begin, Run, Complete, Forget
<1>3. Reads'
  BY <1>1, <1>2 DEF SuiteInv, Reads, reads, Ages, Excused, Journaled, Filled
<1>4. Verdict'
  BY <1>2 DEF SuiteInv, Verdict, reads
<1> QED BY <1>1, <1>3, <1>4 DEF SuiteInv

(* A read answers what there is. *)
LEMMA ReadingKeeps ==
  ASSUME SuiteInv, NewTable \/ ReadHandlers \/ ReadInvocations \/ ReadJournals
  PROVE  SuiteInv'
<1>1. UNCHANGED <<table, offered, program, state, journal, executed, violations>>
  BY DEF NewTable, ReadHandlers, ReadInvocations, ReadJournals, server
<1>2. Retained'
  BY <1>1 DEF SuiteInv, Retained, Excused, Journaled, Filled
<1>3. CASE NewTable
  <2>1. /\ phase = "new" /\ phase' \in {"running", "refused"} /\ UNCHANGED reads
        /\ phase' = "running" => \A t \in Targets : Accepts(PathsOf(table, t))
    BY <1>3 DEF NewTable
  <2>2. TypeOK'
    BY <1>1, <2>1 DEF SuiteInv, TypeOK
  <2>3. Reads'
    BY <1>1, <2>1 DEF SuiteInv, Reads, reads, Excused, Journaled, Filled
  <2>4. Verdict'
    BY <1>1, <2>1 DEF SuiteInv, Verdict
  <2> QED BY <1>2, <2>2, <2>3, <2>4 DEF SuiteInv
<1>4. CASE ReadHandlers \/ ReadInvocations \/ ReadJournals
  <2>1. phase = "running" /\ UNCHANGED phase
    BY <1>4 DEF ReadHandlers, ReadInvocations, ReadJournals
  <2>2. TypeOK' /\ Verdict'
    BY <1>1, <2>1 DEF SuiteInv, TypeOK, Verdict
  <2>3. CASE ReadHandlers
    <3>1. handlers' = <<offered>> /\ UNCHANGED <<invocations, journals, taken>>
      BY <2>3 DEF ReadHandlers
    <3>2. Reads'
      BY <1>1, <3>1 DEF SuiteInv, Reads, Excused, Journaled, Filled
    <3> QED BY <1>2, <2>2, <3>2 DEF SuiteInv
  <2>4. CASE ReadInvocations
    <3> DEFINE held == {i \in Ids : state[i] \notin {"none", "gone"}}
    <3>1. invocations' = <<[i \in held |-> program[i].target]>> /\ UNCHANGED <<handlers, journals, taken>>
      BY <2>4 DEF ReadInvocations
    <3>2. /\ invocations'[1] = [i \in held |-> program[i].target]
          /\ \A i \in held : i \in Ids /\ state[i] # "none"
      BY <3>1
    <3> HIDE DEF held
    <3>3. Reads'
      BY <1>1, <3>1, <3>2 DEF SuiteInv, Reads, Excused, Journaled, Filled
    <3> QED BY <1>2, <2>2, <3>3 DEF SuiteInv
  <2>5. CASE ReadJournals
    <3>1. journals' = <<journal>> /\ taken' = executed /\ UNCHANGED <<handlers, invocations>>
      BY <2>5 DEF ReadJournals
    <3>2. \A i \in Ids : /\ journal[i] # None => Journaled(journal[i], executed[i])
                         /\ journal[i] = None => Excused(i, executed[i])
      BY DEF SuiteInv, Retained
    <3>3. executed \in [Ids -> Seq(Steps)]
      BY DEF SuiteInv, TypeOK
    <3>4. journals'[1] = journal
      BY <3>1
    <3>5. taken' \in [Ids -> Seq(Steps)]
      BY <3>1, <3>3
    <3>6. (\A i \in Ids : /\ journals[1][i] # None => Journaled(journals[1][i], taken[i])
                          /\ journals[1][i] = None => Excused(i, taken[i]))'
      BY <1>1, <3>1, <3>2, <3>4 DEF Excused, Journaled, Filled
    <3>7. /\ (handlers # None => handlers[1] \subseteq offered)'
          /\ (invocations # None =>
                /\ DOMAIN invocations[1] \subseteq Ids
                /\ \A i \in DOMAIN invocations[1] : state[i] # "none" /\ invocations[1][i] = program[i].target)'
      BY <1>1, <3>1 DEF SuiteInv, Reads
    <3>8. Reads'
      BY <3>5, <3>6, <3>7 DEF Reads
    <3> QED BY <1>2, <2>2, <3>8 DEF SuiteInv
  <2> QED BY <1>4, <2>3, <2>4, <2>5
<1> QED BY <1>3, <1>4

(* The verdict is that of the three answers. *)
LEMMA CheckKeeps ==
  ASSUME SuiteInv, Check
  PROVE  SuiteInv'
<1>1. /\ phase = "running" /\ phase' = "checked" /\ None \notin {handlers, invocations, journals}
      /\ violations' = Violations(table, handlers[1], invocations[1], journals[1])
      /\ UNCHANGED <<table, offered, program, state, journal, executed, handlers, invocations, journals, taken>>
  BY DEF Check, server, reads
<1>2. TypeOK' /\ Retained' /\ Reads'
  BY <1>1, ZenonT(60) DEF SuiteInv, TypeOK, Retained, Reads, Excused, Journaled, Filled
<1>3. \A t \in Targets : Accepts(PathsOf(table, t))
  BY <1>1 DEF SuiteInv, Verdict
<1>4. Verdict'
  BY <1>1, <1>3 DEF Verdict
<1> QED BY <1>2, <1>4 DEF SuiteInv

(* Every step keeps the invariant. *)
LEMMA SuiteNext == SuiteInv /\ [Next]_vars => SuiteInv'
<1> SUFFICES ASSUME SuiteInv, [Next]_vars PROVE SuiteInv'
  OBVIOUS
<1>1. CASE UNCHANGED vars
  BY <1>1, ZenonT(60) DEF vars, server, reads, SuiteInv, TypeOK, Retained, Reads, Verdict, Excused, Journaled, Filled
<1>2. CASE Next
  BY <1>2, ServerKeeps, ReadingKeeps, CheckKeeps DEF Next
<1> QED BY <1>1, <1>2

(* The inductive invariant of a suite, its server and its reads. *)
THEOREM SuiteInvariant == Spec => []SuiteInv
  BY SuiteInit, SuiteNext, PTL DEF Spec
-----------------------------------------------------------------------------
(* What a verdict says.                                                     *)

(* The names of a table's handler are declared steps. *)
LEMMA NamesAreSteps ==
  ASSUME NEW t, table \in Tables
  PROVE  /\ PathsOf(table, t) \subseteq Seq(Steps)
         /\ NamesOf(PathsOf(table, t)) \subseteq Steps
<1>1. table \subseteq [target : Targets, path : Seq(Steps)]
  BY SuiteAssumption
<1>2. PathsOf(table, t) \subseteq Seq(Steps)
  BY <1>1 DEF PathsOf
<1>3. \A path \in Seq(Steps) : ToSet(path) \subseteq Steps
  BY DEF ToSet
<1> QED BY <1>2, <1>3 DEF NamesOf

(* A journal that was read is read as what had been executed, where its    *)
(* steps are plain.                                                        *)
LEMMA PlainIsTaken ==
  ASSUME SuiteInv, phase = "checked", NEW i \in DOMAIN invocations[1], journals[1][i] # None, Plain(i)
  PROVE  /\ Observed(PathsOf(table, program[i].target), journals[1][i]) = Took(i)
         /\ Took(i) \in Seq(Steps)
<1> DEFINE paths == PathsOf(table, program[i].target)
<1>1. /\ i \in Ids /\ state[i] # "none" /\ taken[i] \in Seq(Steps)
      /\ Journaled(journals[1][i], taken[i])
  BY DEF SuiteInv, Verdict, Reads
<1>2. program[i].target \in Targets /\ table \in Tables
  BY <1>1, SuiteAssumption DEF SuiteInv, TypeOK
<1>3. Accepts(paths) /\ NamesOf(paths) \subseteq Steps
  BY <1>2, NamesAreSteps DEF SuiteInv, Verdict
<1>4. \A k \in 1 .. Len(taken[i]) : Clear(paths, taken[i][k], journals[1][i][k].text)
  BY <1>1 DEF Plain
<1> HIDE DEF paths
<1>5. ASSUME NEW k \in 1 .. Len(taken[i]) PROVE ReadsAs(paths, journals[1][i][k], taken[i][k])
  <2>1. taken[i][k] \in Steps /\ journals[1][i][k] \in Runs
    BY <1>1 DEF Journaled
  <2>2. PICK value \in Filled(taken[i][k]) : journals[1][i][k].text = taken[i][k].text \o value
    BY <1>1 DEF Journaled
  <2>3. Clear(paths, taken[i][k], journals[1][i][k].text)
    BY <1>4
  <2> QED BY <1>3, <2>1, <2>2, <2>3, ClearIsReadAs
<1>6. AllReadAs(paths, journals[1][i], taken[i])
  BY <1>1, <1>5 DEF AllReadAs, Journaled
<1> QED BY <1>6, ObservedIsNamed DEF Took, paths

(* The handlers that have rows. *)
Tabled == {row.target : row \in table}

(* Each kind of violation, said of the server in place of the answers. *)
LEMMA VerdictIs ==
  ASSUME SuiteInv, phase = "checked"
  PROVE  /\ violations.missing = {i \in DOMAIN invocations[1] : journals[1][i] = None}
         /\ violations.untabled = (handlers[1] \cup {program[i].target : i \in DOMAIN invocations[1]}) \ Tabled
         /\ violations.undeployed = Tabled \ handlers[1]
         /\ violations.unexplained =
              {i \in DOMAIN invocations[1] :
                 /\ program[i].target \in Tabled /\ journals[1][i] # None
                 /\ \A path \in PathsOf(table, program[i].target) :
                      ~IsPrefix(Observed(PathsOf(table, program[i].target), journals[1][i]), path)}
         /\ violations.unwalked =
              {row \in table : \A i \in DOMAIN invocations[1] :
                 program[i].target = row.target /\ journals[1][i] # None =>
                   ~Walks(Observed(PathsOf(table, program[i].target), journals[1][i]), row.path)}
<1> DEFINE target == invocations[1]
           read(i) == {Observed(PathsOf(table, target[i]), j) : j \in Evidence(journals[1][i])}
<1>1. \A i \in DOMAIN target : target[i] = program[i].target
  BY DEF SuiteInv, Verdict, Reads
<1>2. violations =
        [missing |-> {i \in DOMAIN target : Evidence(journals[1][i]) = {}},
         untabled |-> Untabled(Tabled, handlers[1] \cup {target[i] : i \in DOMAIN target}),
         undeployed |-> Tabled \ handlers[1],
         unexplained |-> {i \in {j \in DOMAIN target : target[j] \in Tabled} :
                            \E o \in read(i) : \A path \in PathsOf(table, target[i]) : ~IsPrefix(o, path)},
         unwalked |-> {row \in table : \A i \in {j \in DOMAIN target : target[j] \in Tabled} : \A o \in read(i) :
                         target[i] = row.target => ~Walks(o, row.path)}]
  BY DEF SuiteInv, Verdict, Violations, Tabled
<1>3. \A i : /\ journals[1][i] = None => Evidence(journals[1][i]) = {} /\ read(i) = {}
             /\ journals[1][i] # None =>
                  /\ Evidence(journals[1][i]) # {}
                  /\ read(i) = {Observed(PathsOf(table, target[i]), journals[1][i])}
  BY DEF Evidence
<1>4. \A row \in table : row.target \in Tabled
  BY DEF Tabled
<1> HIDE DEF target, read
<1>5. violations.missing = {i \in DOMAIN target : journals[1][i] = None}
  BY <1>2, <1>3
<1>6. violations.untabled = (handlers[1] \cup {program[i].target : i \in DOMAIN target}) \ Tabled
  BY <1>1, <1>2 DEF Untabled
<1>7. violations.undeployed = Tabled \ handlers[1]
  BY <1>2
<1>8. violations.unexplained =
        {i \in DOMAIN target :
           /\ program[i].target \in Tabled /\ journals[1][i] # None
           /\ \A path \in PathsOf(table, program[i].target) :
                ~IsPrefix(Observed(PathsOf(table, program[i].target), journals[1][i]), path)}
  BY <1>1, <1>2, <1>3
<1>9. violations.unwalked =
        {row \in table : \A i \in DOMAIN target :
           program[i].target = row.target /\ journals[1][i] # None =>
             ~Walks(Observed(PathsOf(table, program[i].target), journals[1][i]), row.path)}
  BY <1>1, <1>2, <1>3, <1>4
<1> QED BY <1>5, <1>6, <1>7, <1>8, <1>9 DEF target

(* A path is walked by exactly its own steps. *)
LEMMA WalksIsEqual ==
  ASSUME NEW path \in Seq(Steps), NEW observed \in Seq(Steps)
  PROVE  Walks(observed, path) <=> observed = path
<1>1. SubSeq(path, 1, Len(path)) = path /\ SubSeq(observed, 1, Len(observed)) = observed
  BY SubSeqFull
<1>2. Len(path) \in Nat /\ Len(observed) \in Nat
  OBVIOUS
<1>3. ASSUME Walks(observed, path) PROVE observed = path
  <2>1. /\ Len(observed) = Len(path)
        /\ SubSeq(observed, 1, Len(observed)) = SubSeq(path, 1, Len(observed))
    BY <1>3 DEF Walks, IsPrefix
  <2> QED BY <2>1, <1>1
<1>4. ASSUME observed = path PROVE Walks(observed, path)
  <2>1. Len(observed) = Len(path) /\ Len(observed) <= Len(path)
    BY <1>4, <1>2
  <2> QED BY <2>1, <1>4 DEF Walks, IsPrefix
<1> QED BY <1>3, <1>4

(* A path that begins as a journal is read is followed by its invocation.  *)
LEMMA ReadIsFollowed ==
  ASSUME SuiteInv, phase = "checked", NEW i \in DOMAIN invocations[1], journals[1][i] # None,
         NEW path \in Seq(Steps),
         IsPrefix(Observed(PathsOf(table, program[i].target), journals[1][i]), path)
  PROVE  Follows(i, path)
<1> DEFINE paths == PathsOf(table, program[i].target)
           names == Named(journals[1][i])
           observed == Observed(paths, journals[1][i])
<1>1. i \in Ids /\ state[i] # "none" /\ journals[1][i] \in Seq(Runs)
  BY DEF SuiteInv, Verdict, Reads, Journaled
<1>2. NamesOf(paths) \subseteq Steps
  BY NamesAreSteps DEF SuiteInv, TypeOK
<1>3. names \in Seq(Runs)
  BY <1>1, NamedIsTyped
<1>4. observed = [k \in DOMAIN names |-> Pattern(paths, names[k].text)]
  BY DEF Observed
<1> HIDE DEF paths, names, observed
<1>5. ASSUME NEW k \in 1 .. Len(names)
      PROVE  Pattern(paths, names[k].text) \in Steps /\ Fits(Pattern(paths, names[k].text), names[k].text)
  <2>1. names[k] \in Runs
    BY <1>3
  <2>2. names[k].text \in Seq(Symbols)
    BY <2>1 DEF Runs
  <2> QED BY <1>2, <2>2, PatternFits
<1>6. observed \in Seq(Steps) /\ Len(observed) = Len(names) /\ Len(names) \in Nat
  BY <1>3, <1>4, <1>5
<1>7. /\ Len(observed) <= Len(path)
      /\ SubSeq(observed, 1, Len(observed)) = SubSeq(path, 1, Len(observed))
  BY DEF IsPrefix, observed, paths
<1>8. ASSUME NEW k \in 1 .. Len(names) PROVE Fits(path[k], names[k].text)
  <2>1. Fits(observed[k], names[k].text)
    BY <1>3, <1>4, <1>5
  <2>2. SubSeq(observed, 1, Len(observed))[k] = observed[k] /\ SubSeq(path, 1, Len(observed))[k] = path[k]
    BY <1>6, <1>7
  <2> QED BY <1>7, <2>1, <2>2
<1>9. ASSUME Plain(i) PROVE IsPrefix(Took(i), path)
  BY <1>9, PlainIsTaken
<1> QED BY <1>3, <1>5, <1>6, <1>7, <1>8, <1>9 DEF Follows, names

(* Whatever happens between the reads of a suite that passes, for any      *)
(* number of invocations, any table and any values of parameters: each     *)
(* that it counted had taken the first steps of a path, and each path was  *)
(* taken to its end, but for names that are another's by the documentation.*)
THEOREM PassesAreEarned == Spec => []PassIsEarned
<1>1. SuiteInv => PassIsEarned
  <2> SUFFICES ASSUME SuiteInv, Passed PROVE PassIsEarned
    BY DEF PassIsEarned
  <2>0. /\ phase = "checked" /\ violations.missing = {} /\ violations.untabled = {}
        /\ violations.unexplained = {} /\ violations.unwalked = {}
    BY DEF Passed, NoViolations
  <2>1. \A i \in DOMAIN invocations[1] : journals[1][i] # None
    BY <2>0, VerdictIs
  <2>2. \A i \in DOMAIN invocations[1] : program[i].target \in Tabled
    BY <2>0, VerdictIs
  <2>3. \A t : PathsOf(table, t) \subseteq Seq(Steps)
    BY NamesAreSteps DEF SuiteInv, TypeOK
  <2>4. ASSUME NEW i \in DOMAIN invocations[1]
        PROVE  \E path \in PathsOf(table, program[i].target) : Follows(i, path)
    <3>1. PICK path \in PathsOf(table, program[i].target) :
            IsPrefix(Observed(PathsOf(table, program[i].target), journals[1][i]), path)
      BY <2>0, <2>1, <2>2, VerdictIs
    <3>2. Follows(i, path)
      BY <2>0, <2>1, <2>3, <3>1, ReadIsFollowed
    <3> QED BY <3>2
  <2>5. ASSUME NEW row \in table
        PROVE  \E i \in DOMAIN invocations[1] :
                 /\ program[i].target = row.target
                 /\ Follows(i, row.path) /\ Len(Named(journals[1][i])) = Len(row.path)
                 /\ Plain(i) => Took(i) = row.path
    <3>1. PICK i \in DOMAIN invocations[1] :
            /\ program[i].target = row.target
            /\ Walks(Observed(PathsOf(table, program[i].target), journals[1][i]), row.path)
      BY <2>0, VerdictIs
    <3>2. row.path \in Seq(Steps)
      BY SuiteAssumption DEF SuiteInv, TypeOK
    <3>3. Follows(i, row.path)
      BY <2>0, <2>1, <3>1, <3>2, ReadIsFollowed DEF Walks
    <3>4. Len(Named(journals[1][i])) = Len(row.path)
      <4>1. Named(journals[1][i]) \in Seq(Runs)
        BY <2>0, <2>1, NamedIsTyped DEF SuiteInv, Verdict, Reads, Journaled
      <4>2. Len(Observed(PathsOf(table, program[i].target), journals[1][i])) = Len(Named(journals[1][i]))
        BY <4>1 DEF Observed
      <4> QED BY <3>1, <4>2 DEF Walks
    <3>5. ASSUME Plain(i) PROVE Took(i) = row.path
      <4>1. /\ Observed(PathsOf(table, program[i].target), journals[1][i]) = Took(i)
            /\ Took(i) \in Seq(Steps)
        BY <2>0, <2>1, <3>5, PlainIsTaken
      <4> QED BY <3>1, <3>2, <4>1, WalksIsEqual
    <3> QED BY <3>1, <3>3, <3>4, <3>5
  <2> QED BY <2>1, <2>4, <2>5 DEF PassIsEarned
<1> QED BY <1>1, SuiteInvariant, PTL

(* What a failed suite reports is so, of each kind: no path explains the   *)
(* steps, nobody took the path, nothing was retained, no row is there, or  *)
(* no deployment was.                                                      *)
THEOREM FailuresAreReal == Spec => []FailureIsReal
<1>1. SuiteInv => FailureIsReal
  <2> SUFFICES ASSUME SuiteInv PROVE FailureIsReal
    OBVIOUS
  <2>1. CASE phase # "checked"
    BY <2>1 DEF SuiteInv, Verdict, NoViolations, FailureIsReal
  <2>2. CASE phase = "checked"
    <3>0. \A i \in violations.unexplained : journals[1][i] # None
      BY <2>2, VerdictIs
    <3>1. ASSUME NEW i \in violations.unexplained, Plain(i),
                 NEW path \in PathsOf(table, program[i].target)
          PROVE  ~IsPrefix(Took(i), path)
      <4>1. /\ i \in DOMAIN invocations[1] /\ journals[1][i] # None
            /\ ~IsPrefix(Observed(PathsOf(table, program[i].target), journals[1][i]), path)
        BY <2>2, VerdictIs
      <4>2. Observed(PathsOf(table, program[i].target), journals[1][i]) = Took(i)
        BY <2>2, <3>1, <4>1, PlainIsTaken
      <4> QED BY <4>1, <4>2
    <3>2. ASSUME NEW row \in violations.unwalked, NEW i \in DOMAIN invocations[1],
                 program[i].target = row.target, Plain(i), journals[1][i] # None
          PROVE  Took(i) # row.path
      <4>1. row \in table /\ ~Walks(Observed(PathsOf(table, program[i].target), journals[1][i]), row.path)
        BY <2>2, <3>2, VerdictIs
      <4>2. /\ Observed(PathsOf(table, program[i].target), journals[1][i]) = Took(i)
            /\ Took(i) \in Seq(Steps)
        BY <2>2, <3>2, PlainIsTaken
      <4>3. row.path \in Seq(Steps)
        BY <4>1, SuiteAssumption DEF SuiteInv, TypeOK
      <4> QED BY <4>1, <4>2, <4>3, WalksIsEqual
    <3>3. ASSUME NEW i \in violations.missing PROVE taken[i] = <<>> \/ state[i] \in {"completed", "gone"}
      BY <2>2, <3>3, VerdictIs DEF SuiteInv, Verdict, Reads, Excused
    <3>4. ASSUME NEW t \in violations.untabled PROVE t \in offered /\ \A row \in table : row.target # t
      <4>1. /\ handlers[1] \subseteq offered
            /\ \A i \in DOMAIN invocations[1] : i \in Ids /\ state[i] # "none"
        BY <2>2 DEF SuiteInv, Verdict, Reads
      <4>2. \A i \in DOMAIN invocations[1] : program[i].target \in offered
        BY <4>1 DEF SuiteInv, TypeOK
      <4> QED BY <2>2, <4>1, <4>2, VerdictIs DEF Tabled
    <3>5. ASSUME NEW t \in violations.undeployed
          PROVE  t \notin violations.untabled /\ t \notin handlers[1] /\ \E row \in table : row.target = t
      BY <2>2, VerdictIs DEF Tabled
    <3> QED BY <3>0, <3>1, <3>2, <3>3, <3>4, <3>5 DEF FailureIsReal
  <2> QED BY <2>1, <2>2
<1> QED BY <1>1, SuiteInvariant, PTL
=============================================================================
