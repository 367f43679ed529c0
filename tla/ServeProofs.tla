----------------------------- MODULE ServeProofs -----------------------------
(***************************************************************************)
(* Proofs about Serve, for any configuration, any number of invocations,   *)
(* hours, starts and ticks: what is served carries what was configured and *)
(* nothing else, a greeting keeps its first reading of the clock, and a    *)
(* drain is begun exactly for a signal that could be heard.                *)
(***************************************************************************)
EXTENDS Serve, SequenceTheorems, WellFoundedInduction, TLAPS

Texts == {"morning", "afternoon", "evening", "late"}

(* An attempt, and how far it has been given what the journal holds. *)
Local == [step : 0 .. 2, hour : Hours \cup {None}, message : Texts \cup {None}]

(* The journal of an invocation: a reading of the clock, then its greeting. *)
Kept(i) ==
  /\ journal[i] \in Seq(Hours \cup Texts)
  /\ Len(journal[i]) <= 2
  /\ Len(journal[i]) >= 1 => journal[i][1] \in Hours
  /\ Len(journal[i]) = 2 => journal[i][2] = greeting(journal[i][1])

(* What an attempt has been given is what the journal holds. *)
Follows(i) ==
  /\ i \in open \/ locals[i] # None =>
       /\ locals[i] \in Local
       /\ locals[i].step > 0 => Len(journal[i]) >= 1 /\ locals[i].hour = journal[i][1]
       /\ locals[i].step = 2 => Len(journal[i]) = 2 /\ locals[i].message = journal[i][2]

Answers(i) == reply[i] # None => Len(journal[i]) = 2 /\ reply[i] = journal[i][2]

Greeted ==
  /\ locals = [i \in Invocations |-> locals[i]]
  /\ journal = [i \in Invocations |-> journal[i]]
  /\ reply = [i \in Invocations |-> reply[i]]
  /\ \A i \in Invocations : Kept(i) /\ Follows(i) /\ Answers(i)

(* A process that serves listens for what it can hear, and one that drains *)
(* was asked to.                                                           *)
Heard ==
  /\ Serving => listens = Signals \cap hearable
  /\ phase = "draining" => asked \cap hearable # {}

-----------------------------------------------------------------------------
(* Steps that leave the journals, and what was given of them, alone. *)
LEMMA GreetedKept ==
  ASSUME Greeted, UNCHANGED <<locals, journal, reply>>, open' \subseteq open
  PROVE  Greeted'
  BY DEF Greeted, Kept, Follows, Answers

(* A step of one invocation leaves the others alone. *)
LEMMA OneGreets ==
  ASSUME Greeted, NEW i \in Invocations,
         NEW l, NEW j, NEW r,
         locals' = [locals EXCEPT ![i] = l],
         journal' = [journal EXCEPT ![i] = j],
         reply' = [reply EXCEPT ![i] = r],
         open' \subseteq open \cup {i},
         (Kept(i) /\ Follows(i) /\ Answers(i))'
  PROVE  Greeted'
<1>1. /\ locals' = [k \in Invocations |-> locals'[k]]
      /\ journal' = [k \in Invocations |-> journal'[k]]
      /\ reply' = [k \in Invocations |-> reply'[k]]
  BY DEF Greeted
<1>2. ASSUME NEW k \in Invocations, k # i PROVE (Kept(k) /\ Follows(k) /\ Answers(k))'
  <2>1. locals'[k] = locals[k] /\ journal'[k] = journal[k] /\ reply'[k] = reply[k]
    BY <1>2 DEF Greeted
  <2>2. Kept(k) /\ Follows(k) /\ Answers(k) /\ (k \in open' => k \in open)
    BY <1>2 DEF Greeted
  <2> QED BY <2>1, <2>2 DEF Kept, Follows, Answers
<1> QED BY <1>1, <1>2 DEF Greeted

LEMMA AttemptGreets ==
  ASSUME Greeted, NEW i \in Invocations, Attempt(i)
  PROVE  Greeted'
<1> DEFINE l == [step |-> 0, hour |-> None, message |-> None]
<1>1. /\ locals' = [locals EXCEPT ![i] = l] /\ locals'[i] = l
      /\ journal' = [journal EXCEPT ![i] = journal[i]] /\ journal'[i] = journal[i]
      /\ reply' = [reply EXCEPT ![i] = reply[i]] /\ reply'[i] = reply[i]
      /\ open' = open \cup {i}
  <2> l = [step |-> 0, hour |-> None, message |-> None]
    OBVIOUS
  <2> HIDE DEF l
  <2>1. locals' = [locals EXCEPT ![i] = l] /\ locals'[i] = l
    BY DEF Attempt, Greeted
  <2>2. journal' = journal /\ reply' = reply /\ open' = open \cup {i}
    BY DEF Attempt
  <2> QED BY <2>1, <2>2 DEF Greeted
<1>2. l \in Local /\ l.step = 0
  BY DEF Local
<1>3. (Kept(i) /\ Follows(i) /\ Answers(i))'
  <2> HIDE DEF l
  <2> QED BY <1>1, <1>2 DEF Greeted, Kept, Follows, Answers
<1> HIDE DEF l
<1> QED BY <1>1, <1>3, OneGreets

LEMMA NowGreets ==
  ASSUME Greeted, NEW i \in Invocations, Now(i)
  PROVE  Greeted'
<1>1. PICK hour \in Given(i, 0, Hours) :
        locals' = [locals EXCEPT ![i] = [step |-> 1, hour |-> hour, message |-> None]] /\ Journaled(i, 0, hour)
  BY DEF Now
<1> DEFINE l == [step |-> 1, hour |-> hour, message |-> None]
           j == IF 0 < Len(journal[i]) THEN journal[i] ELSE Append(journal[i], hour)
<1>2. Kept(i) /\ locals[i] \in Local /\ locals[i].step = 0 /\ i \in open
  BY DEF Now, Greeted, Follows
<1>3. /\ j \in Seq(Hours \cup Texts) /\ Len(j) >= 1 /\ Len(j) <= 2 /\ j[1] = hour
      /\ hour \in Hours /\ (Len(journal[i]) = 2 => j = journal[i]) /\ (Len(j) = 2 => j = journal[i])
  BY <1>1, <1>2 DEF Given, Kept
<1>4. /\ locals' = [locals EXCEPT ![i] = l] /\ locals'[i] = l
      /\ journal' = [journal EXCEPT ![i] = j] /\ journal'[i] = j
      /\ reply' = [reply EXCEPT ![i] = reply[i]] /\ reply'[i] = reply[i]
      /\ open' = open
  BY <1>1 DEF Journaled, Now, Greeted
<1>5. l \in Local /\ l.step = 1 /\ l.hour = j[1]
  <2>1. hour \in Hours /\ j[1] = hour
    BY <1>3
  <2> HIDE DEF j
  <2> QED BY <2>1 DEF Local
<1>6. (Kept(i) /\ Follows(i) /\ Answers(i))'
  <2> HIDE DEF l, j
  <2>1. Kept(i) /\ Answers(i)
    BY DEF Greeted
  <2>2. Kept(i)'
    BY <1>3, <1>4, <2>1 DEF Kept
  <2>3. Follows(i)'
    BY <1>3, <1>4, <1>5 DEF Follows
  <2>4. Answers(i)'
    BY <1>3, <1>4, <2>1, <2>2 DEF Answers, Kept
  <2> QED BY <2>2, <2>3, <2>4
<1> HIDE DEF l, j
<1> QED BY <1>4, <1>6, OneGreets

LEMMA GreetGreets ==
  ASSUME Greeted, NEW i \in Invocations, Greet(i)
  PROVE  Greeted'
<1>1. PICK text :
        /\ text \in Given(i, 1, {greeting(locals[i].hour)})
        /\ locals' = [locals EXCEPT ![i] = [step |-> 2, hour |-> locals[i].hour, message |-> text]]
        /\ Journaled(i, 1, text)
  BY DEF Greet
<1> DEFINE l == [step |-> 2, hour |-> locals[i].hour, message |-> text]
           j == IF 1 < Len(journal[i]) THEN journal[i] ELSE Append(journal[i], text)
<1>2. /\ Kept(i) /\ locals[i] \in Local /\ locals[i].step = 1 /\ i \in open
      /\ Len(journal[i]) >= 1 /\ locals[i].hour = journal[i][1]
  <2>1. Kept(i) /\ Follows(i) /\ locals[i].step = 1 /\ i \in open
    BY DEF Greet, Greeted
  <2> QED BY <2>1 DEF Follows
<1>3. greeting(locals[i].hour) \in Texts
  BY DEF greeting, Texts
<1>4. /\ j \in Seq(Hours \cup Texts) /\ Len(j) = 2
      /\ j[1] = journal[i][1] /\ j[1] \in Hours /\ j[2] = text
      /\ text = greeting(j[1]) /\ text \in Texts
      /\ Len(journal[i]) = 2 => j = journal[i]
  <2> DEFINE g == greeting(locals[i].hour)
  <2> HIDE DEF l
  <2>1. g \in Texts /\ g = greeting(journal[i][1])
    BY <1>2, <1>3
  <2>0. /\ journal[i] \in Seq(Hours \cup Texts)
        /\ Len(journal[i]) >= 1 /\ Len(journal[i]) <= 2
        /\ journal[i][1] \in Hours
        /\ Len(journal[i]) = 2 => journal[i][2] = greeting(journal[i][1])
    <3>1. Kept(i) /\ Len(journal[i]) >= 1
      BY <1>2
    <3> QED BY <3>1, Zenon DEF Kept
  <2>4. Len(journal[i]) = 1 \/ Len(journal[i]) = 2
    <3> DEFINE n == Len(journal[i])
    <3>1. journal[i] \in Seq(Hours \cup Texts) /\ n >= 1 /\ n <= 2
      BY <2>0
    <3>2. n \in Nat
      BY <3>1, LenProperties
    <3> HIDE DEF n
    <3>3. n = 1 \/ n = 2
      BY <3>1, <3>2
    <3> QED BY <3>3 DEF n
  <2>2. CASE 1 < Len(journal[i])
    <3>1. Len(journal[i]) = 2
      <4> DEFINE n == Len(journal[i])
      <4>1. 1 < n /\ (n = 1 \/ n = 2)
        BY <2>2, <2>4
      <4> HIDE DEF n
      <4>2. n = 2
        BY <4>1
      <4> QED BY <4>2 DEF n
    <3>3. journal[i][2] = greeting(journal[i][1])
      BY <2>0, <3>1, Zenon
    <3>2. text = journal[i][2] /\ j = journal[i]
      BY <1>1, <2>2 DEF Given
    <3> HIDE DEF g, j
    <3> QED BY <2>0, <2>1, <3>1, <3>2, <3>3
  <2>3. CASE ~(1 < Len(journal[i]))
    <3>1. Len(journal[i]) = 1
      BY <2>3, <2>4
    <3>2. text = g
      BY <1>1, <2>3 DEF Given
    <3>3. j = Append(journal[i], text)
      BY <2>3
    <3> HIDE DEF g, j
    <3> QED BY <2>0, <2>1, <3>1, <3>2, <3>3
  <2> QED BY <2>2, <2>3
<1>5. /\ locals' = [locals EXCEPT ![i] = l] /\ locals'[i] = l
      /\ journal' = [journal EXCEPT ![i] = j] /\ journal'[i] = j
      /\ reply' = [reply EXCEPT ![i] = reply[i]] /\ reply'[i] = reply[i]
      /\ open' = open
  BY <1>1 DEF Journaled, Greet, Greeted
<1>6. l \in Local /\ l.step = 2 /\ l.hour = j[1] /\ l.message = j[2]
  <2>1. /\ j[1] = locals[i].hour /\ j[1] \in Hours /\ j[2] = text /\ text \in Texts
    BY <1>2, <1>4
  <2> HIDE DEF j
  <2> QED BY <2>1 DEF Local
<1>7. (Kept(i) /\ Follows(i) /\ Answers(i))'
  <2> HIDE DEF l, j
  <2>1. Answers(i)
    BY DEF Greeted
  <2>2. Kept(i)'
    <3>1. journal'[i] = j
      BY <1>5
    <3>2. /\ j \in Seq(Hours \cup Texts) /\ Len(j) = 2 /\ j[1] \in Hours
          /\ j[2] = greeting(j[1])
      BY <1>4
    <3> QED BY <3>1, <3>2 DEF Kept
  <2>3. Follows(i)'
    BY <1>4, <1>5, <1>6 DEF Follows
  <2>4. Answers(i)'
    BY <1>4, <1>5, <2>1 DEF Answers
  <2> QED BY <2>2, <2>3, <2>4
<1> HIDE DEF l, j
<1> QED BY <1>5, <1>7, OneGreets

LEMMA ReturnGreets ==
  ASSUME Greeted, NEW i \in Invocations, Return(i)
  PROVE  Greeted'
<1> DEFINE r == locals[i].message
<1>1. /\ locals' = [locals EXCEPT ![i] = locals[i]] /\ locals'[i] = locals[i]
      /\ journal' = [journal EXCEPT ![i] = journal[i]] /\ journal'[i] = journal[i]
      /\ reply' = [reply EXCEPT ![i] = r] /\ reply'[i] = r
      /\ open' \subseteq open
  BY DEF Return, Greeted
<1>2. Kept(i) /\ Follows(i) /\ locals[i].step = 2 /\ i \in open
  BY DEF Return, Greeted
<1>3. Len(journal[i]) = 2 /\ r = journal[i][2]
  BY <1>2 DEF Follows
<1>4. (Kept(i) /\ Follows(i) /\ Answers(i))'
  <2> HIDE DEF r
  <2> QED BY <1>1, <1>2, <1>3 DEF Kept, Follows, Answers
<1> HIDE DEF r
<1> QED BY <1>1, <1>4, OneGreets

(* The journals hold what the attempts are given, in every state. *)
LEMMA GreetedStep ==
  ASSUME Greeted, [Next]_vars
  PROVE  Greeted'
<1>1. CASE Main
  BY <1>1, GreetedKept DEF Main, Bind, Build, Listen, Shutdown, Tick, Stop, work
<1>2. CASE Restart
  BY <1>2, GreetedKept DEF Restart, work
<1>3. CASE \E s \in Signals : Signal(s)
  BY <1>3, GreetedKept DEF Signal
<1>4. ASSUME NEW i \in Invocations, Attempt(i) \/ Now(i) \/ Greet(i) \/ Return(i) \/ Lose(i)
      PROVE  Greeted'
  <2>1. CASE Lose(i)
    BY <2>1, GreetedKept DEF Lose
  <2> QED BY <1>4, <2>1, AttemptGreets, NowGreets, GreetGreets, ReturnGreets
<1>5. CASE UNCHANGED vars
  BY <1>5, GreetedKept DEF vars, work
<1> QED BY <1>1, <1>2, <1>3, <1>4, <1>5 DEF Next

LEMMA GreetedInit == Init => Greeted
<1> SUFFICES ASSUME Init PROVE Greeted
  OBVIOUS
<1>1. ASSUME NEW i \in Invocations PROVE Kept(i) /\ Follows(i) /\ Answers(i)
  <2>1. i \notin open /\ locals[i] = None /\ journal[i] = <<>> /\ reply[i] = None
    BY DEF Init
  <2> QED BY <2>1 DEF Kept, Follows, Answers
<1> QED BY <1>1 DEF Init, Greeted

(* A greeting keeps its first reading of the clock: whatever the attempts, *)
(* the processes they run in and the hours they see, what an attempt was   *)
(* given and what is replied are the journaled hour and its greeting.      *)
THEOREM GreetsFirst == Spec => []GreetsByFirstReading
<1>1. Greeted => GreetsByFirstReading
  BY DEF Greeted, Kept, Follows, Answers, Local, GreetsByFirstReading
<1> QED BY <1>1, GreetedInit, GreetedStep, PTL DEF Spec

-----------------------------------------------------------------------------
LEMMA HeardInit == Init => Heard
  BY DEF Init, Heard, Serving

LEMMA HeardStep ==
  ASSUME Heard, [Next]_vars
  PROVE  Heard'
<1>1. CASE Bind \/ Build
  BY <1>1 DEF Bind, Build, Heard, Serving
<1>2. CASE Listen
  BY <1>2 DEF Listen, Heard, Serving
<1>3. CASE Shutdown
  BY <1>3 DEF Shutdown, Resolves, Heard, Serving
<1>4. CASE Tick \/ Stop
  BY <1>4 DEF Tick, Stop, Heard, Serving
<1>5. CASE Restart
  BY <1>5 DEF Restart, Heard, Serving
<1>6. ASSUME NEW s \in Signals, Signal(s) PROVE Heard'
  BY <1>6 DEF Signal, Heard, Serving
<1>7. CASE \E i \in Invocations : Attempt(i) \/ Now(i) \/ Greet(i) \/ Return(i) \/ Lose(i)
  <2> UNCHANGED process
    BY <1>7 DEF Attempt, Now, Greet, Return, Lose
  <2> QED BY DEF process, Heard, Serving
<1>8. CASE UNCHANGED vars
  BY <1>8 DEF vars, process, Heard, Serving
<1> QED BY <1>1, <1>2, <1>3, <1>4, <1>5, <1>6, <1>7, <1>8 DEF Next, Main

(* A drain begins only for a signal that could be heard, and no signal     *)
(* that could be heard kills the process mid-step, for any subset of the   *)
(* signals and any number of starts.                                       *)
THEOREM DrainsWhenAsked == Spec => DrainsAsAsked
<1> DEFINE A == /\ Serving /\ phase' \in {"draining", "stopped"} => asked \cap hearable # {}
                /\ Serving /\ phase' = "killed" => asked' \ hearable # {}
<1>1. ASSUME Heard, [Next]_vars PROVE [A]_vars
  <2>1. CASE Bind \/ Build \/ Listen
    BY <2>1 DEF Bind, Build, Listen, Serving
  <2>2. CASE Shutdown
    BY <1>1, <2>2 DEF Shutdown, Resolves, Heard, Serving
  <2>3. CASE Tick \/ Stop
    BY <1>1, <2>3 DEF Tick, Stop, Heard, Serving
  <2>4. CASE Restart
    BY <2>4 DEF Restart, Ended, Serving
  <2>5. ASSUME NEW s \in Signals, Signal(s) PROVE A
    BY <1>1, <2>5 DEF Signal, Heard, Serving
  <2>6. CASE \E i \in Invocations : Attempt(i) \/ Now(i) \/ Greet(i) \/ Return(i) \/ Lose(i)
    <3> UNCHANGED process
      BY <2>6 DEF Attempt, Now, Greet, Return, Lose
    <3> QED BY <1>1 DEF process, Heard, Serving
  <2> QED BY <1>1, <2>1, <2>2, <2>3, <2>4, <2>5, <2>6 DEF Next, Main
<1> QED BY <1>1, HeardInit, HeardStep, PTL DEF Spec, DrainsAsAsked
-----------------------------------------------------------------------------
(* The keys that are trusted, and the policy that is applied.              *)

(* Induction, of a set in place of a predicate: there is no least exception. *)
LEMMA SetInduction ==
  ASSUME NEW S, 0 \in S, \A n \in Nat : n \in S => n + 1 \in S
  PROVE  Nat \subseteq S
<1> DEFINE T == Nat \ S
<1> SUFFICES ASSUME T # {} PROVE FALSE
  OBVIOUS
<1>1. \A x, y \in Nat : x < y => <<x, y>> \in OpToRel(<, Nat)
  BY DEF OpToRel
<1>2. \E x \in T : \A y \in T : ~(<<y, x>> \in OpToRel(<, Nat))
  <2>1. T \subseteq Nat
    OBVIOUS
  <2> HIDE DEF T
  <2> QED BY <2>1, NatLessThanWellFounded, WFMin
<1>3. PICK x \in T : \A y \in T : ~(y < x)
  BY <1>1, <1>2
<1>4. x - 1 \in T /\ x - 1 < x
  BY <1>3
<1> QED BY <1>3, <1>4
-----------------------------------------------------------------------------
(* The parts of a text: iter is those of its characters at s.              *)
Unrolls(iter, n, base, text) ==
  iter = [s \in SUBSET (1 .. n) |->
            IF s = {} THEN base ELSE Grow(iter[s \ {Max(s)}], text[Max(s)])]

(* Before the first of a sequence there is none. *)
LEMMA NoneYet == \A s \in SUBSET (1 .. 0) : s = {}
  OBVIOUS

(* The largest member of a set is the last it reaches. *)
LEMMA MaxIsLast ==
  ASSUME NEW n \in Nat, NEW s \in SUBSET (1 .. (n + 1)), n + 1 \in s
  PROVE  Max(s) = n + 1
<1>1. \E x \in s : \A y \in s : x >= y
  OBVIOUS
<1>2. Max(s) \in s /\ \A y \in s : Max(s) >= y
  BY <1>1 DEF Max
<1>3. Max(s) \in 1 .. (n + 1) /\ Max(s) >= n + 1
  BY <1>2
<1> QED BY <1>3

(* What such a function is, at each set. *)
LEMMA UnrollsAt ==
  ASSUME NEW n \in Nat, NEW iter, NEW base, NEW text, Unrolls(iter, n, base, text)
  PROVE  \A s \in SUBSET (1 .. n) :
           /\ s = {} => iter[s] = base
           /\ s # {} => iter[s] = Grow(iter[s \ {Max(s)}], text[Max(s)])
<1> DEFINE step(t) == IF t = {} THEN base ELSE Grow(iter[t \ {Max(t)}], text[Max(t)])
<1>1. iter = [t \in SUBSET (1 .. n) |-> step(t)]
  BY DEF Unrolls
<1> HIDE DEF step
<1>2. \A s \in SUBSET (1 .. n) : iter[s] = step(s)
  BY <1>1
<1> QED BY <1>2 DEF step

(* There is such a function, for a text of any length. *)
LEMMA FoldExists ==
  ASSUME NEW base, NEW text
  PROVE  \A n \in Nat : \E iter : Unrolls(iter, n, base, text)
<1> DEFINE S == {n \in Nat : \E iter : Unrolls(iter, n, base, text)}
<1>1. 0 \in S
  <2> DEFINE iter == [s \in SUBSET (1 .. 0) |-> base]
  <2>1. \A s \in SUBSET (1 .. 0) : s = {}
    BY NoneYet
  <2> DEFINE same == [s \in SUBSET (1 .. 0) |->
                        IF s = {} THEN base ELSE Grow(iter[s \ {Max(s)}], text[Max(s)])]
  <2>2. iter = same
    BY <2>1
  <2> HIDE DEF iter
  <2>3. Unrolls(iter, 0, base, text)
    BY <2>2, Zenon DEF Unrolls
  <2> QED BY <2>3
<1>2. ASSUME NEW n \in Nat, n \in S PROVE n + 1 \in S
  <2>1. PICK iter : Unrolls(iter, n, base, text)
    BY <1>2
  <2>0. \A s \in SUBSET (1 .. n) :
          /\ s = {} => iter[s] = base
          /\ s # {} => iter[s] = Grow(iter[s \ {Max(s)}], text[Max(s)])
    <3> HIDE DEF S
    <3> QED BY <2>1, UnrollsAt
  <2> DEFINE longer == [s \in SUBSET (1 .. (n + 1)) |->
                          IF n + 1 \in s THEN Grow(iter[s \ {n + 1}], text[n + 1]) ELSE iter[s]]
  <2>2. ASSUME NEW s \in SUBSET (1 .. (n + 1)), n + 1 \in s
        PROVE  longer[s] = Grow(longer[s \ {Max(s)}], text[Max(s)]) /\ s # {}
    <3>1. Max(s) = n + 1
      BY <2>2, MaxIsLast
    <3>2. longer[s \ {n + 1}] = iter[s \ {n + 1}]
      OBVIOUS
    <3> QED BY <2>2, <3>1, <3>2
  <2>3. ASSUME NEW s \in SUBSET (1 .. (n + 1)), n + 1 \notin s
        PROVE  longer[s] = IF s = {} THEN base ELSE Grow(longer[s \ {Max(s)}], text[Max(s)])
    <3>1. s \in SUBSET (1 .. n)
      <4>1. \A x \in s : x \in 1 .. (n + 1) /\ x # n + 1
        BY <2>3
      <4>2. \A x \in s : x \in 1 .. n
        BY <4>1
      <4> QED BY <4>2
    <3>0. s \ {Max(s)} \in SUBSET (1 .. n) /\ n + 1 \notin s \ {Max(s)}
      BY <2>3, <3>1
    <3>2. longer[s] = iter[s] /\ longer[s \ {Max(s)}] = iter[s \ {Max(s)}]
      <4>1. s \ {Max(s)} \in SUBSET (1 .. (n + 1))
        OBVIOUS
      <4> QED BY <2>3, <3>0, <4>1
    <3>3. /\ s = {} => iter[s] = base
          /\ s # {} => iter[s] = Grow(iter[s \ {Max(s)}], text[Max(s)])
      <4> HIDE DEF longer, S
      <4> QED BY <2>0, <3>1
    <3> QED BY <3>2, <3>3
  <2>4. Unrolls(longer, n + 1, base, text)
    <3>1. \A s \in SUBSET (1 .. (n + 1)) :
            longer[s] = IF s = {} THEN base ELSE Grow(longer[s \ {Max(s)}], text[Max(s)])
      BY <2>2, <2>3
    <3> DEFINE same == [s \in SUBSET (1 .. (n + 1)) |->
                          IF s = {} THEN base ELSE Grow(longer[s \ {Max(s)}], text[Max(s)])]
    <3>2. longer = [s \in SUBSET (1 .. (n + 1)) |-> longer[s]]
      OBVIOUS
    <3> HIDE DEF longer
    <3>3. longer = same
      BY <3>1, <3>2
    <3> QED BY <3>3 DEF Unrolls
  <2> HIDE DEF longer
  <2> QED BY <2>4
<1> HIDE DEF S
<1>3. Nat \subseteq S
  BY <1>1, <1>2, SetInduction
<1> QED BY <1>3 DEF S

(* The fold is its value, after the last character. *)
LEMMA FoldUnrolls ==
  ASSUME NEW base, NEW text, NEW n \in Nat, DOMAIN text = 1 .. n
  PROVE  \E iter : Unrolls(iter, n, base, text) /\ FoldLeft(Grow, base, text) = iter[1 .. n]
<1> DEFINE iter == CHOOSE f : Unrolls(f, n, base, text)
<1>1. \E f : Unrolls(f, n, base, text)
  BY FoldExists
<1>2. Unrolls(iter, n, base, text)
  BY <1>1
<1>3. FoldLeft(Grow, base, text) = iter[1 .. n]
  BY DEF FoldLeft, MapThenFoldSet, Unrolls
<1> HIDE DEF iter
<1> QED BY <1>2, <1>3

(* The parts, one character after the other. *)
GrowsInTurn(after, n, base, text) ==
  after[0] = base /\ \A m \in 0 .. (n - 1) : after[m + 1] = Grow(after[m], text[m + 1])

(* A text is split one character after the other, from what there was at first. *)
LEMMA SplitInTurn ==
  ASSUME NEW base, NEW text, NEW n \in Nat, DOMAIN text = 1 .. n
  PROVE  \E after : GrowsInTurn(after, n, base, text) /\ FoldLeft(Grow, base, text) = after[n]
<1>1. PICK iter : Unrolls(iter, n, base, text) /\ FoldLeft(Grow, base, text) = iter[1 .. n]
  BY FoldUnrolls
<1>2. \A s \in SUBSET (1 .. n) :
        /\ s = {} => iter[s] = base
        /\ s # {} => iter[s] = Grow(iter[s \ {Max(s)}], text[Max(s)])
  BY <1>1, UnrollsAt
<1> DEFINE after == [m \in 0 .. n |-> iter[1 .. m]]
<1>3. after[0] = base
  <2>1. 1 .. 0 = {}
    OBVIOUS
  <2>2. {} \in SUBSET (1 .. n)
    OBVIOUS
  <2>3. iter[{}] = base
    BY <1>2, <2>2
  <2> QED BY <2>1, <2>3
<1>4. ASSUME NEW m \in 0 .. (n - 1) PROVE after[m + 1] = Grow(after[m], text[m + 1])
  <2> DEFINE s == 1 .. (m + 1)
  <2>1. \A x \in s : x \in 1 .. n
    OBVIOUS
  <2>2. s \in SUBSET (1 .. n)
    BY <2>1
  <2>3. m + 1 \in s /\ s \in SUBSET (1 .. (m + 1)) /\ m \in Nat
    OBVIOUS
  <2>4. Max(s) = m + 1
    BY <2>3, MaxIsLast
  <2>5. s \ {m + 1} = 1 .. m
    OBVIOUS
  <2>6. iter[s] = Grow(iter[s \ {Max(s)}], text[Max(s)])
    BY <1>2, <2>2, <2>3
  <2>7. m \in 0 .. n /\ m + 1 \in 0 .. n
    OBVIOUS
  <2> QED BY <2>4, <2>5, <2>6, <2>7
<1> HIDE DEF after
<1>5. GrowsInTurn(after, n, base, text)
  BY <1>3, <1>4 DEF GrowsInTurn
<1>6. after[n] = iter[1 .. n]
  BY DEF after
<1> QED BY <1>1, <1>5, <1>6
-----------------------------------------------------------------------------
(* The characters from x to y are of one part. *)
Unbroken(text, x, y) == \A k \in x .. y : text[k] \notin Delimiters

(* The words of a text that are over before its character m + 1. *)
Words(text, m) ==
  {w \in (1 .. m) \X (1 .. m) :
     /\ w[1] <= w[2] /\ w[2] < m /\ Unbroken(text, w[1], w[2])
     /\ w[1] > 1 => text[w[1] - 1] \in Delimiters
     /\ text[w[2] + 1] \in Delimiters}

(* What they are. *)
Spelt(text, words) == {SubSeq(text, w[1], w[2]) : w \in words}

(* The last part began at a. *)
Begun(text, m, a) ==
  a \in 1 .. (m + 1) /\ Unbroken(text, a, m) /\ (a > 1 => text[a - 1] \in Delimiters)

(* All parts but the last are the words that are over. *)
Closed(text, m, parts) ==
  {parts[k] : k \in 1 .. (Len(parts) - 1)} \ {<<>>} = Spelt(text, Words(text, m))

Cut(text, m, parts) ==
  /\ parts \in Seq(Seq(ToSet(text))) /\ Len(parts) > 0
  /\ Closed(text, m, parts)
  /\ \E a : Begun(text, m, a) /\ parts[Len(parts)] = SubSeq(text, a, m)

(* The words, and one more. *)
OneMore(words, a, m, more) == more = words \cup {<<a, m>>}

(* It is spelt beside them. *)
LEMMA OneMoreSpelt ==
  ASSUME NEW s, NEW few, NEW more, NEW x, NEW y, OneMore(few, x, y, more)
  PROVE  Spelt(s, more) = Spelt(s, few) \cup {SubSeq(s, x, y)}
<1>1. <<x, y>>[1] = x /\ <<x, y>>[2] = y
  OBVIOUS
<1>2. \A w \in more : w \in few \/ SubSeq(s, w[1], w[2]) = SubSeq(s, x, y)
  BY <1>1 DEF OneMore
<1>3. \E w \in more : SubSeq(s, w[1], w[2]) = SubSeq(s, x, y)
  BY <1>1 DEF OneMore
<1>4. \A w \in few : w \in more
  BY DEF OneMore
<1> QED BY <1>2, <1>3, <1>4 DEF Spelt

(* Nothing of a text is over before a character that is no delimiter. *)
LEMMA WordsGoOn ==
  ASSUME NEW text, NEW m \in Nat, text[m + 1] \notin Delimiters
  PROVE  Words(text, m + 1) = Words(text, m)
  BY DEF Words, Unbroken

(* A delimiter ends the word that the last part is, if it has begun. *)
LEMMA WordsEnd ==
  ASSUME NEW text, NEW m \in Nat, NEW a, Begun(text, m, a), text[m + 1] \in Delimiters
  PROVE  Words(text, m + 1) = Words(text, m) \cup (IF a <= m THEN {<<a, m>>} ELSE {})
<1>1. ASSUME NEW w \in Words(text, m + 1), w \notin Words(text, m) PROVE a <= m /\ w = <<a, m>>
  <2>0. /\ w = <<w[1], w[2]>> /\ w[1] \in 1 .. (m + 1) /\ w[2] \in 1 .. (m + 1) /\ w[1] <= w[2] /\ w[2] < m + 1
        /\ Unbroken(text, w[1], w[2]) /\ (w[1] > 1 => text[w[1] - 1] \in Delimiters)
        /\ text[w[2] + 1] \in Delimiters
    BY <1>1 DEF Words
  <2>1. w[2] = m
    BY <1>1, <2>0 DEF Words
  <2>2. w[1] <= a
    <3> SUFFICES ASSUME w[1] > a PROVE FALSE
      BY <2>0 DEF Begun
    <3> QED BY <2>0, <2>1 DEF Begun, Unbroken
  <2>3. w[1] >= a
    <3> SUFFICES ASSUME w[1] < a PROVE FALSE
      BY <2>0 DEF Begun
    <3> QED BY <2>0, <2>1 DEF Begun, Unbroken
  <2> QED BY <2>0, <2>1, <2>2, <2>3 DEF Begun
<1>2. Words(text, m) \subseteq Words(text, m + 1)
  BY DEF Words
<1>3. a <= m => <<a, m>> \in Words(text, m + 1)
  BY DEF Words, Begun
<1> QED BY <1>1, <1>2, <1>3

(* One more character of the last part. *)
LEMMA PartGoesOn ==
  ASSUME NEW C, NEW text \in Seq(C), NEW m \in 0 .. (Len(text) - 1), NEW a \in 1 .. (m + 1)
  PROVE  /\ SubSeq(text, a, m) \in Seq(C) /\ SubSeq(text, a, m + 1) \in Seq(C)
         /\ Append(SubSeq(text, a, m), text[m + 1]) = SubSeq(text, a, m + 1)
         /\ a <= m => SubSeq(text, a, m) # <<>>
         /\ ~(a <= m) => SubSeq(text, a, m) = <<>>
<1>0. /\ Len(text) \in Nat /\ m \in Nat /\ a \in Nat /\ a \in 1 .. Len(text) /\ m + 1 \in a .. Len(text)
      /\ \A k \in 1 .. Len(text) : text[k] \in C
  OBVIOUS
<1>1. /\ SubSeq(text, a, m) \in Seq(C)
      /\ Len(SubSeq(text, a, m)) = IF a <= m THEN m - a + 1 ELSE 0
  <2> \A k \in a .. m : text[k] \in C
    BY <1>0
  <2> QED BY <1>0, SubSeqProperties
<1>2. SubSeq(text, a, m + 1) = SubSeq(text, a, m + 1 - 1) \o <<text[m + 1]>>
  BY <1>0, SubSeqRecursiveSecond
<1>3. m + 1 - 1 = m
  BY <1>0
<1>4. Append(SubSeq(text, a, m), text[m + 1]) = SubSeq(text, a, m) \o <<text[m + 1]>>
  BY <1>0, <1>1, AppendIsConcat
<1>5. Append(SubSeq(text, a, m), text[m + 1]) \in Seq(C)
  BY <1>0, <1>1, AppendProperties
<1>6. Append(SubSeq(text, a, m), text[m + 1]) = SubSeq(text, a, m + 1)
  BY <1>2, <1>3, <1>4
<1> DEFINE part == SubSeq(text, a, m)
<1>7. part \in Seq(C) /\ Len(part) = IF a <= m THEN m - a + 1 ELSE 0
  BY <1>1
<1> HIDE DEF part
<1>8. (a <= m => part # <<>>) /\ (~(a <= m) => part = <<>>)
  BY <1>0, <1>7
<1> QED BY <1>1, <1>5, <1>6, <1>8 DEF part

(* One more character. *)
LEMMA GrowCuts ==
  ASSUME NEW text, text \in Seq(ToSet(text)), NEW m \in 0 .. (Len(text) - 1), NEW parts, Cut(text, m, parts)
  PROVE  Cut(text, m + 1, Grow(parts, text[m + 1]))
<1> DEFINE C == ToSet(text)
           c == text[m + 1]
           n == Len(parts)
<1>0. /\ parts \in Seq(Seq(C)) /\ n \in Nat /\ n > 0 /\ m \in Nat /\ Closed(text, m, parts)
  BY DEF Cut
<1>1. PICK a : Begun(text, m, a) /\ parts[n] = SubSeq(text, a, m)
  BY DEF Cut
<1> DEFINE last == SubSeq(text, a, m)
           longer == SubSeq(text, a, m + 1)
<1>2. /\ last \in Seq(C) /\ longer \in Seq(C) /\ Append(last, c) = longer
      /\ a <= m => last # <<>>
      /\ ~(a <= m) => last = <<>>
  <2> a \in 1 .. (m + 1)
    BY <1>1 DEF Begun
  <2> HIDE DEF C
  <2> text \in Seq(C)
    BY DEF C
  <2> QED BY PartGoesOn
<1>3. /\ parts[n] = last /\ \A k \in 1 .. n : parts[k] \in Seq(C)
      /\ {parts[k] : k \in 1 .. (n - 1)} \ {<<>>} = Spelt(text, Words(text, m))
  BY <1>0, <1>1 DEF Closed
<1>4. CASE c \in Delimiters
  <2> DEFINE more == Append(parts, <<>>)
             over == {parts[k] : k \in 1 .. (n - 1)}
  <2>1. Grow(parts, c) = more
    BY <1>4 DEF Grow
  <2>2. /\ more \in Seq(Seq(C)) /\ Len(more) = n + 1 /\ more[n + 1] = <<>>
        /\ \A k \in 1 .. n : more[k] = parts[k]
    <3> <<>> \in Seq(C)
      OBVIOUS
    <3> HIDE DEF C
    <3> QED BY <1>0, AppendProperties
  <2>3. {more[k] : k \in 1 .. (Len(more) - 1)} = over \cup {last}
    <3> HIDE DEF more, n, last, C
    <3>1. Len(more) - 1 = n /\ 1 .. n = (1 .. (n - 1)) \cup {n}
      BY <1>0, <2>2
    <3>2. \A k \in 1 .. n : more[k] \in over \cup {last}
      BY <1>3, <2>2, <3>1
    <3>3. \A x \in over \cup {last} : \E k \in 1 .. n : x = more[k]
      BY <1>0, <1>3, <2>2, <3>1
    <3> HIDE DEF over
    <3> QED BY <3>1, <3>2, <3>3
  <2>4. Words(text, m + 1) = Words(text, m) \cup (IF a <= m THEN {<<a, m>>} ELSE {})
    BY <1>0, <1>1, <1>4, WordsEnd
  <2>5. Spelt(text, Words(text, m + 1)) = Spelt(text, Words(text, m)) \cup (IF a <= m THEN {last} ELSE {})
    <3>1. a <= m => Words(text, m + 1) = Words(text, m) \cup {<<a, m>>}
      BY <2>4
    <3>2. ~(a <= m) => Words(text, m + 1) = Words(text, m)
      BY <2>4
    <3>3. a <= m => Spelt(text, Words(text, m + 1)) = Spelt(text, Words(text, m)) \cup {last}
      <4>1. a <= m => OneMore(Words(text, m), a, m, Words(text, m + 1))
        BY <3>1 DEF OneMore
      <4> QED BY <4>1, OneMoreSpelt
    <3> HIDE DEF last
    <3> QED BY <3>2, <3>3
  <2>6. (over \cup {last}) \ {<<>>} = Spelt(text, Words(text, m + 1))
    <3> over \ {<<>>} = Spelt(text, Words(text, m))
      BY <1>3
    <3> HIDE DEF over, last
    <3> QED BY <1>2, <2>5
  <2>7. Closed(text, m + 1, more)
    BY <2>3, <2>6 DEF Closed
  <2>8. Begun(text, m + 1, m + 2)
    BY <1>0, <1>4 DEF Begun, Unbroken
  <2>9. SubSeq(text, m + 2, m + 1) = <<>>
    BY <1>0, SubSeqEmpty
  <2> HIDE DEF more, n
  <2>10. more[Len(more)] = SubSeq(text, m + 2, m + 1) /\ Len(more) > 0
    BY <1>0, <2>2, <2>9
  <2> QED BY <2>1, <2>2, <2>7, <2>8, <2>10 DEF Cut
<1>5. CASE c \notin Delimiters
  <2> DEFINE more == [parts EXCEPT ![n] = longer]
  <2>1. Grow(parts, c) = more
    BY <1>1, <1>2, <1>5 DEF Grow
  <2>2. /\ more \in Seq(Seq(C)) /\ Len(more) = n
        /\ \A k \in 1 .. n : more[k] = IF k = n THEN longer ELSE parts[k]
    <3> DEFINE T == Seq(C)
    <3>1. n \in 1 .. Len(parts) /\ n = Len(parts)
      BY <1>0 DEF n
    <3>2. parts \in Seq(T) /\ longer \in T
      BY <1>0, <1>2
    <3> HIDE DEF longer, C, n, T
    <3>3. more \in Seq(T) /\ Len(more) = Len(parts)
      BY <3>1, <3>2, ExceptSeq
    <3>4. \A k \in 1 .. Len(parts) : more[k] = IF k = n THEN longer ELSE parts[k]
      BY <3>1, <3>2, ExceptSeq
    <3> QED BY <3>1, <3>3, <3>4 DEF T
  <2> HIDE DEF more, n
  <2>3. {more[k] : k \in 1 .. (Len(more) - 1)} = {parts[k] : k \in 1 .. (n - 1)}
    BY <1>0, <2>2
  <2>4. Words(text, m + 1) = Words(text, m)
    BY <1>0, <1>5, WordsGoOn
  <2>5. Closed(text, m + 1, more)
    BY <1>3, <2>3, <2>4 DEF Closed
  <2>6. Begun(text, m + 1, a)
    BY <1>0, <1>1, <1>5 DEF Begun, Unbroken
  <2>7. more[Len(more)] = SubSeq(text, a, m + 1) /\ Len(more) > 0
    BY <1>0, <2>2
  <2> QED BY <2>1, <2>2, <2>5, <2>6, <2>7 DEF Cut
<1> QED BY <1>4, <1>5

(* Every text is split so. *)
LEMMA SplitCuts ==
  ASSUME NEW text, text \in Seq(ToSet(text))
  PROVE  Cut(text, Len(text), FoldLeft(Grow, <<<<>>>>, text))
<1> DEFINE n == Len(text)
           begin == <<<<>>>>
<1>0. n \in Nat /\ DOMAIN text = 1 .. n
  OBVIOUS
<1>1. PICK after : GrowsInTurn(after, n, begin, text) /\ FoldLeft(Grow, begin, text) = after[n]
  <2> HIDE DEF n, begin
  <2> QED BY <1>0, SplitInTurn
<1> DEFINE S == {m \in Nat : m <= n => Cut(text, m, after[m])}
<1>2. 0 \in S
  <2>1. after[0] = <<<<>>>>
    BY <1>1 DEF GrowsInTurn
  <2>2. <<<<>>>> \in Seq(Seq(ToSet(text))) /\ Len(<<<<>>>>) = 1 /\ <<<<>>>>[1] = <<>>
    OBVIOUS
  <2>3. Words(text, 0) = {}
    BY DEF Words
  <2>4. Closed(text, 0, <<<<>>>>)
    <3>1. 1 .. (Len(<<<<>>>>) - 1) = {}
      BY <2>2
    <3> QED BY <2>3, <3>1 DEF Closed, Spelt
  <2>5. Begun(text, 0, 1) /\ SubSeq(text, 1, 0) = <<>>
    BY SubSeqEmpty DEF Begun, Unbroken
  <2>6. Cut(text, 0, <<<<>>>>)
    BY <2>2, <2>4, <2>5 DEF Cut
  <2> QED BY <2>1, <2>6
<1>3. ASSUME NEW m \in Nat, m \in S PROVE m + 1 \in S
  <2> SUFFICES ASSUME m + 1 <= n PROVE Cut(text, m + 1, after[m + 1])
    OBVIOUS
  <2>1. m \in 0 .. (n - 1) /\ Cut(text, m, after[m])
    BY <1>0, <1>3
  <2>2. after[m + 1] = Grow(after[m], text[m + 1])
    BY <1>1, <2>1 DEF GrowsInTurn
  <2> HIDE DEF S, begin
  <2> QED BY <2>1, <2>2, GrowCuts
<1>4. n \in S
  <2> HIDE DEF S, n, begin
  <2> QED BY <1>0, <1>2, <1>3, SetInduction
<1> QED BY <1>0, <1>1, <1>4

(* All words of a text of m characters. *)
Apart(text, m) ==
  {w \in (1 .. m) \X (1 .. m) :
     /\ w[1] <= w[2] /\ Unbroken(text, w[1], w[2])
     /\ w[1] > 1 => text[w[1] - 1] \in Delimiters
     /\ w[2] < m => text[w[2] + 1] \in Delimiters}

(* They are its parts, the empty ones aside. *)
LEMMA PartsAreWords ==
  ASSUME NEW text, NEW m, text \in Seq(ToSet(text)), m = Len(text),
         NEW parts, Cut(text, m, parts)
  PROVE  ToSet(parts) \ {<<>>} = Spelt(text, Apart(text, m))
<1>0. DOMAIN text = 1 .. m /\ m \in Nat
  OBVIOUS
<1>1. PICK a : Begun(text, m, a) /\ parts[Len(parts)] = SubSeq(text, a, m)
  BY DEF Cut
<1>2. Apart(text, m) = Words(text, m) \cup (IF a <= m THEN {<<a, m>>} ELSE {})
  <2>1. ASSUME NEW w \in Apart(text, m), w \notin Words(text, m) PROVE a <= m /\ w = <<a, m>>
    <3>0. /\ w = <<w[1], w[2]>> /\ w[1] \in 1 .. m /\ w[2] \in 1 .. m /\ w[1] <= w[2]
          /\ Unbroken(text, w[1], w[2]) /\ (w[1] > 1 => text[w[1] - 1] \in Delimiters)
          /\ w[2] < m => text[w[2] + 1] \in Delimiters
      BY <1>0, <2>1 DEF Apart
    <3>1. w[2] = m
      <4> SUFFICES ASSUME w[2] < m PROVE FALSE
        BY <1>0, <3>0
      <4>1. w \in (1 .. m) \X (1 .. m)
        BY <3>0
      <4> QED BY <2>1, <3>0, <4>1 DEF Words
    <3>2. w[1] <= a
      <4> SUFFICES ASSUME w[1] > a PROVE FALSE
        BY <1>0, <1>1, <3>0 DEF Begun
      <4> QED BY <1>0, <1>1, <3>0, <3>1 DEF Begun, Unbroken
    <3>3. w[1] >= a
      <4> SUFFICES ASSUME w[1] < a PROVE FALSE
        BY <1>0, <1>1, <3>0 DEF Begun
      <4> QED BY <1>0, <1>1, <3>0, <3>1 DEF Begun, Unbroken
    <3> QED BY <1>1, <3>0, <3>1, <3>2, <3>3 DEF Begun
  <2>2. Words(text, m) \subseteq Apart(text, m)
    BY <1>0 DEF Words, Apart
  <2>3. ASSUME a <= m PROVE <<a, m>> \in Apart(text, m)
    <3>1. a \in 1 .. m /\ m \in 1 .. m /\ <<a, m>>[1] = a /\ <<a, m>>[2] = m
      BY <1>0, <1>1, <2>3 DEF Begun
    <3> QED BY <1>0, <1>1, <2>3, <3>1 DEF Begun, Apart
  <2> QED BY <2>1, <2>2, <2>3
<1>3. /\ a <= m => SubSeq(text, a, m) # <<>>
      /\ ~(a <= m) => SubSeq(text, a, m) = <<>>
  <2>1. a \in 1 .. (m + 1) /\ m \in Int /\ a \in Int /\ \A k \in a .. m : text[k] \in ToSet(text)
    BY <1>0, <1>1 DEF Begun, ToSet
  <2>2. /\ SubSeq(text, a, m) \in Seq(ToSet(text))
        /\ Len(SubSeq(text, a, m)) = IF a <= m THEN m - a + 1 ELSE 0
    BY <2>1, SubSeqProperties
  <2> DEFINE part == SubSeq(text, a, m)
  <2>3. part \in Seq(ToSet(text)) /\ Len(part) = IF a <= m THEN m - a + 1 ELSE 0
    BY <2>2
  <2> HIDE DEF part
  <2>4. (a <= m => part # <<>>) /\ (~(a <= m) => part = <<>>)
    BY <2>1, <2>3
  <2> QED BY <2>4 DEF part
<1>4. ToSet(parts) = {parts[k] : k \in 1 .. (Len(parts) - 1)} \cup {SubSeq(text, a, m)}
  <2>1. Len(parts) \in Nat /\ Len(parts) > 0 /\ DOMAIN parts = 1 .. Len(parts)
    BY DEF Cut
  <2>2. 1 .. Len(parts) = (1 .. (Len(parts) - 1)) \cup {Len(parts)}
    BY <2>1
  <2> QED BY <1>1, <2>1, <2>2 DEF ToSet
<1>5. {parts[k] : k \in 1 .. (Len(parts) - 1)} \ {<<>>} = Spelt(text, Words(text, m))
  BY DEF Cut, Closed
<1>6. Spelt(text, Apart(text, m)) = Spelt(text, Words(text, m)) \cup (IF a <= m THEN {SubSeq(text, a, m)} ELSE {})
  <2>1. a <= m => Apart(text, m) = Words(text, m) \cup {<<a, m>>}
    BY <1>2
  <2>2. ~(a <= m) => Apart(text, m) = Words(text, m)
    BY <1>2
  <2>3. a <= m => Spelt(text, Apart(text, m)) = Spelt(text, Words(text, m)) \cup {SubSeq(text, a, m)}
    <3> SUFFICES ASSUME a <= m PROVE Spelt(text, Apart(text, m)) = Spelt(text, Words(text, m)) \cup {SubSeq(text, a, m)}
      OBVIOUS
    <3>1. OneMore(Words(text, m), a, m, Apart(text, m))
      BY <2>1 DEF OneMore
    <3> QED BY <3>1, OneMoreSpelt
  <2> QED BY <2>2, <2>3
<1> DEFINE over == {parts[k] : k \in 1 .. (Len(parts) - 1)}
<1>7. ToSet(parts) = over \cup {SubSeq(text, a, m)} /\ over \ {<<>>} = Spelt(text, Words(text, m))
  BY <1>4, <1>5
<1> HIDE DEF over
<1> QED BY <1>3, <1>6, <1>7

(* The keys of a configuration are those an operator wrote down. *)
LEMMA KeysAreWritten ==
  ASSUME NEW c \in Configs
  PROVE  identity_keys(c.keys) = Written(c.keys)
<1> DEFINE text == c.keys.keys
           m == Len(text)
           parts == FoldLeft(Grow, <<<<>>>>, text)
<1> SUFFICES ASSUME c.keys.form # "list"
             PROVE  ToSet(parts) \ {<<>>} = Written(c.keys)
  BY DEF identity_keys, Written
<1>0. text \in Seq(ToSet(text)) /\ m \in Nat /\ DOMAIN text = 1 .. m
  <2>1. text \in Seq(ToSet(text))
    BY ServeAssumption
  <2> HIDE DEF text
  <2> QED BY <2>1
<1>1. ASSUME NEW x \in 1 .. m, NEW y \in 1 .. m
      PROVE  ToSet(SubSeq(text, x, y)) \cap Delimiters = {} <=> Unbroken(text, x, y)
  <2> DEFINE part == SubSeq(text, x, y)
  <2>1. /\ DOMAIN part = 1 .. (y - x + 1)
        /\ \A k \in 1 .. (y - x + 1) : part[k] = text[x + k - 1]
    BY <1>0
  <2>2. \A k \in x .. y : k - x + 1 \in 1 .. (y - x + 1) /\ part[k - x + 1] = text[k]
    BY <1>0
  <2> HIDE DEF part
  <2>3. ToSet(part) = {part[k] : k \in 1 .. (y - x + 1)}
    BY <2>1 DEF ToSet
  <2>4. \A k \in 1 .. (y - x + 1) : x + k - 1 \in x .. y
    OBVIOUS
  <2>5. (\A k \in x .. y : text[k] \notin Delimiters) <=> \A k \in 1 .. (y - x + 1) : part[k] \notin Delimiters
    BY <2>1, <2>2, <2>4
  <2> QED BY <2>3, <2>5 DEF Unbroken, part
<1>2. Written(c.keys) = Spelt(text, Apart(text, m))
  BY <1>0, <1>1 DEF Written, Spelt, Apart
<1>3. Cut(text, m, parts)
  <2> HIDE DEF text
  <2> QED BY <1>0, SplitCuts
<1>4. ToSet(parts) \ {<<>>} = Spelt(text, Apart(text, m))
  <2> HIDE DEF text, parts
  <2> QED BY <1>0, <1>3, PartsAreWords
<1> QED BY <1>2, <1>4

-----------------------------------------------------------------------------
(* What is served is what the configuration says, from the build on. *)
Built == phase \in {"built", "serving", "draining"}

Configured ==
  /\ config \in Configs
  /\ phase = "bound" \/ Built => Deserializes(config.policy)
  /\ Built => /\ identity_keys(config.keys) \subseteq ValidKeys /\ KnowsHandlers(config.policy, Service)
              /\ served = [trusted |-> identity_keys(config.keys), service |-> apply(config.policy, Service)]

(* A process begins unbuilt. *)
LEMMA ConfiguredInit == Init => Configured
  BY DEF Init, Configured, Built

(* Only Build builds, and only what is configured well. *)
LEMMA ConfiguredStep ==
  ASSUME Configured, [Next]_vars
  PROVE  Configured'
<1>1. CASE Bind
  BY <1>1 DEF Bind, Configured, Built
<1>2. CASE Build
  <2> DEFINE trusted == configure(identity_keys(config.keys))
             service == apply(config.policy, Service)
  <2>1. /\ phase = "bound" /\ UNCHANGED config
        /\ IF Refused \in {trusted, service} THEN phase' = "failed"
           ELSE phase' = "built" /\ served' = [trusted |-> trusted, service |-> service]
    BY <1>2 DEF Build
  <2>2. CASE Refused \in {trusted, service}
    BY <2>1, <2>2 DEF Configured, Built
  <2>3. CASE Refused \notin {trusted, service}
    <3>1. phase' = "built" /\ served' = [trusted |-> trusted, service |-> service]
      BY <2>1, <2>3
    <3>2. identity_keys(config.keys) \subseteq ValidKeys /\ trusted = identity_keys(config.keys)
      BY <2>3 DEF configure
    <3>3. KnowsHandlers(config.policy, Service)
      BY <2>3 DEF apply
    <3> HIDE DEF trusted, service
    <3>4. config' \in Configs /\ Deserializes(config'.policy) /\ Built'
      BY <2>1, <3>1 DEF Configured, Built
    <3>5. served' = [trusted |-> identity_keys(config'.keys), service |-> apply(config'.policy, Service)]
      BY <2>1, <3>1, <3>2 DEF service
    <3> QED BY <2>1, <3>2, <3>3, <3>4, <3>5 DEF Configured
  <2> QED BY <2>2, <2>3
<1>3. CASE Listen \/ Shutdown \/ Tick \/ Stop
  BY <1>3 DEF Listen, Shutdown, Tick, Stop, Configured, Built
<1>4. CASE Restart
  BY <1>4 DEF Restart, Configured, Built
<1>5. ASSUME NEW s \in Signals, Signal(s) PROVE Configured'
  BY <1>5 DEF Signal, Configured, Built
<1>6. CASE \E i \in Invocations : Attempt(i) \/ Now(i) \/ Greet(i) \/ Return(i) \/ Lose(i)
  <2> UNCHANGED process
    BY <1>6 DEF Attempt, Now, Greet, Return, Lose
  <2> QED BY DEF process, Configured, Built
<1>7. CASE UNCHANGED vars
  BY <1>7 DEF vars, process, Configured, Built
<1> QED BY <1>1, <1>2, <1>3, <1>4, <1>5, <1>6, <1>7 DEF Next, Main

(* Options laid over others reach their fields, all of them. *)
LEMMA OverReaches ==
  ASSUME NEW options, NEW own
  PROVE  Reaches(options, own, Over(options, own))
  BY DEF Reaches, Over

(* Options that say the same reach the same. *)
LEMMA ReachesAlike ==
  ASSUME NEW options, NEW others, NEW own, NEW found, Reaches(options, own, found),
         DOMAIN options = DOMAIN others, \A field \in DOMAIN others : options[field] = others[field]
  PROVE  Reaches(others, own, found)
  BY DEF Reaches

(* The conversions keep every field a configuration may set. *)
LEMMA ConversionsKeep ==
  ASSUME NEW policy, Deserializes(policy)
  PROVE  /\ \A field \in DOMAIN policy.options :
              field \in DOMAIN ServiceOptions(policy) /\ ServiceOptions(policy)[field] = policy.options[field]
         /\ DOMAIN ServiceOptions(policy) = DOMAIN policy.options
         /\ \A name \in DOMAIN policy.handlers :
              LET options == policy.handlers[name]
              IN /\ DOMAIN HandlerOptions(options) = DOMAIN options
                 /\ \A field \in DOMAIN options : HandlerOptions(options)[field] = options[field]
<1>1. DOMAIN policy.options \subseteq CommonFields
  BY DEF Deserializes, ServiceFields
<1>2. /\ DOMAIN ServiceOptions(policy) = DOMAIN policy.options
      /\ \A field \in DOMAIN policy.options : ServiceOptions(policy)[field] = policy.options[field]
  <2> HIDE DEF CommonFields
  <2> QED BY <1>1 DEF ServiceOptions, CommonOptions
<1>3. ASSUME NEW name \in DOMAIN policy.handlers
      PROVE  LET options == policy.handlers[name]
             IN /\ DOMAIN HandlerOptions(options) = DOMAIN options
                /\ \A field \in DOMAIN options : HandlerOptions(options)[field] = options[field]
  <2> DEFINE options == policy.handlers[name]
  <2>1. DOMAIN options \subseteq CommonFields \cup {"workflow_retention"}
    BY DEF Deserializes, HandlerFields
  <2> HIDE DEF options
  <2>2. /\ DOMAIN HandlerOptions(options) = DOMAIN options
        /\ \A field \in DOMAIN options : HandlerOptions(options)[field] = options[field]
    BY <2>1 DEF HandlerOptions, CommonOptions, Over
  <2> QED BY <2>2 DEF options
<1> QED BY <1>2, <1>3

(* Whatever is configured, and however the process ends and starts again,  *)
(* what is served trusts the keys that were written, and has each override *)
(* of the policy in its field, and nothing else changed.                   *)
THEOREM ServesWhatIsWritten == Spec => []ServesConfigured
<1>1. Configured => ServesConfigured
  <2> SUFFICES ASSUME Configured, Serving PROVE ServesConfigured
    BY DEF ServesConfigured
  <2> DEFINE policy == config.policy
             handlers == Service.handlers
  <2>1. /\ config \in Configs /\ Deserializes(policy) /\ KnowsHandlers(policy, Service)
        /\ identity_keys(config.keys) \subseteq ValidKeys
        /\ served.trusted = identity_keys(config.keys) /\ served.service = apply(policy, Service)
    BY DEF Configured, Serving, Built
  <2>2. served.trusted = Written(config.keys) /\ served.trusted \subseteq ValidKeys
    BY <2>1, KeysAreWritten
  <2>3. /\ served.service.options = Over(ServiceOptions(policy), Service.options)
        /\ DOMAIN served.service.handlers = DOMAIN handlers
        /\ \A name \in DOMAIN handlers :
             served.service.handlers[name] =
               IF name \in DOMAIN policy.handlers THEN Over(HandlerOptions(policy.handlers[name]), handlers[name])
               ELSE handlers[name]
    BY <2>1 DEF apply
  <2> HIDE DEF policy, handlers
  <2>4. Reaches(policy.options, Service.options, served.service.options)
    <3>1. Reaches(ServiceOptions(policy), Service.options, served.service.options)
      BY <2>3, OverReaches
    <3> QED BY <2>1, <3>1, ConversionsKeep, ReachesAlike
  <2>5. DOMAIN served.service.handlers = DOMAIN handlers \cup DOMAIN policy.handlers
    BY <2>1, <2>3 DEF KnowsHandlers, handlers
  <2>6. ASSUME NEW name \in DOMAIN handlers
        PROVE  LET set == IF name \in DOMAIN policy.handlers THEN policy.handlers[name] ELSE << >>
               IN Reaches(set, handlers[name], served.service.handlers[name])
    <3>1. CASE name \in DOMAIN policy.handlers
      <4> DEFINE options == policy.handlers[name]
      <4>1. /\ DOMAIN HandlerOptions(options) = DOMAIN options
            /\ \A field \in DOMAIN options : HandlerOptions(options)[field] = options[field]
        BY <2>1, <3>1, ConversionsKeep
      <4>2. served.service.handlers[name] = Over(HandlerOptions(options), handlers[name])
        BY <2>3, <3>1
      <4> HIDE DEF options
      <4>3. Reaches(options, handlers[name], served.service.handlers[name])
        <5>1. Reaches(HandlerOptions(options), handlers[name], served.service.handlers[name])
          BY <4>2, OverReaches
        <5> QED BY <4>1, <5>1, ReachesAlike
      <4> QED BY <3>1, <4>3 DEF options
    <3>2. CASE name \notin DOMAIN policy.handlers
      <4>1. Reaches(<< >>, handlers[name], handlers[name])
        BY DEF Reaches
      <4> QED BY <2>3, <3>2, <4>1
    <3> QED BY <3>1, <3>2
  <2> QED BY <2>2, <2>4, <2>5, <2>6 DEF ServesConfigured, policy, handlers
<1> QED BY <1>1, ConfiguredInit, ConfiguredStep, PTL DEF Spec
=============================================================================
