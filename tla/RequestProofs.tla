---------------------------- MODULE RequestProofs ----------------------------
(***************************************************************************)
(* Proofs about what a test asks of a server: the waits of Admin, for      *)
(* every interval, timeout and lateness of the runtime, and the calls and  *)
(* selections of Ingress, for every alphabet that names are made of and    *)
(* every URL at which the server is published.                             *)
(*                                                                         *)
(* Admin has one invariant about time - how far a probe or a sleep can     *)
(* reach past the deadline - and one about what the rows seen say of the   *)
(* rows there are. Ingress rests on facts about texts: that a call's path  *)
(* is routed to the call, and that a target's predicate selects the calls  *)
(* of its object. The texts are written and read by folds, whose values    *)
(* are found by induction; one invariant then follows each request to its  *)
(* invocation, its reply and its fault.                                    *)
(***************************************************************************)
EXTENDS Admin, Ingress, SequenceTheorems, WellFoundedInduction, TLAPS

-----------------------------------------------------------------------------
(* Admin: the waits.                                                         *)

(* poll_until sleeps no longer than remains, and near the deadline half of it. *)
LEMMA RetryDelayBounds ==
  ASSUME NEW interval \in Nat, NEW r \in Nat
  PROVE  /\ RetryDelay(interval, r) \in Nat /\ RetryDelay(interval, r) <= r
         /\ 2 * RetryDelay(interval, r) <= r + 1 \/ RetryDelay(interval, r) <= 1
  <1>1. (r + 1) \div 2 \in Nat /\ 2 * ((r + 1) \div 2) <= r + 1
    OBVIOUS
  <1> QED BY <1>1 DEF RetryDelay, Lesser, Greater

(* What the arithmetic of the deadline needs to know. *)
Numbers ==
  /\ now \in Int /\ wake \in Int /\ since \in Int /\ deadline \in Int
  /\ timeout \in Nat
  /\ refused = None \/ refused \in Int
  /\ pc = "patching" => refused = None
  /\ pc = "probing" /\ refused = None => timeout > 0

(* A probe is looked at or cut no later than Late after the deadline; a    *)
(* sleep leads at most to the deadline, or not beyond its own beginning.   *)
Bounded ==
  /\ pc = "probing" => now <= deadline + Late
  /\ pc = "sleeping" =>
       /\ refused \in Int /\ refused <= deadline + Late
       /\ now <= wake + Late
       /\ wake <= deadline \/ wake = refused

(* A sleep from which the wait may give up began within reach of the deadline. *)
NearTheEnd ==
  pc = "sleeping" /\ wake + Late >= deadline => deadline - refused <= 2 * Late + 1

(* The invariant about time, and the one about rows. *)
Timely == Numbers /\ Bounded /\ NearTheEnd /\ LastLookIsFresh

(* An accepted purge is of a completed invocation, and only removal follows; *)
(* once a query has not found it, it is gone.                                *)
PurgeSeen ==
  /\ row \in [Invocations -> Statuses \cup {"none", "gone"}] /\ op \in Operations
  /\ pc = "patching" => op.kind \in Patches
  /\ pc = "sleeping" => answer = None
  /\ op.kind = "purge" /\ (pc \in {"probing", "sleeping", "exhausted", "overdue", "returned"}
                           \/ (pc = "patching" /\ answer = Accepted)) =>
       row[op.of] \in {"completed", "gone"}
  /\ op.kind = "purge" /\ pc = "probing" /\ answer \notin {None, Failed} /\ Purged(answer) =>
       row[op.of] = "gone"

(* What was drained when a query read it stays so if no call arrives. *)
DrainSeen ==
  op.kind = "drain" /\ closed /\ answer \notin {None, Failed} /\ Drained(answer) => Drained(row)

Seen == PurgeSeen /\ DrainSeen /\ PurgeFinal /\ DrainedStays

-----------------------------------------------------------------------------
(* When a wait begins, nothing of it is late. *)
LEMMA TimelyInit == Init => Timely
  BY AdminAssumption
  DEF Init, Timely, Numbers, Bounded, NearTheEnd, LastLookIsFresh, Patches

(* A refusal: the sleep that follows it leads nowhere past the deadline. *)
LEMMA TimelyRefuse ==
  ASSUME Timely, Refuse
  PROVE  Timely'
  <1> DEFINE r == Remaining
  <1>1. /\ pc = "probing" /\ pc' = "sleeping" /\ refused' = now /\ wake' = now + RetryDelay(Interval, r)
        /\ UNCHANGED <<now, deadline, timeout>> /\ since' = 0
    BY DEF Refuse, Forget
  <1>2. now \in Int /\ deadline \in Int /\ now <= deadline + Late /\ timeout \in Nat
    BY <1>1 DEF Timely, Numbers, Bounded
  <1>3. r \in Nat /\ (now < deadline => r = deadline - now) /\ (now >= deadline => r = 0)
    BY <1>2 DEF Remaining, Greater
  <1>4. /\ RetryDelay(Interval, r) \in Nat /\ RetryDelay(Interval, r) <= r
        /\ 2 * RetryDelay(Interval, r) <= r + 1 \/ RetryDelay(Interval, r) <= 1
    BY <1>3, RetryDelayBounds, AdminAssumption
  <1>5. Late \in Nat
    BY AdminAssumption
  <1> HIDE DEF r
  <1>6. Numbers'
    BY <1>1, <1>2, <1>4 DEF Numbers
  <1>7. Bounded'
    BY <1>1, <1>2, <1>3, <1>4, <1>5 DEF Bounded
  <1>8. NearTheEnd'
    BY <1>1, <1>2, <1>3, <1>4, <1>5 DEF NearTheEnd
  <1> QED BY <1>1, <1>6, <1>7, <1>8 DEF Timely, LastLookIsFresh

(* Every step of the waiter, of the server and of the clock keeps the wait timely. *)
LEMMA TimelyKept == Timely /\ [Next]_vars => Timely'
  <1> SUFFICES ASSUME Timely, [Next]_vars PROVE Timely'
    OBVIOUS
  <1> USE AdminAssumption DEF Timely
  <1>1. CASE Server \/ UNCHANGED vars
    <2>1. UNCHANGED <<now, wake, deadline, timeout, refused, pc>> /\ since' \in {since, now}
      BY <1>1 DEF Server, Arrive, Run, Pause, Resume, Complete, Vanish, Moves, Rows, AcceptPatch,
                  AcceptRegistration, Fail, Replies, vars, waiter, request
    <2> QED BY <2>1 DEF Numbers, Bounded, NearTheEnd, LastLookIsFresh
  <1>2. CASE Patched
    BY <1>2 DEF Patched, Starts, Loop, Forget, Numbers, Bounded, NearTheEnd, LastLookIsFresh
  <1>3. CASE PatchFails \/ Return \/ ProbePanics \/ Cut
    BY <1>3 DEF PatchFails, Return, ProbePanics, Cut, Ends, request,
                Numbers, Bounded, NearTheEnd, LastLookIsFresh
  <1>4. CASE Refuse
    BY <1>4, TimelyRefuse
  <1>5. CASE Wake
    BY <1>5 DEF Wake, Loop, request, Numbers, Bounded, NearTheEnd, LastLookIsFresh
  <1>6. CASE Tick
    <2>1. /\ pc \in {"probing", "sleeping"} /\ now' = now + 1 /\ now < Due + Late
          /\ UNCHANGED <<wake, since, deadline, timeout, refused, pc>>
      BY <1>6 DEF Tick, waiter, request
    <2>2. (pc = "sleeping" => Due = wake) /\ (pc = "probing" => Due \in Int /\ Due <= deadline)
      BY <2>1 DEF Due, Lesser, Numbers
    <2> QED BY <2>1, <2>2 DEF Numbers, Bounded, NearTheEnd, LastLookIsFresh
  <1> QED BY <1>1, <1>2, <1>3, <1>4, <1>5, <1>6 DEF Next, Waiter

(* The deadline of poll_until bounds a wait, for every interval and timeout, *)
(* but for twice the lateness of the runtime: once at the probe it cuts or   *)
(* that answers there, once at the sleep that follows.                       *)
THEOREM DeadlineBounds == Spec => []EndsInTime
  <1>1. Timely => EndsInTime
    BY AdminAssumption DEF Timely, Numbers, Bounded, EndsInTime
  <1> QED BY <1>1, TimelyInit, TimelyKept, PTL DEF Spec

(* poll_until never gives up between probes without a refusal from the last  *)
(* instants before the deadline, however long its interval.                  *)
THEOREM LooksUntilTheEnd == Spec => []LastLookIsFresh
  <1>1. Timely => LastLookIsFresh
    BY DEF Timely
  <1> QED BY <1>1, TimelyInit, TimelyKept, PTL DEF Spec

-----------------------------------------------------------------------------
(* A refused or accepted request is told from no answer, and from the other. *)
LEMMA AnswersDiffer ==
  /\ None # Failed /\ None # Accepted /\ Failed # Accepted
  <1>1. {Failed, Accepted} \subseteq [Invocations -> {"failed", "accepted"}]
    BY DEF Failed, Accepted
  <1>2. PICK i \in Invocations : TRUE
    BY AdminAssumption
  <1>3. Failed[i] = "failed" /\ Accepted[i] = "accepted"
    BY <1>2 DEF Failed, Accepted
  <1> QED BY <1>1, <1>3, AdminAssumption

(* When a wait begins, nothing has been seen. *)
LEMMA SeenInit == Init => Seen
  BY AnswersDiffer
  DEF Init, Seen, PurgeSeen, DrainSeen, PurgeFinal, DrainedStays, Patches, Operations, Statuses

(* A row that is gone stays gone, a completed one becomes nothing else, and *)
(* without a call nothing comes into flight.                                *)
LEMMA RowsMove ==
  ASSUME PurgeSeen, NEW i \in Invocations,
         Arrive(i) \/ Run(i) \/ Pause(i) \/ Resume(i) \/ Complete(i) \/ Vanish(i)
  PROVE  /\ row' \in [Invocations -> Statuses \cup {"none", "gone"}]
         /\ \A j \in Invocations :
              /\ row[j] \in {"completed", "gone"} => row'[j] \in {"completed", "gone"}
              /\ row[j] = "gone" => row'[j] = "gone"
         /\ closed /\ Drained(row) => Drained(row')
         /\ UNCHANGED <<closed, answer, pc, op>>
  <1> USE DEF PurgeSeen, Arrive, Run, Pause, Resume, Complete, Vanish, Moves, InFlight, Present,
              Statuses
  <1>1. row' \in [Invocations -> Statuses \cup {"none", "gone"}]
    OBVIOUS
  <1>2. \A j \in Invocations : row'[j] = row[j] \/ j = i
    OBVIOUS
  <1>3. /\ row[i] \in {"completed", "gone"} => row'[i] \in {"completed", "gone"}
        /\ row[i] = "gone" => row'[i] = "gone"
        /\ closed /\ ~InFlight(row[i]) => ~InFlight(row'[i])
    OBVIOUS
  <1>4. closed /\ Drained(row) => Drained(row')
    BY <1>2, <1>3 DEF Drained, Running
  <1> QED BY <1>1, <1>2, <1>3, <1>4 DEF request, waiter

(* What has been seen stays true of the rows, whatever the server does next. *)
LEMMA SeenKept == Seen /\ [Next]_vars => Seen'
  <1> SUFFICES ASSUME Seen, [Next]_vars PROVE Seen'
    OBVIOUS
  <1>a. PurgeSeen /\ DrainSeen /\ PurgeFinal /\ DrainedStays
    BY DEF Seen
  <1>b. op.kind = "purge" => op.of \in Invocations
    BY <1>a DEF PurgeSeen, Operations, Patches
  <1>1. CASE \E i \in Invocations :
               Arrive(i) \/ Run(i) \/ Pause(i) \/ Resume(i) \/ Complete(i) \/ Vanish(i)
    <2>1. /\ row' \in [Invocations -> Statuses \cup {"none", "gone"}]
          /\ \A j \in Invocations :
               /\ row[j] \in {"completed", "gone"} => row'[j] \in {"completed", "gone"}
               /\ row[j] = "gone" => row'[j] = "gone"
          /\ closed /\ Drained(row) => Drained(row')
          /\ UNCHANGED <<closed, answer, pc, op>>
      BY <1>1, <1>a, RowsMove
    <2>2. PurgeSeen'
      BY <1>a, <1>b, <2>1 DEF PurgeSeen, Purged
    <2>3. DrainSeen' /\ PurgeFinal'
      BY <1>a, <1>b, <2>1 DEF DrainSeen, PurgeFinal, Drained, Running
    <2>4. DrainedStays'
      BY <1>a, <2>1 DEF DrainedStays, Drained
    <2> QED BY <2>2, <2>3, <2>4 DEF Seen
  <1>2. CASE Rows
    <2>1. answer' = row /\ pc = "probing" /\ UNCHANGED <<row, closed, pc, op>>
      BY <1>2 DEF Rows, Replies, waiter, server
    <2>2. row[op.of] \in {"completed", "gone"} /\ ~Present(row[op.of]) => row[op.of] = "gone"
      BY DEF Present, Statuses
    <2> QED BY <1>a, <2>1, <2>2
            DEF Seen, PurgeSeen, DrainSeen, PurgeFinal, DrainedStays, Purged, Drained, Running
  <1>3. CASE AcceptPatch
    <2>1. /\ pc = "patching" /\ UNCHANGED <<row, closed, pc, op>>
          /\ op.kind = "purge" => row[op.of] = "completed"
      BY <1>3 DEF AcceptPatch, Replies, waiter
    <2> QED BY <1>a, <2>1 DEF Seen, PurgeSeen, DrainSeen, PurgeFinal, DrainedStays, Patches
  <1>4. CASE AcceptRegistration \/ Fail
    <2>1. /\ pc # "sleeping" /\ UNCHANGED <<row, closed, pc, op>>
          /\ op.kind = "register" \/ answer' = Failed
          /\ op.kind = "register" => pc # "patching"
      BY <1>4, <1>a DEF AcceptRegistration, Fail, Waiting, Replies, waiter, server, PurgeSeen, Patches
    <2> QED BY <1>a, <2>1, AnswersDiffer
            DEF Seen, PurgeSeen, DrainSeen, PurgeFinal, DrainedStays
  <1>5. CASE Patched
    <2>1. /\ pc = "patching" /\ answer = Accepted /\ answer' = None
          /\ pc' \in {"probing", "exhausted"} /\ UNCHANGED <<row, closed, op>>
      BY <1>5 DEF Patched, Starts, Loop, Forget, server
    <2> QED BY <1>a, <2>1 DEF Seen, PurgeSeen, DrainSeen, PurgeFinal, DrainedStays
  <1>6. CASE PatchFails \/ ProbePanics \/ Cut
    <2>1. /\ pc' \in {"panicked", "overdue"} /\ UNCHANGED <<row, closed, op, answer>>
          /\ pc' = "overdue" => pc = "probing"
      BY <1>6 DEF PatchFails, ProbePanics, Cut, Ends, server, request
    <2> QED BY <1>a, <2>1 DEF Seen, PurgeSeen, DrainSeen, PurgeFinal, DrainedStays
  <1>7. CASE Return
    <2>1. /\ pc = "probing" /\ pc' = "returned" /\ UNCHANGED <<row, closed, op, answer>>
          /\ answer \notin {None, Failed}
          /\ op.kind = "purge" => Purged(answer)
          /\ op.kind = "drain" => Drained(answer)
      BY <1>7 DEF Return, Ends, server, request, Answers
    <2>2. PurgeSeen' /\ DrainSeen'
      BY <1>a, <2>1 DEF PurgeSeen, DrainSeen
    <2>3. PurgeFinal'
      BY <1>a, <2>1 DEF PurgeSeen, PurgeFinal
    <2>4. DrainedStays'
      BY <1>a, <2>1 DEF DrainSeen, DrainedStays, Drained
    <2> QED BY <2>2, <2>3, <2>4 DEF Seen
  <1>8. CASE Refuse
    <2>1. /\ pc = "probing" /\ pc' = "sleeping" /\ answer' = None /\ UNCHANGED <<row, closed, op>>
      BY <1>8 DEF Refuse, Forget, server
    <2> QED BY <1>a, <2>1 DEF Seen, PurgeSeen, DrainSeen, PurgeFinal, DrainedStays
  <1>9. CASE Wake
    <2>1. /\ pc = "sleeping" /\ pc' \in {"probing", "exhausted"}
          /\ UNCHANGED <<row, closed, op, answer>>
      BY <1>9 DEF Wake, Loop, server, request
    <2> QED BY <1>a, <2>1 DEF Seen, PurgeSeen, DrainSeen, PurgeFinal, DrainedStays
  <1>10. CASE Tick \/ UNCHANGED vars
    <2>1. UNCHANGED <<row, closed, op, answer, pc>>
      BY <1>10 DEF Tick, vars, server, request, waiter
    <2> QED BY <1>a, <2>1
            DEF Seen, PurgeSeen, DrainSeen, PurgeFinal, DrainedStays, Purged, Drained, Running
  <1> QED BY <1>1, <1>2, <1>3, <1>4, <1>5, <1>6, <1>7, <1>8, <1>9, <1>10 DEF Next, Server, Waiter

(* A purge that returns says that the invocation completed and is gone for   *)
(* good: no row is found absent that has not come yet (purge_with_timeout).  *)
THEOREM PurgeIsFinal == Spec => []PurgeFinal
  <1>1. Seen => PurgeFinal
    BY DEF Seen
  <1> QED BY <1>1, SeenInit, SeenKept, PTL DEF Spec

(* A drain that returns on a server to which nothing more is sent says that  *)
(* nothing is in flight, then or ever after (drain_with_timeout).            *)
THEOREM DrainIsFinal == Spec => []DrainedStays
  <1>1. Seen => DrainedStays
    BY DEF Seen
  <1> QED BY <1>1, SeenInit, SeenKept, PTL DEF Spec

-----------------------------------------------------------------------------
(* Texts are written and read by folds.                                      *)

(* Induction, of a set in place of a predicate: there is no least exception. *)
LEMMA SetInduction ==
  ASSUME NEW S, 0 \in S, \A n \in Nat : n \in S => n + 1 \in S
  PROVE  Nat \subseteq S
<1> DEFINE T == Nat \ S
<1> SUFFICES ASSUME T # {} PROVE FALSE
  OBVIOUS
<1>1. \A x, y \in Nat : x < y => <<x, y>> \in OpToRel(<, Nat)
  BY DEF OpToRel
<1>2. \E x \in T : \A y \in T : ~(<<y, x>> \in OpToRel(<, Nat))
  <2>1. T \subseteq Nat
    OBVIOUS
  <2> HIDE DEF T
  <2> QED BY <2>1, NatLessThanWellFounded, WFMin
<1>3. PICK x \in T : \A y \in T : ~(y < x)
  BY <1>1, <1>2
<1>4. x - 1 \in T /\ x - 1 < x
  BY <1>3
<1> QED BY <1>3, <1>4

(* The largest member of a set is the last it reaches. *)
LEMMA MaxIsLast ==
  ASSUME NEW n \in Nat, NEW s \in SUBSET (1 .. (n + 1)), n + 1 \in s
  PROVE  Max(s) = n + 1
<1>1. \E x \in s : \A y \in s : x >= y
  OBVIOUS
<1>2. Max(s) \in s /\ \A y \in s : Max(s) >= y
  BY <1>1 DEF Max
<1>3. Max(s) \in 1 .. (n + 1) /\ Max(s) >= n + 1
  BY <1>2
<1> QED BY <1>3

(* A fold, its operator given as a function on S \X A: what it has made of *)
(* the members of a sequence whose places are in a set.                    *)
Unrolls(iter, step, start, n, seq) ==
  /\ iter[{}] = start
  /\ \A s \in SUBSET (1 .. n) : s # {} => iter[s] = step[<<iter[s \ {Max(s)}], seq[Max(s)]>>]

(* Some function does. *)
Unrollable(S, step, start, n, seq) ==
  \E iter \in [SUBSET (1 .. n) -> S] : Unrolls(iter, step, start, n, seq)

(* There is such a function, for a sequence of any length. *)
LEMMA FoldExists ==
  ASSUME NEW S, NEW A, NEW start \in S, NEW step \in [S \X A -> S], NEW seq
  PROVE  \A n \in Nat : (\A k \in 1 .. n : seq[k] \in A) => Unrollable(S, step, start, n, seq)
<1> DEFINE Unrolled(n) == (\A k \in 1 .. n : seq[k] \in A) => Unrollable(S, step, start, n, seq)
           T == {n \in Nat : Unrolled(n)}
<1>1. 0 \in T
  <2> DEFINE iter == [s \in SUBSET (1 .. 0) |-> start]
  <2>1. \A s \in SUBSET (1 .. 0) : s = {}
    OBVIOUS
  <2>2. {} \in SUBSET (1 .. 0)
    OBVIOUS
  <2>3. iter \in [SUBSET (1 .. 0) -> S] /\ iter[{}] = start
    BY <2>2
  <2> HIDE DEF iter
  <2>4. Unrolls(iter, step, start, 0, seq)
    BY <2>1, <2>3 DEF Unrolls
  <2> QED BY <2>3, <2>4 DEF Unrollable
<1>2. ASSUME NEW n \in Nat, n \in T PROVE n + 1 \in T
  <2> SUFFICES Unrolled(n + 1)
    <3> HIDE DEF Unrolled
    <3> QED OBVIOUS
  <2> SUFFICES ASSUME \A k \in 1 .. (n + 1) : seq[k] \in A
               PROVE  Unrollable(S, step, start, n + 1, seq)
    OBVIOUS
  <2>0. \A k \in 1 .. n : seq[k] \in A
    OBVIOUS
  <2>1. PICK iter \in [SUBSET (1 .. n) -> S] : Unrolls(iter, step, start, n, seq)
    BY <1>2, <2>0 DEF Unrollable
  <2>2. \A s \in SUBSET (1 .. (n + 1)) : s \ {n + 1} \in SUBSET (1 .. n)
    <3>1. \A x \in 1 .. (n + 1) : x # n + 1 => x \in 1 .. n
      OBVIOUS
    <3> QED BY <3>1
  <2> DEFINE longer == [s \in SUBSET (1 .. (n + 1)) |->
                          IF n + 1 \in s THEN step[<<iter[s \ {n + 1}], seq[n + 1]>>] ELSE iter[s]]
  <2>3. longer \in [SUBSET (1 .. (n + 1)) -> S]
    <3> SUFFICES ASSUME NEW s \in SUBSET (1 .. (n + 1)) PROVE longer[s] \in S
      OBVIOUS
    <3>1. iter[s \ {n + 1}] \in S /\ seq[n + 1] \in A
      BY <2>2
    <3>2. n + 1 \notin s => s \ {n + 1} = s
      OBVIOUS
    <3> QED BY <3>1, <3>2
  <2>4. \A s \in SUBSET (1 .. n) : s \in SUBSET (1 .. (n + 1)) /\ n + 1 \notin s /\ longer[s] = iter[s]
    OBVIOUS
  <2>5. ASSUME NEW s \in SUBSET (1 .. (n + 1)), s # {}
        PROVE  longer[s] = step[<<longer[s \ {Max(s)}], seq[Max(s)]>>]
    <3>1. CASE n + 1 \in s
      <4>1. Max(s) = n + 1
        BY <3>1, MaxIsLast
      <4>2. longer[s \ {n + 1}] = iter[s \ {n + 1}]
        BY <2>2, <2>4
      <4> QED BY <3>1, <4>1, <4>2
    <3>2. CASE n + 1 \notin s
      <4>1. s \in SUBSET (1 .. n)
        BY <2>2, <3>2
      <4>2. s \ {Max(s)} \in SUBSET (1 .. n)
        BY <4>1
      <4>3. iter[s] = step[<<iter[s \ {Max(s)}], seq[Max(s)]>>]
        BY <2>1, <2>5, <4>1 DEF Unrolls
      <4> QED BY <2>4, <4>1, <4>2, <4>3
    <3> QED BY <3>1, <3>2
  <2>6. longer[{}] = start
    <3>1. {} \in SUBSET (1 .. n)
      OBVIOUS
    <3>2. iter[{}] = start
      BY <2>1 DEF Unrolls
    <3> QED BY <2>4, <3>1, <3>2
  <2> HIDE DEF longer
  <2>7. Unrolls(longer, step, start, n + 1, seq)
    BY <2>5, <2>6 DEF Unrolls
  <2> QED BY <2>3, <2>7 DEF Unrollable
<1> HIDE DEF T
<1>3. Nat \subseteq T
  BY <1>1, <1>2, SetInduction
<1> QED BY <1>3 DEF T

(* The value of the fold of a sequence over A is v: a step for each member. *)
Folds(S, step, start, seq, v) ==
  \E after \in [0 .. Len(seq) -> S] :
    /\ after[0] = start /\ after[Len(seq)] = v
    /\ \A m \in 0 .. (Len(seq) - 1) : after[m + 1] = step[<<after[m], seq[m + 1]>>]

(* A function that unrolls the operator itself, while it is in S, takes these steps. *)
LEMMA UnrolledFolds ==
  ASSUME NEW S, NEW A, NEW start \in S, NEW step \in [S \X A -> S], NEW seq \in Seq(A), NEW iter,
         iter[{}] = start,
         \A s \in SUBSET (1 .. Len(seq)) :
           s # {} /\ iter[s \ {Max(s)}] \in S => iter[s] = step[<<iter[s \ {Max(s)}], seq[Max(s)]>>]
  PROVE  Folds(S, step, start, seq, iter[1 .. Len(seq)])
<1> DEFINE n == Len(seq)
<1>0. n \in Nat
  OBVIOUS
<1>1. ASSUME NEW m \in 0 .. (n - 1), iter[1 .. m] \in S
      PROVE  iter[1 .. (m + 1)] = step[<<iter[1 .. m], seq[m + 1]>>] /\ iter[1 .. (m + 1)] \in S
  <2> DEFINE s == 1 .. (m + 1)
  <2>0. m + 1 \in 1 .. n /\ m + 1 \in s /\ \A x \in s : x \in 1 .. n
    BY <1>0
  <2>1. s \in SUBSET (1 .. n) /\ s # {} /\ m + 1 \in 1 .. n
    BY <2>0
  <2>2. Max(s) = m + 1
    <3>1. m + 1 \in s /\ s \in SUBSET (1 .. (m + 1)) /\ m \in Nat
      OBVIOUS
    <3> HIDE DEF s
    <3> QED BY <3>1, MaxIsLast
  <2>3. s \ {m + 1} = 1 .. m
    OBVIOUS
  <2>4. seq[m + 1] \in A
    BY <2>1
  <2>5. iter[s] = step[<<iter[1 .. m], seq[m + 1]>>]
    BY <1>1, <2>1, <2>2, <2>3
  <2> QED BY <1>1, <2>4, <2>5
<1> DEFINE T == {m \in Nat : m <= n => iter[1 .. m] \in S}
<1>2. 0 \in T
  <2>1. 1 .. 0 = {}
    OBVIOUS
  <2> QED BY <2>1
<1>3. ASSUME NEW m \in Nat, m \in T PROVE m + 1 \in T
  <2> SUFFICES ASSUME m + 1 <= n PROVE iter[1 .. (m + 1)] \in S
    OBVIOUS
  <2>1. m \in 0 .. (n - 1) /\ m <= n
    BY <1>0
  <2>2. iter[1 .. m] \in S
    BY <1>3, <2>1
  <2> QED BY <1>1, <2>1, <2>2
<1>4. Nat \subseteq T
  <2> HIDE DEF T
  <2> QED BY <1>2, <1>3, SetInduction
<1> DEFINE after == [m \in 0 .. n |-> iter[1 .. m]]
<1>5. \A m \in 0 .. n : iter[1 .. m] \in S
  BY <1>4
<1>6. after \in [0 .. n -> S]
  BY <1>5
<1>7. \A m \in 0 .. n : after[m] = iter[1 .. m]
  OBVIOUS
<1>8. 0 \in 0 .. n /\ n \in 0 .. n /\ 1 .. 0 = {}
  BY <1>0
<1>9. after[0] = start /\ after[n] = iter[1 .. n]
  BY <1>7, <1>8
<1>10. \A m \in 0 .. (n - 1) : after[m + 1] = step[<<after[m], seq[m + 1]>>]
  <2> SUFFICES ASSUME NEW m \in 0 .. (n - 1) PROVE after[m + 1] = step[<<after[m], seq[m + 1]>>]
    OBVIOUS
  <2>1. m \in 0 .. n /\ m + 1 \in 0 .. n
    BY <1>0
  <2> HIDE DEF after
  <2> QED BY <1>1, <1>5, <1>7, <2>1
<1> HIDE DEF after
<1> QED BY <1>6, <1>9, <1>10 DEF Folds

(* Of no members it is where it starts, and stays in S. *)
LEMMA FoldOfNone ==
  ASSUME NEW S, NEW step, NEW start, NEW v, Folds(S, step, start, <<>>, v)
  PROVE  v = start
<1>1. Len(<<>>) = 0
  OBVIOUS
<1> QED BY <1>1 DEF Folds

(* What is folded stays in the set of the values it may take. *)
LEMMA FoldIn ==
  ASSUME NEW S, NEW step, NEW start, NEW A, NEW seq \in Seq(A), NEW v, Folds(S, step, start, seq, v)
  PROVE  v \in S
<1>1. Len(seq) \in 0 .. Len(seq)
  OBVIOUS
<1> QED BY <1>1 DEF Folds

(* One member more is one step more. *)
LEMMA FoldOfMore ==
  ASSUME NEW S, NEW A, NEW step, NEW start, NEW seq \in Seq(A), NEW c \in A, NEW v, NEW w,
         Folds(S, step, start, seq, v), Folds(S, step, start, Append(seq, c), w)
  PROVE  w = step[<<v, c>>]
<1> DEFINE n == Len(seq)
           more == Append(seq, c)
<1>1. n \in Nat /\ Len(more) = n + 1 /\ more[n + 1] = c /\ \A m \in 1 .. n : more[m] = seq[m]
  BY AppendProperties
<1>2. PICK before : /\ before[0] = start /\ before[n] = v
                    /\ \A m \in 0 .. (n - 1) : before[m + 1] = step[<<before[m], seq[m + 1]>>]
  BY DEF Folds
<1>3. PICK after : /\ after[0] = start /\ after[n + 1] = w
                   /\ \A m \in 0 .. n : after[m + 1] = step[<<after[m], more[m + 1]>>]
  <2>1. (n + 1) - 1 = n
    BY <1>1
  <2> HIDE DEF n, more
  <2>2. Folds(S, step, start, more, w) /\ Len(more) = n + 1
    BY <1>1 DEF more
  <2>3. \E after \in [0 .. Len(more) -> S] :
          /\ after[0] = start /\ after[Len(more)] = w
          /\ \A m \in 0 .. (Len(more) - 1) : after[m + 1] = step[<<after[m], more[m + 1]>>]
    BY <2>2, Zenon DEF Folds
  <2> QED BY <2>1, <2>2, <2>3
<1> HIDE DEF n, more
<1> DEFINE T == {m \in Nat : m <= n => after[m] = before[m]}
<1>4. 0 \in T
  BY <1>2, <1>3
<1>5. ASSUME NEW m \in Nat, m \in T PROVE m + 1 \in T
  <2> SUFFICES ASSUME m + 1 <= n PROVE after[m + 1] = before[m + 1]
    OBVIOUS
  <2>1. m \in 0 .. (n - 1) /\ m \in 0 .. n /\ m + 1 \in 1 .. n /\ m <= n
    BY <1>1
  <2>2. after[m + 1] = step[<<after[m], more[m + 1]>>] /\ before[m + 1] = step[<<before[m], seq[m + 1]>>]
    BY <1>2, <1>3, <2>1
  <2>3. after[m] = before[m]
    BY <1>5, <2>1
  <2> QED BY <1>1, <2>1, <2>2, <2>3
<1>6. n \in T
  <2> HIDE DEF T
  <2> QED BY <1>1, <1>4, <1>5, SetInduction
<1>7. n \in 0 .. n /\ after[n] = before[n]
  BY <1>1, <1>6
<1> QED BY <1>1, <1>2, <1>3, <1>7

(* The largest member of a set of places is one of them. *)
LEMMA MaxIn ==
  ASSUME NEW n \in Nat, NEW s \in SUBSET (1 .. n), s # {}
  PROVE  Max(s) \in 1 .. n /\ s \ {Max(s)} \in SUBSET (1 .. n)
<1> DEFINE T == {m \in Nat : m <= n => s \cap 1 .. m = {} \/ \E x \in s : \A y \in s \cap 1 .. m : x >= y}
<1>1. 0 \in T
  OBVIOUS
<1>2. ASSUME NEW m \in Nat, m \in T PROVE m + 1 \in T
  <2>1. CASE m + 1 \in s
    <3>1. \A y \in s \cap 1 .. (m + 1) : m + 1 >= y
      OBVIOUS
    <3> QED BY <2>1, <3>1
  <2>2. CASE m + 1 \notin s
    <3>1. s \cap 1 .. (m + 1) = s \cap 1 .. m
      <4>1. \A y \in 1 .. (m + 1) : y = m + 1 \/ y \in 1 .. m
        OBVIOUS
      <4>2. \A y \in 1 .. m : y \in 1 .. (m + 1)
        OBVIOUS
      <4> QED BY <2>2, <4>1, <4>2
    <3>2. m + 1 <= n => m <= n
      OBVIOUS
    <3> QED BY <1>2, <3>1, <3>2
  <2> QED BY <2>1, <2>2
<1>3. n \in T
  <2> HIDE DEF T
  <2> QED BY <1>1, <1>2, SetInduction
<1>4. \E x \in s : \A y \in s : x >= y
  <2>1. s \cap 1 .. n = s
    OBVIOUS
  <2> QED BY <1>3, <2>1
<1>5. Max(s) \in s
  BY <1>4 DEF Max
<1> QED BY <1>5

(* The operators that are folded, as functions on the values they take. *)
Parts == Seq(Text) \ {<<>>}
Decodings == [text : Text, escaped : BOOLEAN]
Undecoded == [text |-> <<>>, escaped |-> FALSE]
Lexings == [at : {"words", "literal", "quote"}, text : Text, out : Seq([word : Characters \cup {Null}, literal : Text \cup {Null}])]
Unread == At("words", <<>>, <<>>)

(* What sql_literal, Decode and Lexemes fold. *)
Doubled(text) == FoldLeft(Quoted, <<>>, text)
Reading(segment) == FoldLeft(Decoded, Undecoded, segment)
Scanning(sql) == FoldLeft(Lexed, Unread, sql)

(* The operators themselves, each as a function of a value and a character. *)
Encoding == [p \in Text \X Characters |-> Encoded(p[1], p[2])]
Quoting == [p \in Text \X Characters |-> Quoted(p[1], p[2])]
Cutting == [p \in Parts \X Characters |-> Segmented(p[1], p[2])]
Decoding == [p \in Decodings \X Characters |-> Decoded(p[1], p[2])]
Dropping == [p \in Seq(Text) \X Text |-> Dotless(p[1], p[2])]
Lexing == [p \in Lexings \X Characters |-> Lexed(p[1], p[2])]

(* push_segment's step takes a text to a text. *)
LEMMA EncodingKeeps ==
  /\ Encoding \in [Text \X Characters -> Text] /\ <<>> \in Text
  /\ \A v \in Text, c \in Characters : Encoded(v, c) \in Text /\ Encoding[<<v, c>>] = Encoded(v, c)
<1>1. ASSUME NEW v \in Text, NEW c \in Characters PROVE Encoded(v, c) \in Text
  <2>1. c \in DOMAIN Code => Code[c] \in Characters
    BY CallsAssumption
  <2> DEFINE last == IF c \in DOMAIN Code THEN <<"%", Code[c]>> ELSE <<c>>
  <2>2. last \in Seq(Characters)
    <3>1. "%" \in Characters
      BY CallsAssumption
    <3> QED BY <2>1, <3>1
  <2> HIDE DEF last
  <2>3. v \o last \in Seq(Characters)
    BY <2>2 DEF Text
  <2> QED BY <2>3 DEF Encoded, Text, last
<1>2. <<>> \in Text
  BY EmptySeq DEF Text
<1>3. Encoding \in [Text \X Characters -> Text]
  BY <1>1 DEF Encoding
<1>4. \A v \in Text, c \in Characters : Encoding[<<v, c>>] = Encoded(v, c)
  BY DEF Encoding
<1> QED BY <1>1, <1>2, <1>3, <1>4

(* push_segment is such a fold, of texts of any length. *)
LEMMA EncodingFolds ==
  ASSUME NEW seq \in Text
  PROVE  Folds(Text, Encoding, <<>>, seq, push_segment(seq))
<1> DEFINE n == Len(seq)
           is(f) == f = [s \in SUBSET (1 .. n) |-> IF s = {} THEN <<>> ELSE Encoded(f[s \ {Max(s)}], seq[Max(s)])]
           iter == CHOOSE f : is(f)
<1>1. n \in Nat /\ DOMAIN seq = 1 .. n /\ \A k \in 1 .. n : seq[k] \in Characters
  BY DEF Text
<1>0. Encoding \in [Text \X Characters -> Text] /\ <<>> \in Text
  BY EncodingKeeps
<1>2. PICK g \in [SUBSET (1 .. n) -> Text] : Unrolls(g, Encoding, <<>>, n, seq)
  <2>1. \A k \in 1 .. n : seq[k] \in Characters
    BY <1>1
  <2>2. Unrollable(Text, Encoding, <<>>, n, seq)
    <3> HIDE DEF n
    <3> QED BY <1>0, <1>1, <2>1, FoldExists
  <2> QED BY <2>2 DEF Unrollable
<1>3. is(g)
  <2>1. ASSUME NEW s \in SUBSET (1 .. n)
        PROVE  g[s] = IF s = {} THEN <<>> ELSE Encoded(g[s \ {Max(s)}], seq[Max(s)])
    <3>1. CASE s = {}
      BY <1>2, <3>1 DEF Unrolls
    <3>2. CASE s # {}
      <4>1. Max(s) \in 1 .. n /\ s \ {Max(s)} \in SUBSET (1 .. n)
        BY <1>1, <3>2, MaxIn
      <4>2. g[s \ {Max(s)}] \in Text /\ seq[Max(s)] \in Characters
        BY <1>1, <4>1
      <4>3. g[s] = Encoding[<<g[s \ {Max(s)}], seq[Max(s)]>>]
        BY <1>2, <3>2 DEF Unrolls
      <4> QED BY <3>2, <4>2, <4>3, EncodingKeeps
    <3> QED BY <3>1, <3>2
  <2>2. g = [s \in SUBSET (1 .. n) |-> g[s]]
    OBVIOUS
  <2> QED BY <2>1, <2>2
<1>4. is(iter)
  <2> HIDE DEF is
  <2> QED BY <1>3
<1>5. push_segment(seq) = iter[1 .. n]
  BY <1>1 DEF push_segment, FoldLeft, MapThenFoldSet
<1>6. /\ iter[{}] = <<>>
      /\ \A s \in SUBSET (1 .. n) :
           s # {} /\ iter[s \ {Max(s)}] \in Text => iter[s] = Encoding[<<iter[s \ {Max(s)}], seq[Max(s)]>>]
  <2> HIDE DEF iter
  <2>0. \A s \in SUBSET (1 .. n) : iter[s] = IF s = {} THEN <<>> ELSE Encoded(iter[s \ {Max(s)}], seq[Max(s)])
    BY <1>4, Zenon
  <2>1. iter[{}] = <<>>
    BY <2>0
  <2>2. ASSUME NEW s \in SUBSET (1 .. n), s # {}, iter[s \ {Max(s)}] \in Text
        PROVE  iter[s] = Encoding[<<iter[s \ {Max(s)}], seq[Max(s)]>>]
    <3>1. seq[Max(s)] \in Characters
      BY <1>1, <2>2, MaxIn
    <3> QED BY <2>0, <2>2, <3>1, EncodingKeeps
  <2> QED BY <2>1, <2>2
<1> HIDE DEF iter
<1>7. seq \in Seq(Characters)
  BY DEF Text
<1>8. Folds(Text, Encoding, <<>>, seq, iter[1 .. n])
  BY <1>0, <1>6, <1>7, UnrolledFolds
<1> QED BY <1>5, <1>8

(* sql_literal's step takes a text to a text. *)
LEMMA QuotingKeeps ==
  /\ Quoting \in [Text \X Characters -> Text] /\ <<>> \in Text
  /\ \A v \in Text, c \in Characters : Quoted(v, c) \in Text /\ Quoting[<<v, c>>] = Quoted(v, c)
<1>1. ASSUME NEW v \in Text, NEW c \in Characters PROVE Quoted(v, c) \in Text
  BY DEF Text, Quoted
<1>2. <<>> \in Text
  BY EmptySeq DEF Text
<1>3. Quoting \in [Text \X Characters -> Text]
  BY <1>1 DEF Quoting
<1>4. \A v \in Text, c \in Characters : Quoting[<<v, c>>] = Quoted(v, c)
  BY DEF Quoting
<1> QED BY <1>1, <1>2, <1>3, <1>4

(* sql_literal's doubling of quotes is such a fold. *)
LEMMA QuotingFolds ==
  ASSUME NEW seq \in Text
  PROVE  Folds(Text, Quoting, <<>>, seq, Doubled(seq))
<1> DEFINE n == Len(seq)
           is(f) == f = [s \in SUBSET (1 .. n) |-> IF s = {} THEN <<>> ELSE Quoted(f[s \ {Max(s)}], seq[Max(s)])]
           iter == CHOOSE f : is(f)
<1>1. n \in Nat /\ DOMAIN seq = 1 .. n /\ \A k \in 1 .. n : seq[k] \in Characters
  BY DEF Text
<1>0. Quoting \in [Text \X Characters -> Text] /\ <<>> \in Text
  BY QuotingKeeps
<1>2. PICK g \in [SUBSET (1 .. n) -> Text] : Unrolls(g, Quoting, <<>>, n, seq)
  <2>1. \A k \in 1 .. n : seq[k] \in Characters
    BY <1>1
  <2>2. Unrollable(Text, Quoting, <<>>, n, seq)
    <3> HIDE DEF n
    <3> QED BY <1>0, <1>1, <2>1, FoldExists
  <2> QED BY <2>2 DEF Unrollable
<1>3. is(g)
  <2>1. ASSUME NEW s \in SUBSET (1 .. n)
        PROVE  g[s] = IF s = {} THEN <<>> ELSE Quoted(g[s \ {Max(s)}], seq[Max(s)])
    <3>1. CASE s = {}
      BY <1>2, <3>1 DEF Unrolls
    <3>2. CASE s # {}
      <4>1. Max(s) \in 1 .. n /\ s \ {Max(s)} \in SUBSET (1 .. n)
        BY <1>1, <3>2, MaxIn
      <4>2. g[s \ {Max(s)}] \in Text /\ seq[Max(s)] \in Characters
        BY <1>1, <4>1
      <4>3. g[s] = Quoting[<<g[s \ {Max(s)}], seq[Max(s)]>>]
        BY <1>2, <3>2 DEF Unrolls
      <4> QED BY <3>2, <4>2, <4>3, QuotingKeeps
    <3> QED BY <3>1, <3>2
  <2>2. g = [s \in SUBSET (1 .. n) |-> g[s]]
    OBVIOUS
  <2> QED BY <2>1, <2>2
<1>4. is(iter)
  <2> HIDE DEF is
  <2> QED BY <1>3
<1>5. Doubled(seq) = iter[1 .. n]
  BY <1>1 DEF Doubled, Reading, Scanning, FoldLeft, MapThenFoldSet
<1>6. /\ iter[{}] = <<>>
      /\ \A s \in SUBSET (1 .. n) :
           s # {} /\ iter[s \ {Max(s)}] \in Text => iter[s] = Quoting[<<iter[s \ {Max(s)}], seq[Max(s)]>>]
  <2> HIDE DEF iter
  <2>0. \A s \in SUBSET (1 .. n) : iter[s] = IF s = {} THEN <<>> ELSE Quoted(iter[s \ {Max(s)}], seq[Max(s)])
    BY <1>4, Zenon
  <2>1. iter[{}] = <<>>
    BY <2>0
  <2>2. ASSUME NEW s \in SUBSET (1 .. n), s # {}, iter[s \ {Max(s)}] \in Text
        PROVE  iter[s] = Quoting[<<iter[s \ {Max(s)}], seq[Max(s)]>>]
    <3>1. seq[Max(s)] \in Characters
      BY <1>1, <2>2, MaxIn
    <3> QED BY <2>0, <2>2, <3>1, QuotingKeeps
  <2> QED BY <2>1, <2>2
<1> HIDE DEF iter
<1>7. seq \in Seq(Characters)
  BY DEF Text
<1>8. Folds(Text, Quoting, <<>>, seq, iter[1 .. n])
  BY <1>0, <1>6, <1>7, UnrolledFolds
<1> QED BY <1>5, <1>8

(* Split's step takes some segments, at least one, to some segments. *)
LEMMA CuttingKeeps ==
  /\ Cutting \in [Parts \X Characters -> Parts] /\ <<<<>>>> \in Parts
  /\ \A v \in Parts, c \in Characters : Segmented(v, c) \in Parts /\ Cutting[<<v, c>>] = Segmented(v, c)
<1>1. ASSUME NEW v \in Parts, NEW c \in Characters PROVE Segmented(v, c) \in Parts
  <2>1. v \in Seq(Text) /\ Len(v) \in 1 .. Len(v) /\ <<>> \in Text
    BY EmptySeq DEF Parts, Text
  <2>2. CASE c = "/"
    <3>1. Append(v, <<>>) \in Seq(Text) /\ Append(v, <<>>) # <<>>
      BY <2>1, AppendProperties
    <3> QED BY <2>2, <3>1 DEF Segmented, Parts
  <2>3. CASE c # "/"
    <3>1. v[Len(v)] \in Text
      BY <2>1
    <3>2. Append(v[Len(v)], c) \in Text
      BY <3>1 DEF Text
    <3> DEFINE w == [v EXCEPT ![Len(v)] = Append(@, c)]
    <3>3. w \in Seq(Text) /\ Len(w) = Len(v)
      BY <2>1, <3>2
    <3>4. w # <<>>
      BY <2>1, <3>3
    <3>5. Segmented(v, c) = w
      BY <2>3 DEF Segmented
    <3> QED BY <3>3, <3>4, <3>5 DEF Parts
  <2> QED BY <2>2, <2>3
<1>2. <<<<>>>> \in Parts
  BY EmptySeq DEF Parts, Text
<1>3. Cutting \in [Parts \X Characters -> Parts]
  BY <1>1 DEF Cutting
<1>4. \A v \in Parts, c \in Characters : Cutting[<<v, c>>] = Segmented(v, c)
  BY DEF Cutting
<1> QED BY <1>1, <1>2, <1>3, <1>4

(* Split is such a fold. *)
LEMMA CuttingFolds ==
  ASSUME NEW seq \in Text
  PROVE  Folds(Parts, Cutting, <<<<>>>>, seq, Split(seq))
<1> DEFINE n == Len(seq)
           is(f) == f = [s \in SUBSET (1 .. n) |-> IF s = {} THEN <<<<>>>> ELSE Segmented(f[s \ {Max(s)}], seq[Max(s)])]
           iter == CHOOSE f : is(f)
<1>1. n \in Nat /\ DOMAIN seq = 1 .. n /\ \A k \in 1 .. n : seq[k] \in Characters
  BY DEF Text
<1>0. Cutting \in [Parts \X Characters -> Parts] /\ <<<<>>>> \in Parts
  BY CuttingKeeps
<1>2. PICK g \in [SUBSET (1 .. n) -> Parts] : Unrolls(g, Cutting, <<<<>>>>, n, seq)
  <2>1. \A k \in 1 .. n : seq[k] \in Characters
    BY <1>1
  <2>2. Unrollable(Parts, Cutting, <<<<>>>>, n, seq)
    <3> HIDE DEF n
    <3> QED BY <1>0, <1>1, <2>1, FoldExists
  <2> QED BY <2>2 DEF Unrollable
<1>3. is(g)
  <2>1. ASSUME NEW s \in SUBSET (1 .. n)
        PROVE  g[s] = IF s = {} THEN <<<<>>>> ELSE Segmented(g[s \ {Max(s)}], seq[Max(s)])
    <3>1. CASE s = {}
      BY <1>2, <3>1 DEF Unrolls
    <3>2. CASE s # {}
      <4>1. Max(s) \in 1 .. n /\ s \ {Max(s)} \in SUBSET (1 .. n)
        BY <1>1, <3>2, MaxIn
      <4>2. g[s \ {Max(s)}] \in Parts /\ seq[Max(s)] \in Characters
        BY <1>1, <4>1
      <4>3. g[s] = Cutting[<<g[s \ {Max(s)}], seq[Max(s)]>>]
        BY <1>2, <3>2 DEF Unrolls
      <4> QED BY <3>2, <4>2, <4>3, CuttingKeeps
    <3> QED BY <3>1, <3>2
  <2>2. g = [s \in SUBSET (1 .. n) |-> g[s]]
    OBVIOUS
  <2> QED BY <2>1, <2>2
<1>4. is(iter)
  <2> HIDE DEF is
  <2> QED BY <1>3
<1>5. Split(seq) = iter[1 .. n]
  BY <1>1 DEF Split, FoldLeft, MapThenFoldSet
<1>6. /\ iter[{}] = <<<<>>>>
      /\ \A s \in SUBSET (1 .. n) :
           s # {} /\ iter[s \ {Max(s)}] \in Parts => iter[s] = Cutting[<<iter[s \ {Max(s)}], seq[Max(s)]>>]
  <2> HIDE DEF iter
  <2>0. \A s \in SUBSET (1 .. n) : iter[s] = IF s = {} THEN <<<<>>>> ELSE Segmented(iter[s \ {Max(s)}], seq[Max(s)])
    BY <1>4, Zenon
  <2>1. iter[{}] = <<<<>>>>
    BY <2>0
  <2>2. ASSUME NEW s \in SUBSET (1 .. n), s # {}, iter[s \ {Max(s)}] \in Parts
        PROVE  iter[s] = Cutting[<<iter[s \ {Max(s)}], seq[Max(s)]>>]
    <3>1. seq[Max(s)] \in Characters
      BY <1>1, <2>2, MaxIn
    <3> QED BY <2>0, <2>2, <3>1, CuttingKeeps
  <2> QED BY <2>1, <2>2
<1> HIDE DEF iter
<1>7. seq \in Seq(Characters)
  BY DEF Text
<1>8. Folds(Parts, Cutting, <<<<>>>>, seq, iter[1 .. n])
  BY <1>0, <1>6, <1>7, UnrolledFolds
<1> QED BY <1>5, <1>8

(* Decode's step takes a state of the reader to a state of it. *)
LEMMA DecodingKeeps ==
  /\ Decoding \in [Decodings \X Characters -> Decodings] /\ Undecoded \in Decodings
  /\ \A v \in Decodings, c \in Characters : Decoded(v, c) \in Decodings /\ Decoding[<<v, c>>] = Decoded(v, c)
<1>1. ASSUME NEW v \in Decodings, NEW c \in Characters PROVE Decoded(v, c) \in Decodings
  <2>1. Character(c) \in Characters
    BY CallsAssumption DEF Character
  <2>2. v.text \in Text /\ \A d \in Characters : Append(v.text, d) \in Text
    BY DEF Decodings, Text
  <2> QED BY <2>1, <2>2 DEF Decoded, Decodings
<1>2. Undecoded \in Decodings
  BY EmptySeq DEF Undecoded, Decodings, Text
<1>3. Decoding \in [Decodings \X Characters -> Decodings]
  BY <1>1 DEF Decoding
<1>4. \A v \in Decodings, c \in Characters : Decoding[<<v, c>>] = Decoded(v, c)
  BY DEF Decoding
<1> QED BY <1>1, <1>2, <1>3, <1>4

(* Decode's reading is such a fold. *)
LEMMA DecodingFolds ==
  ASSUME NEW seq \in Text
  PROVE  Folds(Decodings, Decoding, Undecoded, seq, Reading(seq))
<1> DEFINE n == Len(seq)
           is(f) == f = [s \in SUBSET (1 .. n) |-> IF s = {} THEN Undecoded ELSE Decoded(f[s \ {Max(s)}], seq[Max(s)])]
           iter == CHOOSE f : is(f)
<1>1. n \in Nat /\ DOMAIN seq = 1 .. n /\ \A k \in 1 .. n : seq[k] \in Characters
  BY DEF Text
<1>0. Decoding \in [Decodings \X Characters -> Decodings] /\ Undecoded \in Decodings
  BY DecodingKeeps
<1>2. PICK g \in [SUBSET (1 .. n) -> Decodings] : Unrolls(g, Decoding, Undecoded, n, seq)
  <2>1. \A k \in 1 .. n : seq[k] \in Characters
    BY <1>1
  <2>2. Unrollable(Decodings, Decoding, Undecoded, n, seq)
    <3> HIDE DEF n
    <3> QED BY <1>0, <1>1, <2>1, FoldExists
  <2> QED BY <2>2 DEF Unrollable
<1>3. is(g)
  <2>1. ASSUME NEW s \in SUBSET (1 .. n)
        PROVE  g[s] = IF s = {} THEN Undecoded ELSE Decoded(g[s \ {Max(s)}], seq[Max(s)])
    <3>1. CASE s = {}
      BY <1>2, <3>1 DEF Unrolls
    <3>2. CASE s # {}
      <4>1. Max(s) \in 1 .. n /\ s \ {Max(s)} \in SUBSET (1 .. n)
        BY <1>1, <3>2, MaxIn
      <4>2. g[s \ {Max(s)}] \in Decodings /\ seq[Max(s)] \in Characters
        BY <1>1, <4>1
      <4>3. g[s] = Decoding[<<g[s \ {Max(s)}], seq[Max(s)]>>]
        BY <1>2, <3>2 DEF Unrolls
      <4> QED BY <3>2, <4>2, <4>3, DecodingKeeps
    <3> QED BY <3>1, <3>2
  <2>2. g = [s \in SUBSET (1 .. n) |-> g[s]]
    OBVIOUS
  <2> QED BY <2>1, <2>2
<1>4. is(iter)
  <2> HIDE DEF is
  <2> QED BY <1>3
<1>5. Reading(seq) = iter[1 .. n]
  BY <1>1 DEF Doubled, Reading, Scanning, FoldLeft, MapThenFoldSet
<1>6. /\ iter[{}] = Undecoded
      /\ \A s \in SUBSET (1 .. n) :
           s # {} /\ iter[s \ {Max(s)}] \in Decodings => iter[s] = Decoding[<<iter[s \ {Max(s)}], seq[Max(s)]>>]
  <2> HIDE DEF iter
  <2>0. \A s \in SUBSET (1 .. n) : iter[s] = IF s = {} THEN Undecoded ELSE Decoded(iter[s \ {Max(s)}], seq[Max(s)])
    BY <1>4, Zenon
  <2>1. iter[{}] = Undecoded
    BY <2>0
  <2>2. ASSUME NEW s \in SUBSET (1 .. n), s # {}, iter[s \ {Max(s)}] \in Decodings
        PROVE  iter[s] = Decoding[<<iter[s \ {Max(s)}], seq[Max(s)]>>]
    <3>1. seq[Max(s)] \in Characters
      BY <1>1, <2>2, MaxIn
    <3> QED BY <2>0, <2>2, <3>1, DecodingKeeps
  <2> QED BY <2>1, <2>2
<1> HIDE DEF iter
<1>7. seq \in Seq(Characters)
  BY DEF Text
<1>8. Folds(Decodings, Decoding, Undecoded, seq, iter[1 .. n])
  BY <1>0, <1>6, <1>7, UnrolledFolds
<1> QED BY <1>5, <1>8

(* Undotted's step takes segments to segments. *)
LEMMA DroppingKeeps ==
  /\ Dropping \in [Seq(Text) \X Text -> Seq(Text)] /\ <<>> \in Seq(Text)
  /\ \A v \in Seq(Text), c \in Text : Dotless(v, c) \in Seq(Text) /\ Dropping[<<v, c>>] = Dotless(v, c)
<1>1. ASSUME NEW v \in Seq(Text), NEW c \in Text PROVE Dotless(v, c) \in Seq(Text)
  BY DEF Dotless
<1>2. <<>> \in Seq(Text)
  BY EmptySeq
<1>3. Dropping \in [Seq(Text) \X Text -> Seq(Text)]
  BY <1>1 DEF Dropping
<1>4. \A v \in Seq(Text), c \in Text : Dropping[<<v, c>>] = Dotless(v, c)
  BY DEF Dropping
<1> QED BY <1>1, <1>2, <1>3, <1>4

(* Undotted is such a fold, of segments. *)
LEMMA DroppingFolds ==
  ASSUME NEW seq \in Seq(Text)
  PROVE  Folds(Seq(Text), Dropping, <<>>, seq, Undotted(seq))
<1> DEFINE n == Len(seq)
           is(f) == f = [s \in SUBSET (1 .. n) |-> IF s = {} THEN <<>> ELSE Dotless(f[s \ {Max(s)}], seq[Max(s)])]
           iter == CHOOSE f : is(f)
<1>1. n \in Nat /\ DOMAIN seq = 1 .. n /\ \A k \in 1 .. n : seq[k] \in Text
  BY DEF Text
<1>0. Dropping \in [Seq(Text) \X Text -> Seq(Text)] /\ <<>> \in Seq(Text)
  BY DroppingKeeps
<1>2. PICK g \in [SUBSET (1 .. n) -> Seq(Text)] : Unrolls(g, Dropping, <<>>, n, seq)
  <2>1. \A k \in 1 .. n : seq[k] \in Text
    BY <1>1
  <2>2. Unrollable(Seq(Text), Dropping, <<>>, n, seq)
    <3> HIDE DEF n
    <3> QED BY <1>0, <1>1, <2>1, FoldExists
  <2> QED BY <2>2 DEF Unrollable
<1>3. is(g)
  <2>1. ASSUME NEW s \in SUBSET (1 .. n)
        PROVE  g[s] = IF s = {} THEN <<>> ELSE Dotless(g[s \ {Max(s)}], seq[Max(s)])
    <3>1. CASE s = {}
      BY <1>2, <3>1 DEF Unrolls
    <3>2. CASE s # {}
      <4>1. Max(s) \in 1 .. n /\ s \ {Max(s)} \in SUBSET (1 .. n)
        BY <1>1, <3>2, MaxIn
      <4>2. g[s \ {Max(s)}] \in Seq(Text) /\ seq[Max(s)] \in Text
        BY <1>1, <4>1
      <4>3. g[s] = Dropping[<<g[s \ {Max(s)}], seq[Max(s)]>>]
        BY <1>2, <3>2 DEF Unrolls
      <4> QED BY <3>2, <4>2, <4>3, DroppingKeeps
    <3> QED BY <3>1, <3>2
  <2>2. g = [s \in SUBSET (1 .. n) |-> g[s]]
    OBVIOUS
  <2> QED BY <2>1, <2>2
<1>4. is(iter)
  <2> HIDE DEF is
  <2> QED BY <1>3
<1>5. Undotted(seq) = iter[1 .. n]
  BY <1>1 DEF Undotted, FoldLeft, MapThenFoldSet
<1>6. /\ iter[{}] = <<>>
      /\ \A s \in SUBSET (1 .. n) :
           s # {} /\ iter[s \ {Max(s)}] \in Seq(Text) => iter[s] = Dropping[<<iter[s \ {Max(s)}], seq[Max(s)]>>]
  <2> HIDE DEF iter
  <2>0. \A s \in SUBSET (1 .. n) : iter[s] = IF s = {} THEN <<>> ELSE Dotless(iter[s \ {Max(s)}], seq[Max(s)])
    BY <1>4, Zenon
  <2>1. iter[{}] = <<>>
    BY <2>0
  <2>2. ASSUME NEW s \in SUBSET (1 .. n), s # {}, iter[s \ {Max(s)}] \in Seq(Text)
        PROVE  iter[s] = Dropping[<<iter[s \ {Max(s)}], seq[Max(s)]>>]
    <3>1. seq[Max(s)] \in Text
      BY <1>1, <2>2, MaxIn
    <3> QED BY <2>0, <2>2, <3>1, DroppingKeeps
  <2> QED BY <2>1, <2>2
<1> HIDE DEF iter
<1>7. seq \in Seq(Text)
  BY DEF Text
<1>8. Folds(Seq(Text), Dropping, <<>>, seq, iter[1 .. n])
  BY <1>0, <1>6, <1>7, UnrolledFolds
<1> QED BY <1>5, <1>8

(* Lexemes' step takes a state of the reader to a state of it. *)
LEMMA LexingKeeps ==
  /\ Lexing \in [Lexings \X Characters -> Lexings] /\ Unread \in Lexings
  /\ \A v \in Lexings, c \in Characters : Lexed(v, c) \in Lexings /\ Lexing[<<v, c>>] = Lexed(v, c)
<1> DEFINE Lexeme == [word : Characters \cup {Null}, literal : Text \cup {Null}]
<1>1. ASSUME NEW v \in Lexings, NEW c \in Characters PROVE Lexed(v, c) \in Lexings
  <2>1. /\ v.at \in {"words", "literal", "quote"} /\ v.text \in Text /\ v.out \in Seq(Lexeme)
        /\ \A d \in Characters : Append(v.text, d) \in Text
    BY DEF Lexings, Text
  <2>2. Word(c) \in Lexeme /\ Literal(v.text) \in Lexeme
    BY <2>1 DEF Word, Literal
  <2>3. Append(v.out, Word(c)) \in Seq(Lexeme) /\ v.out \o <<Literal(v.text), Word(c)>> \in Seq(Lexeme)
    <3> HIDE DEF Lexeme
    <3> QED BY <2>1, <2>2
  <2>4. <<>> \in Text
    BY DEF Text
  <2> HIDE DEF Lexeme
  <2>5. Lexings = [at : {"words", "literal", "quote"}, text : Text, out : Seq(Lexeme)]
    BY DEF Lexings, Lexeme
  <2>6. \A place \in {"words", "literal", "quote"}, text \in Text, out \in Seq(Lexeme) : At(place, text, out) \in Lexings
    BY <2>5 DEF At
  <2>7. Append(v.text, c) \in Text
    BY <2>1
  <2> QED BY <2>1, <2>3, <2>4, <2>6, <2>7 DEF Lexed
<1>2. Unread \in Lexings
  BY EmptySeq DEF At, Unread, Lexings, Text
<1>3. Lexing \in [Lexings \X Characters -> Lexings]
  BY <1>1 DEF Lexing
<1>4. \A v \in Lexings, c \in Characters : Lexing[<<v, c>>] = Lexed(v, c)
  BY DEF Lexing
<1> QED BY <1>1, <1>2, <1>3, <1>4

(* Lexemes' scanning is such a fold. *)
LEMMA LexingFolds ==
  ASSUME NEW seq \in Text
  PROVE  Folds(Lexings, Lexing, Unread, seq, Scanning(seq))
<1> DEFINE n == Len(seq)
           is(f) == f = [s \in SUBSET (1 .. n) |-> IF s = {} THEN Unread ELSE Lexed(f[s \ {Max(s)}], seq[Max(s)])]
           iter == CHOOSE f : is(f)
<1>1. n \in Nat /\ DOMAIN seq = 1 .. n /\ \A k \in 1 .. n : seq[k] \in Characters
  BY DEF Text
<1>0. Lexing \in [Lexings \X Characters -> Lexings] /\ Unread \in Lexings
  BY LexingKeeps
<1>2. PICK g \in [SUBSET (1 .. n) -> Lexings] : Unrolls(g, Lexing, Unread, n, seq)
  <2>1. \A k \in 1 .. n : seq[k] \in Characters
    BY <1>1
  <2>2. Unrollable(Lexings, Lexing, Unread, n, seq)
    <3> HIDE DEF n
    <3> QED BY <1>0, <1>1, <2>1, FoldExists
  <2> QED BY <2>2 DEF Unrollable
<1>3. is(g)
  <2>1. ASSUME NEW s \in SUBSET (1 .. n)
        PROVE  g[s] = IF s = {} THEN Unread ELSE Lexed(g[s \ {Max(s)}], seq[Max(s)])
    <3>1. CASE s = {}
      BY <1>2, <3>1 DEF Unrolls
    <3>2. CASE s # {}
      <4>1. Max(s) \in 1 .. n /\ s \ {Max(s)} \in SUBSET (1 .. n)
        BY <1>1, <3>2, MaxIn
      <4>2. g[s \ {Max(s)}] \in Lexings /\ seq[Max(s)] \in Characters
        BY <1>1, <4>1
      <4>3. g[s] = Lexing[<<g[s \ {Max(s)}], seq[Max(s)]>>]
        BY <1>2, <3>2 DEF Unrolls
      <4> QED BY <3>2, <4>2, <4>3, LexingKeeps
    <3> QED BY <3>1, <3>2
  <2>2. g = [s \in SUBSET (1 .. n) |-> g[s]]
    OBVIOUS
  <2> QED BY <2>1, <2>2
<1>4. is(iter)
  <2> HIDE DEF is
  <2> QED BY <1>3
<1>5. Scanning(seq) = iter[1 .. n]
  BY <1>1 DEF Doubled, Reading, Scanning, FoldLeft, MapThenFoldSet
<1>6. /\ iter[{}] = Unread
      /\ \A s \in SUBSET (1 .. n) :
           s # {} /\ iter[s \ {Max(s)}] \in Lexings => iter[s] = Lexing[<<iter[s \ {Max(s)}], seq[Max(s)]>>]
  <2> HIDE DEF iter
  <2>0. \A s \in SUBSET (1 .. n) : iter[s] = IF s = {} THEN Unread ELSE Lexed(iter[s \ {Max(s)}], seq[Max(s)])
    BY <1>4, Zenon
  <2>1. iter[{}] = Unread
    BY <2>0
  <2>2. ASSUME NEW s \in SUBSET (1 .. n), s # {}, iter[s \ {Max(s)}] \in Lexings
        PROVE  iter[s] = Lexing[<<iter[s \ {Max(s)}], seq[Max(s)]>>]
    <3>1. seq[Max(s)] \in Characters
      BY <1>1, <2>2, MaxIn
    <3> QED BY <2>0, <2>2, <3>1, LexingKeeps
  <2> QED BY <2>1, <2>2
<1> HIDE DEF iter
<1>7. seq \in Seq(Characters)
  BY DEF Text
<1>8. Folds(Lexings, Lexing, Unread, seq, iter[1 .. n])
  BY <1>0, <1>6, <1>7, UnrolledFolds
<1> QED BY <1>5, <1>8

(* push_segment, by recursion on what it encodes. *)
LEMMA EncodingIs ==
  /\ push_segment(<<>>) = <<>>
  /\ \A seq \in Text : push_segment(seq) \in Text
  /\ \A seq \in Text, c \in Characters : push_segment(Append(seq, c)) = Encoded(push_segment(seq), c)
<1>0. Text = Seq(Characters)
  BY DEF Text
<1>1. ASSUME NEW seq \in Text PROVE Folds(Text, Encoding, <<>>, seq, push_segment(seq)) /\ push_segment(seq) \in Text
  <2>1. Folds(Text, Encoding, <<>>, seq, push_segment(seq))
    BY EncodingFolds
  <2> QED BY <1>0, <2>1, FoldIn
<1>2. ASSUME NEW seq \in Text, NEW c \in Characters PROVE push_segment(Append(seq, c)) = Encoded(push_segment(seq), c)
  <2>1. seq \in Seq(Characters) /\ Append(seq, c) \in Text
    BY <1>0, AppendProperties
  <2>2. Folds(Text, Encoding, <<>>, seq, push_segment(seq)) /\ Folds(Text, Encoding, <<>>, Append(seq, c), push_segment(Append(seq, c)))
    BY <1>1, <2>1
  <2>3. push_segment(Append(seq, c)) = Encoding[<<push_segment(seq), c>>]
    BY <2>1, <2>2, FoldOfMore
  <2> QED BY <1>1, <2>3, EncodingKeeps
<1>3. push_segment(<<>>) = <<>>
  <2>1. <<>> \in Text
    BY <1>0, EmptySeq
  <2> QED BY <1>1, <2>1, FoldOfNone
<1> QED BY <1>1, <1>2, <1>3

(* The doubling of quotes, by recursion on the text. *)
LEMMA QuotingIs ==
  /\ Doubled(<<>>) = <<>>
  /\ \A seq \in Text : Doubled(seq) \in Text
  /\ \A seq \in Text, c \in Characters : Doubled(Append(seq, c)) = Quoted(Doubled(seq), c)
<1>0. Text = Seq(Characters)
  BY DEF Text
<1>1. ASSUME NEW seq \in Text PROVE Folds(Text, Quoting, <<>>, seq, Doubled(seq)) /\ Doubled(seq) \in Text
  <2>1. Folds(Text, Quoting, <<>>, seq, Doubled(seq))
    BY QuotingFolds
  <2> QED BY <1>0, <2>1, FoldIn
<1>2. ASSUME NEW seq \in Text, NEW c \in Characters PROVE Doubled(Append(seq, c)) = Quoted(Doubled(seq), c)
  <2>1. seq \in Seq(Characters) /\ Append(seq, c) \in Text
    BY <1>0, AppendProperties
  <2>2. Folds(Text, Quoting, <<>>, seq, Doubled(seq)) /\ Folds(Text, Quoting, <<>>, Append(seq, c), Doubled(Append(seq, c)))
    BY <1>1, <2>1
  <2>3. Doubled(Append(seq, c)) = Quoting[<<Doubled(seq), c>>]
    BY <2>1, <2>2, FoldOfMore
  <2> QED BY <1>1, <2>3, QuotingKeeps
<1>3. Doubled(<<>>) = <<>>
  <2>1. <<>> \in Text
    BY <1>0, EmptySeq
  <2> QED BY <1>1, <2>1, FoldOfNone
<1> QED BY <1>1, <1>2, <1>3

(* Split, by recursion on the text. *)
LEMMA CuttingIs ==
  /\ Split(<<>>) = <<<<>>>>
  /\ \A seq \in Text : Split(seq) \in Parts
  /\ \A seq \in Text, c \in Characters : Split(Append(seq, c)) = Segmented(Split(seq), c)
<1>0. Text = Seq(Characters)
  BY DEF Text
<1>1. ASSUME NEW seq \in Text PROVE Folds(Parts, Cutting, <<<<>>>>, seq, Split(seq)) /\ Split(seq) \in Parts
  <2>1. Folds(Parts, Cutting, <<<<>>>>, seq, Split(seq))
    BY CuttingFolds
  <2> QED BY <1>0, <2>1, FoldIn
<1>2. ASSUME NEW seq \in Text, NEW c \in Characters PROVE Split(Append(seq, c)) = Segmented(Split(seq), c)
  <2>1. seq \in Seq(Characters) /\ Append(seq, c) \in Text
    BY <1>0, AppendProperties
  <2>2. Folds(Parts, Cutting, <<<<>>>>, seq, Split(seq)) /\ Folds(Parts, Cutting, <<<<>>>>, Append(seq, c), Split(Append(seq, c)))
    BY <1>1, <2>1
  <2>3. Split(Append(seq, c)) = Cutting[<<Split(seq), c>>]
    BY <2>1, <2>2, FoldOfMore
  <2> QED BY <1>1, <2>3, CuttingKeeps
<1>3. Split(<<>>) = <<<<>>>>
  <2>1. <<>> \in Text
    BY <1>0, EmptySeq
  <2> QED BY <1>1, <2>1, FoldOfNone
<1> QED BY <1>1, <1>2, <1>3

(* The reading of a segment, by recursion on it. *)
LEMMA DecodingIs ==
  /\ Reading(<<>>) = Undecoded
  /\ \A seq \in Text : Reading(seq) \in Decodings
  /\ \A seq \in Text, c \in Characters : Reading(Append(seq, c)) = Decoded(Reading(seq), c)
<1>0. Text = Seq(Characters)
  BY DEF Text
<1>1. ASSUME NEW seq \in Text PROVE Folds(Decodings, Decoding, Undecoded, seq, Reading(seq)) /\ Reading(seq) \in Decodings
  <2>1. Folds(Decodings, Decoding, Undecoded, seq, Reading(seq))
    BY DecodingFolds
  <2> QED BY <1>0, <2>1, FoldIn
<1>2. ASSUME NEW seq \in Text, NEW c \in Characters PROVE Reading(Append(seq, c)) = Decoded(Reading(seq), c)
  <2>1. seq \in Seq(Characters) /\ Append(seq, c) \in Text
    BY <1>0, AppendProperties
  <2>2. Folds(Decodings, Decoding, Undecoded, seq, Reading(seq)) /\ Folds(Decodings, Decoding, Undecoded, Append(seq, c), Reading(Append(seq, c)))
    BY <1>1, <2>1
  <2>3. Reading(Append(seq, c)) = Decoding[<<Reading(seq), c>>]
    BY <2>1, <2>2, FoldOfMore
  <2> QED BY <1>1, <2>3, DecodingKeeps
<1>3. Reading(<<>>) = Undecoded
  <2>1. <<>> \in Text
    BY <1>0, EmptySeq
  <2> QED BY <1>1, <2>1, FoldOfNone
<1> QED BY <1>1, <1>2, <1>3

(* Undotted, by recursion on the segments. *)
LEMMA DroppingIs ==
  /\ Undotted(<<>>) = <<>>
  /\ \A seq \in Seq(Text) : Undotted(seq) \in Seq(Text)
  /\ \A seq \in Seq(Text), c \in Text : Undotted(Append(seq, c)) = Dotless(Undotted(seq), c)
<1>1. ASSUME NEW seq \in Seq(Text) PROVE Folds(Seq(Text), Dropping, <<>>, seq, Undotted(seq)) /\ Undotted(seq) \in Seq(Text)
  <2>1. Folds(Seq(Text), Dropping, <<>>, seq, Undotted(seq))
    BY DroppingFolds
  <2> QED BY <2>1, FoldIn
<1>2. ASSUME NEW seq \in Seq(Text), NEW c \in Text PROVE Undotted(Append(seq, c)) = Dotless(Undotted(seq), c)
  <2>1. seq \in Seq(Text) /\ Append(seq, c) \in Seq(Text)
    BY AppendProperties
  <2>2. Folds(Seq(Text), Dropping, <<>>, seq, Undotted(seq)) /\ Folds(Seq(Text), Dropping, <<>>, Append(seq, c), Undotted(Append(seq, c)))
    BY <1>1, <2>1
  <2>3. Undotted(Append(seq, c)) = Dropping[<<Undotted(seq), c>>]
    BY <2>1, <2>2, FoldOfMore
  <2> QED BY <1>1, <2>3, DroppingKeeps
<1>3. Undotted(<<>>) = <<>>
  <2>1. <<>> \in Seq(Text)
    BY EmptySeq
  <2> QED BY <1>1, <2>1, FoldOfNone
<1> QED BY <1>1, <1>2, <1>3

(* The scanning of a condition, by recursion on it. *)
LEMMA LexingIs ==
  /\ Scanning(<<>>) = Unread
  /\ \A seq \in Text : Scanning(seq) \in Lexings
  /\ \A seq \in Text, c \in Characters : Scanning(Append(seq, c)) = Lexed(Scanning(seq), c)
<1>0. Text = Seq(Characters)
  BY DEF Text
<1>1. ASSUME NEW seq \in Text PROVE Folds(Lexings, Lexing, Unread, seq, Scanning(seq)) /\ Scanning(seq) \in Lexings
  <2>1. Folds(Lexings, Lexing, Unread, seq, Scanning(seq))
    BY LexingFolds
  <2> QED BY <1>0, <2>1, FoldIn
<1>2. ASSUME NEW seq \in Text, NEW c \in Characters PROVE Scanning(Append(seq, c)) = Lexed(Scanning(seq), c)
  <2>1. seq \in Seq(Characters) /\ Append(seq, c) \in Text
    BY <1>0, AppendProperties
  <2>2. Folds(Lexings, Lexing, Unread, seq, Scanning(seq)) /\ Folds(Lexings, Lexing, Unread, Append(seq, c), Scanning(Append(seq, c)))
    BY <1>1, <2>1
  <2>3. Scanning(Append(seq, c)) = Lexing[<<Scanning(seq), c>>]
    BY <2>1, <2>2, FoldOfMore
  <2> QED BY <1>1, <2>3, LexingKeeps
<1>3. Scanning(<<>>) = Unread
  <2>1. <<>> \in Text
    BY <1>0, EmptySeq
  <2> QED BY <1>1, <2>1, FoldOfNone
<1> QED BY <1>1, <1>2, <1>3

-----------------------------------------------------------------------------
(* What is written is read back: splitting undoes joining, decoding undoes   *)
(* encoding.                                                                 *)

(* Induction over sequences, by their length. *)
LEMMA SeqInduction ==
  ASSUME NEW A, NEW T, <<>> \in T, \A seq \in Seq(A) : \A c \in A : seq \in T => Append(seq, c) \in T
  PROVE  Seq(A) \subseteq T
<1> DEFINE N == {n \in Nat : \A seq \in Seq(A) : Len(seq) = n => seq \in T}
<1>1. 0 \in N
  BY EmptySeq
<1>2. ASSUME NEW n \in Nat, n \in N PROVE n + 1 \in N
  <2> SUFFICES ASSUME NEW seq \in Seq(A), Len(seq) = n + 1 PROVE seq \in T
    OBVIOUS
  <2> DEFINE front == SubSeq(seq, 1, n)
  <2>1. n + 1 \in 1 .. Len(seq) /\ seq[n + 1] \in A
    OBVIOUS
  <2>2. front \in Seq(A) /\ Len(front) = n /\ \A k \in 1 .. n : front[k] = seq[k]
    OBVIOUS
  <2> HIDE DEF front
  <2>3. Append(front, seq[n + 1]) = seq
    <3> DEFINE more == Append(front, seq[n + 1])
    <3>1. more \in Seq(A) /\ Len(more) = n + 1 /\ more[n + 1] = seq[n + 1] /\ \A k \in 1 .. n : more[k] = seq[k]
      BY <2>1, <2>2, AppendProperties
    <3>2. \A k \in 1 .. (n + 1) : k = n + 1 \/ k \in 1 .. n
      OBVIOUS
    <3> HIDE DEF more
    <3>3. \A k \in 1 .. Len(more) : more[k] = seq[k]
      BY <3>1, <3>2
    <3>4. more = seq
      BY <3>1, <3>3, SeqEqual
    <3> QED BY <3>4 DEF more
  <2>4. front \in T
    BY <1>2, <2>2
  <2> QED BY <2>1, <2>2, <2>3, <2>4
<1>3. Nat \subseteq N
  <2> HIDE DEF N
  <2> QED BY <1>1, <1>2, SetInduction
<1> QED BY <1>3

(* What is appended to the second of two sequences is appended to both. *)
LEMMA ConcatAppend ==
  ASSUME NEW A, NEW s \in Seq(A), NEW t \in Seq(A), NEW c \in A
  PROVE  s \o Append(t, c) = Append(s \o t, c)
  OBVIOUS

(* A sequence of one, put after another, is an Append. *)
LEMMA ConcatOne ==
  ASSUME NEW A, NEW s \in Seq(A), NEW c \in A
  PROVE  s \o <<c>> = Append(s, c) /\ s \o <<c>> \in Seq(A) /\ <<c>> \in Seq(A)
  OBVIOUS

(* What a change of one member leaves of a sequence. *)
LEMMA ExceptIs ==
  ASSUME NEW A, NEW s \in Seq(A), NEW n \in 1 .. Len(s), NEW c \in A
  PROVE  /\ [s EXCEPT ![n] = c] \in Seq(A) /\ Len([s EXCEPT ![n] = c]) = Len(s)
         /\ \A k \in 1 .. Len(s) : [s EXCEPT ![n] = c][k] = IF k = n THEN c ELSE s[k]
  OBVIOUS

(* A sequence of two, put after another, is two Appends. *)
LEMMA ConcatTwo ==
  ASSUME NEW A, NEW s \in Seq(A), NEW c \in A, NEW d \in A
  PROVE  s \o <<c, d>> = Append(Append(s, c), d)
  OBVIOUS

(* A slash begins a segment, in which what follows ends up. *)
LEMMA SplitAfterSlash ==
  ASSUME NEW s \in Text
  PROVE  \A t \in Text : Split((s \o <<"/">>) \o t) = Split(s) \o Split(t)
<1> DEFINE url == s \o <<"/">>
           T == {t \in Text : Split(url \o t) = Split(s) \o Split(t)}
<1>0. url \in Text /\ "/" \in Characters /\ url = Append(s, "/")
  BY CallsAssumption, ConcatOne DEF Text
<1>1. <<>> \in T
  <2>1. Split(url) = Append(Split(s), <<>>) /\ Split(s) \in Seq(Text)
    BY <1>0, CuttingIs DEF Segmented, Parts
  <2>2. url \o <<>> = url /\ <<>> \in Text
    BY <1>0, EmptySeq, ConcatEmptySeq DEF Text
  <2>3. Append(Split(s), <<>>) = Split(s) \o <<<<>>>>
    BY <2>1, <2>2, ConcatOne
  <2> QED BY <2>1, <2>2, <2>3, CuttingIs
<1>2. ASSUME NEW t \in Seq(Characters), NEW c \in Characters, t \in T PROVE Append(t, c) \in T
  <2> DEFINE x == Split(s)
             y == Split(t)
  <2>1. t \in Text /\ Append(t, c) \in Text /\ url \o t \in Text /\ url \o Append(t, c) = Append(url \o t, c)
    BY <1>0 DEF Text
  <2>2. x \in Seq(Text) /\ y \in Seq(Text) /\ y # <<>> /\ Len(y) \in 1 .. Len(y) /\ Len(x) \in Nat
    <3>1. x \in Parts /\ y \in Parts
      BY <2>1, CuttingIs
    <3>2. x \in Seq(Text) /\ y \in Seq(Text) /\ y # <<>>
      BY <3>1 DEF Parts
    <3> HIDE DEF x, y
    <3> QED BY <3>2, EmptySeq
  <2>3. Split(url \o Append(t, c)) = Segmented(x \o y, c) /\ Split(Append(t, c)) = Segmented(y, c)
    BY <1>2, <2>1, CuttingIs
  <2> HIDE DEF x, y, T
  <2>4. Segmented(x \o y, c) = x \o Segmented(y, c)
    <3>1. CASE c = "/"
      <4>1. <<>> \in Text
        BY EmptySeq DEF Text
      <4>2. x \o Append(y, <<>>) = Append(x \o y, <<>>)
        BY <2>2, <4>1, ConcatAppend
      <4> QED BY <3>1, <4>2 DEF Segmented
    <3>2. CASE c # "/"
      <4> DEFINE m == Len(y)
                 z == Append(y[m], c)
                 u == [y EXCEPT ![m] = z]
                 v == [x \o y EXCEPT ![Len(x) + m] = z]
      <4>1. Len(x \o y) = Len(x) + m /\ x \o y \in Seq(Text) /\ (x \o y)[Len(x) + m] = y[m]
        BY <2>2, ConcatProperties
      <4>2. z \in Text
        <5>1. y[m] \in Text
          BY <2>2
        <5> QED BY <5>1, AppendProperties DEF Text
      <4>3. /\ u \in Seq(Text) /\ Len(u) = m
            /\ \A k \in 1 .. m : u[k] = IF k = m THEN z ELSE y[k]
        BY <2>2, <4>2, ExceptIs
      <4>4. /\ v \in Seq(Text) /\ Len(v) = Len(x) + m
            /\ \A k \in 1 .. (Len(x) + m) : v[k] = IF k = Len(x) + m THEN z ELSE (x \o y)[k]
        <5>1. Len(x) + m \in 1 .. Len(x \o y)
          BY <2>2, <4>1
        <5> DEFINE w == x \o y
                   n == Len(x) + m
        <5>2. w \in Seq(Text) /\ n \in 1 .. Len(w) /\ Len(w) = n
          BY <4>1, <5>1
        <5> HIDE DEF m, z, w, n
        <5>3. /\ [w EXCEPT ![n] = z] \in Seq(Text) /\ Len([w EXCEPT ![n] = z]) = n
              /\ \A k \in 1 .. n : [w EXCEPT ![n] = z][k] = IF k = n THEN z ELSE w[k]
          BY <4>2, <5>2, ExceptIs
        <5> QED BY <5>3 DEF w, n
      <4>10. m \in Nat
        BY <2>2
      <4> HIDE DEF u, v, z
      <4>5. x \o u \in Seq(Text) /\ Len(x \o u) = Len(x) + m
            /\ \A k \in 1 .. (Len(x) + m) : (x \o u)[k] = IF k <= Len(x) THEN x[k] ELSE u[k - Len(x)]
        <5> HIDE DEF m
        <5> QED BY <2>2, <4>3, ConcatProperties
      <4>6. \A k \in 1 .. (Len(x) + m) : (x \o y)[k] = IF k <= Len(x) THEN x[k] ELSE y[k - Len(x)]
        BY <2>2, ConcatProperties
      <4>7. \A k \in 1 .. (Len(x) + m) : v[k] = (x \o u)[k]
        <5> SUFFICES ASSUME NEW k \in 1 .. (Len(x) + m) PROVE v[k] = (x \o u)[k]
          OBVIOUS
        <5>1. CASE k <= Len(x)
          <6>1. k # Len(x) + m
            BY <2>2, <5>1
          <6> QED BY <4>4, <4>5, <4>6, <5>1, <6>1
        <5>2. CASE ~(k <= Len(x))
          <6>1. k - Len(x) \in 1 .. m /\ (k - Len(x) = m <=> k = Len(x) + m)
            BY <2>2, <5>2
          <6> QED BY <4>3, <4>4, <4>5, <4>6, <5>2, <6>1
        <5> QED BY <5>1, <5>2
      <4>8. v = x \o u
        BY <4>4, <4>5, <4>7, SeqEqual
      <4>9. Segmented(x \o y, c) = v /\ Segmented(y, c) = u
        BY <3>2, <4>1 DEF Segmented, u, v, z
      <4> QED BY <4>8, <4>9
    <3> QED BY <3>1, <3>2
  <2> QED BY <2>1, <2>3, <2>4 DEF T, x, y
<1>3. Text \subseteq T
  <2> HIDE DEF T
  <2> QED BY <1>1, <1>2, SeqInduction DEF Text
<1> QED BY <1>3

(* Without a slash, a text is one segment. *)
Solid == Seq(Characters \ {"/"})

(* Such a text is a text. *)
LEMMA SolidIsText == Solid \subseteq Text
<1> QED BY DEF Solid, Text

(* It is cut nowhere. *)
LEMMA SplitOfSolid == \A t \in Solid : Split(t) = <<t>>
<1> DEFINE T == {t \in Solid : Split(t) = <<t>>}
<1>1. <<>> \in T
  BY EmptySeq, CuttingIs DEF Solid
<1>2. ASSUME NEW t \in Solid, NEW c \in Characters \ {"/"}, t \in T PROVE Append(t, c) \in T
  <2>1. Append(t, c) \in Solid /\ t \in Text
    BY SolidIsText DEF Solid
  <2>2. Split(Append(t, c)) = Segmented(<<t>>, c)
    BY <1>2, <2>1, CuttingIs
  <2>3. Segmented(<<t>>, c) = <<Append(t, c)>>
    BY DEF Segmented
  <2> QED BY <2>1, <2>2, <2>3
<1>3. Solid \subseteq T
  <2> HIDE DEF T
  <2> QED BY <1>1, <1>2, SeqInduction DEF Solid
<1> QED BY <1>3

(* A slash and such a text, at the end of a URL, are one segment more. *)
LEMMA SplitSegment ==
  ASSUME NEW s \in Text, NEW t \in Solid
  PROVE  Split((s \o <<"/">>) \o t) = Append(Split(s), t)
<1>1. t \in Text /\ Split(s) \in Seq(Text)
  BY SolidIsText, CuttingIs DEF Parts
<1>2. Split((s \o <<"/">>) \o t) = Split(s) \o <<t>>
  BY <1>1, SplitAfterSlash, SplitOfSolid
<1> QED BY <1>1, <1>2, ConcatOne

(* Without either mark a text is read as a segment of a URL. *)
Plain == Seq(Characters \ {"/", "#"})

(* push_segment leaves neither mark in what it writes, whatever the name. *)
LEMMA EncodedIsPlain ==
  \A t \in Text : push_segment(t) \in Plain
<1> DEFINE T == {t \in Text : push_segment(t) \in Plain}
<1>1. <<>> \in T
  BY EmptySeq, EncodingIs DEF Plain, Text
<1>2. ASSUME NEW t \in Seq(Characters), NEW c \in Characters, t \in T PROVE Append(t, c) \in T
  <2>1. Append(t, c) \in Text /\ t \in Text
    BY DEF Text
  <2>2. push_segment(Append(t, c)) = Encoded(push_segment(t), c)
    BY <2>1, EncodingIs
  <2>3. Encoded(push_segment(t), c) \in Plain
    <3> DEFINE P == Characters \ {"/", "#"}
    <3>1. push_segment(t) \in Seq(P)
      BY <1>2 DEF Plain
    <3>2. CASE c \in DOMAIN Code
      <4>1. "%" \in P /\ Code[c] \in P
        BY <3>2, CallsAssumption
      <4> HIDE DEF P
      <4>2. push_segment(t) \o <<"%", Code[c]>> \in Seq(P)
        BY <3>1, <4>1
      <4> QED BY <3>2, <4>2 DEF Encoded, P, Plain
    <3>3. CASE c \notin DOMAIN Code
      <4>1. c \in P
        BY <3>3, CallsAssumption
      <4> HIDE DEF P
      <4>2. push_segment(t) \o <<c>> \in Seq(P)
        BY <3>1, <4>1
      <4> QED BY <3>3, <4>2 DEF Encoded, P, Plain
    <3> QED BY <3>2, <3>3
  <2> QED BY <2>1, <2>2, <2>3
<1>3. Text \subseteq T
  <2> HIDE DEF T
  <2> QED BY <1>1, <1>2, SeqInduction DEF Text
<1> QED BY <1>3

(* A code is read as the character it stands for. *)
LEMMA CodeIsRead == \A c \in DOMAIN Code : Character(Code[c]) = c
  BY CallsAssumption DEF Character

(* The reader of a segment undoes push_segment, and is left in no escape. *)
LEMMA ReadingEncoded ==
  \A t \in Text : Reading(push_segment(t)) = [text |-> t, escaped |-> FALSE]
<1> DEFINE T == {t \in Text : Reading(push_segment(t)) = [text |-> t, escaped |-> FALSE]}
<1>1. <<>> \in T
  BY EmptySeq, EncodingIs, DecodingIs DEF Text, Undecoded
<1>2. ASSUME NEW t \in Seq(Characters), NEW c \in Characters, t \in T PROVE Append(t, c) \in T
  <2> DEFINE p == push_segment(t)
  <2>1. Append(t, c) \in Text /\ t \in Text /\ p \in Text /\ "%" \in Characters
    BY EncodingIs, CallsAssumption DEF Text
  <2>2. push_segment(Append(t, c)) = Encoded(p, c)
    BY <2>1, EncodingIs
  <2>3. Reading(p) = [text |-> t, escaped |-> FALSE]
    BY <1>2
  <2> HIDE DEF p
  <2>4. CASE c \in DOMAIN Code
    <3>1. Code[c] \in Characters
      BY <2>4, CallsAssumption
    <3>2. Append(p, "%") \in Text /\ Encoded(p, c) = Append(Append(p, "%"), Code[c])
      BY <2>1, <2>4, <3>1, ConcatTwo DEF Encoded, Text
    <3>3. Reading(Append(p, "%")) = [text |-> t, escaped |-> TRUE]
      BY <2>1, <2>3, DecodingIs DEF Decoded
    <3>4. Reading(Append(Append(p, "%"), Code[c])) = Decoded([text |-> t, escaped |-> TRUE], Code[c])
      BY <3>1, <3>2, <3>3, DecodingIs
    <3>5. Decoded([text |-> t, escaped |-> TRUE], Code[c]) = [text |-> Append(t, c), escaped |-> FALSE]
      BY <2>4, CodeIsRead DEF Decoded
    <3> QED BY <2>1, <2>2, <3>2, <3>4, <3>5
  <2>5. CASE c \notin DOMAIN Code
    <3>1. c # "%"
      BY <2>5, CallsAssumption
    <3>2. Encoded(p, c) = Append(p, c)
      BY <2>1, <2>5, ConcatOne DEF Encoded, Text
    <3>3. Reading(Append(p, c)) = Decoded([text |-> t, escaped |-> FALSE], c)
      BY <2>1, <2>3, DecodingIs
    <3>4. Decoded([text |-> t, escaped |-> FALSE], c) = [text |-> Append(t, c), escaped |-> FALSE]
      BY <3>1 DEF Decoded
    <3> QED BY <2>1, <2>2, <3>2, <3>3, <3>4
  <2> QED BY <2>4, <2>5
<1>3. Text \subseteq T
  <2> HIDE DEF T
  <2> QED BY <1>1, <1>2, SeqInduction DEF Text
<1> QED BY <1>3

(* Whatever a name is made of, what push_segment writes is decoded to it. *)
LEMMA DecodedIsWritten == \A t \in Text : Decode(push_segment(t)) = t
<1> SUFFICES ASSUME NEW t \in Text PROVE Decode(push_segment(t)) = t
  OBVIOUS
<1>1. \A segment : Decode(segment) = Reading(segment).text
  BY DEF Decode, Reading, Undecoded
<1> QED BY <1>1, ReadingEncoded

(* A word other than the escape is decoded to itself. *)
LEMMA DecodedWord == \A w \in Characters \ {"%"} : Decode(<<w>>) = <<w>>
<1> SUFFICES ASSUME NEW w \in Characters, w # "%" PROVE Decode(<<w>>) = <<w>>
  OBVIOUS
<1>1. \A segment : Decode(segment) = Reading(segment).text
  BY DEF Decode, Reading, Undecoded
<1>2. <<>> \in Text /\ <<w>> = Append(<<>>, w)
  BY EmptySeq DEF Text
<1>3. Reading(<<w>>) = Decoded(Undecoded, w)
  BY <1>2, DecodingIs
<1> QED BY <1>1, <1>2, <1>3 DEF Decoded, Undecoded

-----------------------------------------------------------------------------
(* A call's path leads to its object, whatever its names are made of.        *)

(* Without the mark of a fragment a URL is sent whole. *)
Fragmentless == Seq(Characters \ {"#"})

(* Where the ingress and the admin API are published, as the handle keeps   *)
(* it.                                                                      *)
Address == <<"host">> \o Prefix

(* Such a URL is a text; a plain text is one, and is cut nowhere. *)
LEMMA FragmentlessIsText == Fragmentless \subseteq Text /\ Plain \subseteq Fragmentless /\ Plain \subseteq Solid
<1> QED BY DEF Fragmentless, Plain, Solid, Text

(* The HTTP client drops nothing but segments of dots from it. *)
LEMMA SentWhole == \A url \in Fragmentless : Sent(url) = Undotted(Split(url))
<1> SUFFICES ASSUME NEW url \in Fragmentless PROVE Sent(url) = Undotted(Split(url))
  OBVIOUS
<1>1. \A k \in DOMAIN url : url[k] # "#"
  BY DEF Fragmentless
<1>2. {k \in DOMAIN url : url[k] = "#"} = {}
  BY <1>1
<1> QED BY <1>2, Zenon DEF Sent

(* A segment more is sent last, unless it is one of dots. *)
LEMMA SentMore ==
  ASSUME NEW url \in Fragmentless, NEW t \in Plain, Decode(t) \notin Dots
  PROVE  /\ (url \o <<"/">>) \o t \in Fragmentless
         /\ Sent((url \o <<"/">>) \o t) = Append(Sent(url), t)
         /\ Sent(url) \in Seq(Text)
<1>1. url \in Text /\ t \in Text /\ t \in Solid /\ t \in Fragmentless
  BY FragmentlessIsText
<1>2. (url \o <<"/">>) \o t \in Fragmentless
  <2> DEFINE P == Characters \ {"#"}
  <2>1. "/" \in P
    BY CallsAssumption
  <2> HIDE DEF P
  <2>2. url \in Seq(P) /\ t \in Seq(P)
    BY <1>1 DEF Fragmentless, P
  <2>3. (url \o <<"/">>) \o t \in Seq(P)
    BY <2>1, <2>2
  <2> QED BY <2>3 DEF Fragmentless, P
<1>3. Split(url) \in Seq(Text)
  BY <1>1, CuttingIs DEF Parts
<1>4. Undotted(Append(Split(url), t)) = Append(Undotted(Split(url)), t)
  BY <1>1, <1>3, DroppingIs DEF Dotless
<1>5. Undotted(Split(url)) \in Seq(Text)
  BY <1>3, DroppingIs
<1> QED BY <1>1, <1>2, <1>4, <1>5, SplitSegment, SentWhole

(* The address is sent as the segments under which it is published. *)
LEMMA AddressSent == Address \in Fragmentless /\ Sent(Address) = Published /\ Published \in Parts
<1>1. Prefix \in Seq(Characters) /\ \A k \in DOMAIN Prefix : Prefix[k] # "#"
  BY IngressAssumption DEF Text, Range
<1>2. Prefix \in Fragmentless
  BY <1>1 DEF Fragmentless
<1>3. "host" \in Characters \ {"#"}
  BY CallsAssumption DEF Words
<1>4. Address \in Fragmentless
  BY <1>2, <1>3 DEF Address, Fragmentless
<1>5. Published = Split(Address)
  BY DEF Published, Address
<1> QED BY <1>4, <1>5, SentWhole, IngressAssumption, CuttingIs, FragmentlessIsText

(* A word is a segment of its own, and names no directory. *)
LEMMA WordIsSegment ==
  \A w \in {"restate", "scope", "call", "send", "query"} :
    w \in Characters /\ <<w>> \in Plain /\ Decode(<<w>>) = <<w>> /\ <<w>> \notin Dots
<1> SUFFICES ASSUME NEW w \in {"restate", "scope", "call", "send", "query"}
             PROVE  w \in Characters /\ <<w>> \in Plain /\ Decode(<<w>>) = <<w>> /\ <<w>> \notin Dots
  OBVIOUS
<1>1. w \in Characters /\ w \notin {"/", "#", "%", "."}
  BY CallsAssumption DEF Words
<1>2. Decode(<<w>>) = <<w>>
  BY <1>1, DecodedWord
<1>3. <<w>> \notin Dots
  <2>1. <<w>> # <<".">>
    <3>1. <<w>>[1] = w /\ <<".">>[1] = "."
      OBVIOUS
    <3> QED BY <1>1, <3>1
  <2>2. <<w>> # <<".", ".">>
    <3>1. Len(<<w>>) = 1 /\ Len(<<".", ".">>) = 2
      OBVIOUS
    <3> QED BY <3>1
  <2> QED BY <2>1, <2>2 DEF Dots
<1>4. <<w>> \in Plain
  BY <1>1 DEF Plain
<1> QED BY <1>1, <1>2, <1>3, <1>4

(* A name that can be sent is a segment of its own. *)
LEMMA NameIsSegment ==
  \A t \in Text \ Dots : push_segment(t) \in Plain /\ Decode(push_segment(t)) = t /\ t \notin Dots
  BY EncodedIsPlain, DecodedIsWritten

(* A sequence of two, put after another, one at a time. *)
LEMMA ConcatPair ==
  ASSUME NEW A, NEW s \in Seq(A), NEW c \in A, NEW d \in A
  PROVE  s \o <<c, d>> = (s \o <<c>>) \o <<d>> /\ <<c, d>> \in Seq(A)
<1>1. s \o <<c>> = Append(s, c) /\ Append(s, c) \in Seq(A)
  BY ConcatOne
<1>2. Append(s, c) \o <<d>> = Append(Append(s, c), d)
  BY <1>1, ConcatOne
<1>3. s \o <<c, d>> = Append(Append(s, c), d)
  BY ConcatTwo
<1>4. <<c, d>> \in Seq(A)
  OBVIOUS
<1> QED BY <1>1, <1>2, <1>3, <1>4, Zenon

(* A sequence of three, put after another, one at a time. *)
LEMMA ConcatThree ==
  ASSUME NEW A, NEW s \in Seq(A), NEW c \in A, NEW d \in A, NEW e \in A
  PROVE  s \o <<c, d, e>> = ((s \o <<c>>) \o <<d>>) \o <<e>> /\ <<c, d, e>> \in Seq(A)
<1>1. <<c, d>> \in Seq(A) /\ <<c, d, e>> \in Seq(A)
  OBVIOUS
<1>2. <<c, d, e>> = Append(<<c, d>>, e)
  OBVIOUS
<1>3. s \o Append(<<c, d>>, e) = Append(s \o <<c, d>>, e) /\ s \o <<c, d>> \in Seq(A)
  BY <1>1, ConcatAppend, ConcatProperties
<1>4. (s \o <<c, d>>) \o <<e>> = Append(s \o <<c, d>>, e)
  BY <1>3, ConcatOne
<1>5. s \o <<c, d>> = (s \o <<c>>) \o <<d>>
  BY ConcatPair
<1> QED BY <1>1, <1>2, <1>3, <1>4, <1>5, Zenon

(* Concatenation, by another name: what it does to each place is left aside. *)
Joined(s, t) == s \o t

(* Concatenation is associative. *)
LEMMA JoinedRegroups ==
  ASSUME NEW A, NEW s \in Seq(A), NEW t \in Seq(A), NEW u \in Seq(A)
  PROVE  Joined(s, Joined(t, u)) = Joined(Joined(s, t), u) /\ Joined(s, t) \in Seq(A)
<1>1. s \o (t \o u) = (s \o t) \o u
  BY ConcatAssociative, SMTT(30)
<1>2. s \o t \in Seq(A)
  BY ConcatProperties
<1> QED BY <1>1, <1>2, Zenon DEF Joined

(* The segments of a call's path. *)
LEMMA SentPath ==
  ASSUME NEW called \in CallType, Sendable(called)
  PROVE  LET restate == Append(Published, <<"restate">>)
             scoped == IF called.scope = Null THEN restate
                       ELSE Append(Append(restate, <<"scope">>), push_segment(called.scope))
             service == Append(Append(scoped, <<called.mode>>), push_segment(called.service))
             keyed == IF called.key = Null THEN service ELSE Append(service, push_segment(called.key))
         IN Sent(Address \o path(called)) = Append(keyed, push_segment(called.handler))
<1> DEFINE P == Characters \ {"#"}
           a == <<"/", "restate">>
           b == IF called.scope = Null THEN <<>> ELSE <<"/", "scope", "/">> \o push_segment(called.scope)
           c == <<"/", called.mode, "/">>
           d == push_segment(called.service)
           e == IF called.key = Null THEN <<>> ELSE <<"/">> \o push_segment(called.key)
           f == <<"/">>
           g == push_segment(called.handler)
           u0 == Address
           u1 == u0 \o a
           u2 == u1 \o b
           u4 == (u2 \o c) \o d
           u5 == u4 \o e
<1>0. /\ called.service \in Text \ Dots /\ called.handler \in Text \ Dots
      /\ called.key \in (Text \ Dots) \cup {Null} /\ called.scope \in (Text \ Dots) \cup {Null}
      /\ called.mode \in {"call", "send"}
  BY DEF CallType, Sendable
<1>1. Fragmentless = Seq(P) /\ "/" \in P /\ \A t \in Text \ Dots : push_segment(t) \in Seq(P)
  BY CallsAssumption, NameIsSegment, FragmentlessIsText DEF Fragmentless
<1>2. \A w \in {"restate", "scope", "call", "send"} : w \in P
  BY WordIsSegment
<1>3. /\ u0 \in Seq(P) /\ a \in Seq(P) /\ b \in Seq(P) /\ c \in Seq(P) /\ d \in Seq(P)
      /\ e \in Seq(P) /\ f \in Seq(P) /\ g \in Seq(P)
  <2> HIDE DEF P
  <2>1. u0 \in Seq(P)
    BY <1>1, AddressSent
  <2>2. a \in Seq(P) /\ c \in Seq(P) /\ f \in Seq(P) /\ <<"/", "scope", "/">> \in Seq(P)
    BY <1>0, <1>1, <1>2
  <2>3. d \in Seq(P) /\ g \in Seq(P)
    BY <1>0, <1>1
  <2>4. b \in Seq(P)
    <3>1. CASE called.scope = Null
      BY <3>1, EmptySeq
    <3>2. CASE called.scope # Null
      <4>1. push_segment(called.scope) \in Seq(P)
        BY <1>0, <1>1, <3>2
      <4> QED BY <2>2, <3>2, <4>1, ConcatProperties
    <3> QED BY <3>1, <3>2
  <2>5. e \in Seq(P)
    <3>1. CASE called.key = Null
      BY <3>1, EmptySeq
    <3>2. CASE called.key # Null
      <4>1. push_segment(called.key) \in Seq(P)
        BY <1>0, <1>1, <3>2
      <4> QED BY <2>2, <3>2, <4>1, ConcatProperties
    <3> QED BY <3>1, <3>2
  <2> QED BY <2>1, <2>2, <2>3, <2>4, <2>5
<1>4. Address \o path(called) = (u5 \o f) \o g
  <2>0. path(called) = (((((a \o b) \o c) \o d) \o e) \o f) \o g
    BY Zenon DEF path
  <2> HIDE DEF P, a, b, c, d, e, f, g, u0
  <2>1. u0 \o ((((((a \o b) \o c) \o d) \o e) \o f) \o g) = (u5 \o f) \o g
    <3> DEFINE x1 == Joined(a, b)
               x2 == Joined(x1, c)
               x3 == Joined(x2, d)
               x4 == Joined(x3, e)
               x5 == Joined(x4, f)
    <3>1. /\ x1 \in Seq(P) /\ x2 \in Seq(P) /\ x3 \in Seq(P) /\ x4 \in Seq(P) /\ x5 \in Seq(P)
      BY <1>3, JoinedRegroups
    <3>2. /\ Joined(u0, Joined(x5, g)) = Joined(Joined(u0, x5), g)
          /\ Joined(u0, Joined(x4, f)) = Joined(Joined(u0, x4), f)
          /\ Joined(u0, Joined(x3, e)) = Joined(Joined(u0, x3), e)
          /\ Joined(u0, Joined(x2, d)) = Joined(Joined(u0, x2), d)
          /\ Joined(u0, Joined(x1, c)) = Joined(Joined(u0, x1), c)
          /\ Joined(u0, Joined(a, b)) = Joined(Joined(u0, a), b)
      <4> HIDE DEF x1, x2, x3, x4, x5
      <4>1. ASSUME NEW y \in Seq(P), NEW z \in Seq(P) PROVE Joined(u0, Joined(y, z)) = Joined(Joined(u0, y), z)
        BY <1>3, JoinedRegroups
      <4>2. /\ a \in Seq(P) /\ b \in Seq(P) /\ c \in Seq(P) /\ d \in Seq(P)
            /\ e \in Seq(P) /\ f \in Seq(P) /\ g \in Seq(P)
        BY <1>3
      <4> QED BY <3>1, <4>1, <4>2, Zenon
    <3>3. Joined(u0, x1) = Joined(Joined(u0, a), b)
      BY <3>2, Zenon
    <3>4. Joined(u0, x2) = Joined(Joined(Joined(u0, a), b), c)
      <4> HIDE DEF x1
      <4> QED BY <3>2, <3>3, Zenon
    <3>5. Joined(u0, x3) = Joined(Joined(Joined(Joined(u0, a), b), c), d)
      <4> HIDE DEF x2
      <4> QED BY <3>2, <3>4, Zenon
    <3>6. Joined(u0, x4) = Joined(Joined(Joined(Joined(Joined(u0, a), b), c), d), e)
      <4> HIDE DEF x3
      <4> QED BY <3>2, <3>5, Zenon
    <3>7. Joined(u0, x5) = Joined(Joined(Joined(Joined(Joined(Joined(u0, a), b), c), d), e), f)
      <4> HIDE DEF x4
      <4> QED BY <3>2, <3>6, Zenon
    <3>8. Joined(u0, Joined(x5, g)) =
            Joined(Joined(Joined(Joined(Joined(Joined(Joined(u0, a), b), c), d), e), f), g)
      <4> HIDE DEF x5
      <4> QED BY <3>2, <3>7, Zenon
    <3> QED BY <3>8, Zenon DEF Joined
  <2> QED BY <2>0, <2>1, Zenon DEF u0
<1>5. u1 \in Fragmentless /\ Sent(u1) = Append(Published, <<"restate">>)
  <2>1. u1 = (u0 \o <<"/">>) \o <<"restate">>
    <3> HIDE DEF P, u0
    <3> QED BY <1>1, <1>2, <1>3, ConcatPair, SMTT(30)
  <2> QED BY <2>1, AddressSent, WordIsSegment, SentMore
<1>6. /\ u2 \in Fragmentless
      /\ Sent(u2) = IF called.scope = Null THEN Sent(u1)
                    ELSE Append(Append(Sent(u1), <<"scope">>), push_segment(called.scope))
  <2> HIDE DEF u1
  <2>1. CASE called.scope = Null
    <3>1. u2 = u1
      <4>1. u2 = u1 \o <<>>
        BY <2>1
      <4> QED BY <1>5, <4>1, ConcatEmptySeq DEF Fragmentless
    <3> QED BY <1>5, <2>1, <3>1
  <2>2. CASE called.scope # Null
    <3> DEFINE p == push_segment(called.scope)
               v == (u1 \o <<"/">>) \o <<"scope">>
    <3>1. p \in Seq(P) /\ u1 \in Seq(P) /\ p \in Plain /\ Decode(p) \notin Dots
      BY <1>0, <1>1, <1>5, <2>2, NameIsSegment
    <3>2. u2 = (v \o <<"/">>) \o p
      <4>1. u2 = u1 \o (<<"/", "scope", "/">> \o p)
        BY <2>2
      <4> HIDE DEF P, p
      <4>2. <<"/", "scope", "/">> \in Seq(P)
        BY <1>1, <1>2
      <4>3. u2 = (u1 \o <<"/", "scope", "/">>) \o p
        BY <3>1, <4>1, <4>2, ConcatAssociative, SMTT(30)
      <4>4. u1 \o <<"/", "scope", "/">> = v \o <<"/">>
        BY <1>1, <1>2, <3>1, ConcatThree, SMTT(30)
      <4> QED BY <4>3, <4>4
    <3> HIDE DEF p
    <3>3. v \in Fragmentless /\ Sent(v) = Append(Sent(u1), <<"scope">>)
      BY <1>5, WordIsSegment, SentMore
    <3> HIDE DEF v, u2
    <3>4. u2 \in Fragmentless /\ Sent(u2) = Append(Sent(v), p)
      BY <3>1, <3>2, <3>3, SentMore
    <3> QED BY <2>2, <3>3, <3>4 DEF p
  <2> QED BY <2>1, <2>2
<1>7. /\ u4 \in Fragmentless
      /\ Sent(u4) = Append(Append(Sent(u2), <<called.mode>>), push_segment(called.service))
  <2> HIDE DEF u2
  <2> DEFINE v == (u2 \o <<"/">>) \o <<called.mode>>
  <2>1. u2 \o c = v \o <<"/">>
    <3>1. u2 \in Seq(P) /\ called.mode \in P
      BY <1>0, <1>1, <1>2, <1>6
    <3> HIDE DEF P
    <3> QED BY <1>1, <3>1, ConcatThree, SMTT(30)
  <2>2. v \in Fragmentless /\ Sent(v) = Append(Sent(u2), <<called.mode>>)
    BY <1>0, <1>6, WordIsSegment, SentMore
  <2>3. u4 = (v \o <<"/">>) \o d
    BY <2>1
  <2>4. d \in Plain /\ Decode(d) \notin Dots
    BY <1>0, NameIsSegment
  <2> HIDE DEF v, u4, d
  <2> QED BY <2>2, <2>3, <2>4, SentMore DEF d
<1>8. /\ u5 \in Fragmentless
      /\ Sent(u5) = IF called.key = Null THEN Sent(u4) ELSE Append(Sent(u4), push_segment(called.key))
  <2> HIDE DEF u4
  <2>1. CASE called.key = Null
    <3>1. u5 = u4 \o <<>>
      BY <2>1
    <3>2. u5 = u4
      BY <1>7, <3>1, ConcatEmptySeq DEF Fragmentless
    <3> QED BY <1>7, <2>1, <3>2
  <2>2. CASE called.key # Null
    <3> DEFINE p == push_segment(called.key)
    <3>1. p \in Seq(P) /\ u4 \in Seq(P) /\ p \in Plain /\ Decode(p) \notin Dots
      BY <1>0, <1>1, <1>7, <2>2, NameIsSegment
    <3>2. u5 = (u4 \o <<"/">>) \o p
      <4>1. u5 = u4 \o (<<"/">> \o p)
        BY <2>2
      <4> HIDE DEF P, p
      <4>2. <<"/">> \in Seq(P)
        BY <1>1
      <4> QED BY <3>1, <4>1, <4>2, ConcatAssociative, SMTT(30)
    <3> HIDE DEF p, u5
    <3> QED BY <1>7, <2>2, <3>1, <3>2, SentMore DEF p
  <2> QED BY <2>1, <2>2
<1>9. Sent((u5 \o f) \o g) = Append(Sent(u5), g)
  <2>1. g \in Plain /\ Decode(g) \notin Dots
    BY <1>0, NameIsSegment
  <2> HIDE DEF u5, g
  <2> QED BY <1>8, <2>1, SentMore
<1> HIDE DEF u1, u2, u4, u5
<1> QED BY <1>4, <1>5, <1>6, <1>7, <1>8, <1>9

(* What follows the published prefix is passed on. *)
LEMMA ForwardedIs ==
  ASSUME NEW segments \in Seq(Text), segments # <<>>
  PROVE  Forwarded(Published \o segments) = segments
<1> DEFINE p == Published
           n == Len(p)
           m == Len(segments)
           all == p \o segments
<1>1. p \in Seq(Text) /\ p # <<>>
  BY AddressSent DEF Parts
<1> HIDE DEF p
<1>2. n \in Nat \ {0} /\ m \in Nat \ {0}
  BY <1>1, EmptySeq
<1>3. Len(all) = n + m
  BY <1>1, ConcatProperties
<1>4. SubSeq(all, 1, n) = SubSeq(p, 1, n)
  <2>1. 1 \in 1 .. Len(p) /\ n \in 1 .. Len(p)
    BY <1>2
  <2> HIDE DEF n
  <2> QED BY <1>1, <2>1, SubSeqOfConcat1
<1>5. SubSeq(all, n + 1, n + m) = segments
  <2>1. n + 1 \in Len(p) + 1 .. Len(p) + Len(segments) /\ n + m \in Len(p) + 1 .. Len(p) + Len(segments)
    BY <1>2
  <2>2. SubSeq(all, n + 1, n + m) = SubSeq(segments, (n + 1) - Len(p), (n + m) - Len(p))
    BY <1>1, <2>1, SubSeqOfConcat2
  <2>3. (n + 1) - Len(p) = 1 /\ (n + m) - Len(p) = Len(segments)
    BY <1>2
  <2>4. SubSeq(segments, 1, Len(segments)) = segments
    BY SubSeqFull
  <2> QED BY <2>2, <2>3, <2>4
<1> HIDE DEF all, n, m
<1>6. IsPrefix(p, all)
  <2>1. n <= n + m
    BY <1>2
  <2>2. SubSeq(p, 1, Len(p)) = SubSeq(all, 1, Len(p)) /\ Len(p) <= Len(all)
    BY <1>3, <1>4, <2>1 DEF n
  <2> QED BY <2>2, Zenon DEF IsPrefix
<1>7. Forwarded(all) = SubSeq(all, n + 1, n + m)
  BY <1>3, <1>6, Zenon DEF Forwarded, n, p
<1> QED BY <1>5, <1>7 DEF all, p

(* The end of a sequence, place by place. *)
LEMMA SubSeqIs ==
  ASSUME NEW S, NEW s \in Seq(S), NEW m \in 1 .. Len(s), NEW n, n = Len(s)
  PROVE  /\ SubSeq(s, m, n) \in Seq(S) /\ Len(SubSeq(s, m, n)) = n - m + 1
         /\ \A k \in 1 .. (n - m + 1) : SubSeq(s, m, n)[k] = s[m + k - 1]
  OBVIOUS

(* A call is routed to the object it names, when it is deployed. *)
Served(called) ==
  [service |-> called.service, handler |-> called.handler, keyed |-> called.key # Null] \in Deployed

(* Segments that decode to a call are routed to it, if its handler is       *)
(* deployed.                                                                *)
LEMMA RoutedIs ==
  ASSUME NEW called \in CallType, NEW segments \in Seq(Text), NEW from \in {2, 4}, NEW d \in Nat, NEW D,
         d = Len(segments), D = [k \in DOMAIN segments |-> Decode(segments[k])],
         d - from \in {2, 3}, D[1] = <<"restate">>,
         D[from] = <<called.mode>>, D[from + 1] = called.service, D[d] = called.handler,
         called.key = IF d - from = 3 THEN D[from + 2] ELSE Null,
         from = 4 => D[2] = <<"scope">> /\ D[3] = called.scope,
         from = 2 => called.scope = Null
  PROVE  Routed(segments) = IF Served(called) THEN called ELSE Null
<1>0. DOMAIN segments = 1 .. d /\ \A k \in 1 .. d : segments[k] \in Text
  OBVIOUS
<1>a. from \in Nat /\ d > 1 /\ (from = 4 => d > 3) /\ from <= d
  OBVIOUS
<1>1. \A t \in Text : Decode(t) \in Text
  <2>1. \A t \in Text : Reading(t) \in Decodings
    BY DecodingIs
  <2>2. \A t : Decode(t) = Reading(t).text
    BY DEF Decode, Reading, Undecoded
  <2> QED BY <2>1, <2>2 DEF Decodings
<1>2. D \in Seq(Text) /\ Len(D) = d
  BY <1>0, <1>1
<1>3. (Len(D) > 3 /\ D[2] = <<"scope">>) <=> from = 4
  <2>1. CASE from = 4
    BY <1>2, <1>a, <2>1
  <2>2. CASE from = 2
    <3>1. called.mode # "scope"
      BY DEF CallType
    <3>2. <<called.mode>>[1] = called.mode /\ <<"scope">>[1] = "scope"
      OBVIOUS
    <3> QED BY <2>2, <3>1, <3>2
  <2> QED BY <2>1, <2>2
<1> DEFINE rest == SubSeq(D, from, d)
<1>4. /\ rest \in Seq(Text) /\ Len(rest) = d - from + 1
      /\ \A k \in 1 .. (d - from + 1) : rest[k] = D[from + k - 1]
  <2>1. from \in 1 .. Len(D) /\ d = Len(D)
    BY <1>2, <1>a
  <2> QED BY <1>2, <2>1, SubSeqIs
<1> HIDE DEF rest
<1>5. /\ rest[1] = <<called.mode>> /\ rest[2] = called.service /\ rest[Len(rest)] = called.handler
      /\ Len(rest) \in {3, 4} /\ (Len(rest) = 4 <=> d - from = 3)
      /\ called.key = IF Len(rest) = 4 THEN rest[3] ELSE Null
  <2>1. CASE d - from = 2
    <3>1. 1 \in 1 .. (d - from + 1) /\ 2 \in 1 .. (d - from + 1) /\ 3 \in 1 .. (d - from + 1)
      BY <2>1
    <3>2. from + 1 - 1 = from /\ from + 2 - 1 = from + 1 /\ from + 3 - 1 = d /\ d - from + 1 = 3
      BY <2>1
    <3>3. rest[1] = D[from] /\ rest[2] = D[from + 1] /\ rest[3] = D[d] /\ Len(rest) = 3
      BY <1>4, <3>1, <3>2
    <3> QED BY <2>1, <3>3
  <2>2. CASE d - from = 3
    <3>1. 1 \in 1 .. (d - from + 1) /\ 2 \in 1 .. (d - from + 1) /\ 3 \in 1 .. (d - from + 1)
          /\ 4 \in 1 .. (d - from + 1)
      BY <2>2
    <3>2. /\ from + 1 - 1 = from /\ from + 2 - 1 = from + 1 /\ from + 3 - 1 = from + 2 /\ from + 4 - 1 = d
          /\ d - from + 1 = 4
      BY <2>2
    <3>3. rest[1] = D[from] /\ rest[2] = D[from + 1] /\ rest[3] = D[from + 2] /\ rest[4] = D[d] /\ Len(rest) = 4
      BY <1>4, <3>1, <3>2
    <3> QED BY <2>2, <3>3
  <2> QED BY <2>1, <2>2
<1> DEFINE target == [mode |-> rest[1][1], scope |-> IF Len(D) > 3 /\ D[2] = <<"scope">> THEN D[3] ELSE Null,
                      service |-> rest[2],
                      key |-> IF Len(rest) = 4 THEN rest[3] ELSE Null, handler |-> rest[Len(rest)]]
<1>6. target = called
  <2>1. /\ rest[1][1] = called.mode /\ rest[2] = called.service /\ rest[Len(rest)] = called.handler
        /\ (IF Len(rest) = 4 THEN rest[3] ELSE Null) = called.key
    BY <1>5
  <2>2. (IF Len(D) > 3 /\ D[2] = <<"scope">> THEN D[3] ELSE Null) = called.scope
    BY <1>3
  <2> QED BY <2>1, <2>2 DEF CallType
<1>7. rest[1] \in {<<"call">>, <<"send">>}
  BY <1>5 DEF CallType
<1>8. Len(D) > 1 /\ D[1] = <<"restate">>
  BY <1>2, <1>a
<1>9. rest = SubSeq(D, IF Len(D) > 3 /\ D[2] = <<"scope">> THEN 4 ELSE 2, Len(D))
  BY <1>2, <1>3 DEF rest
<1>10. Routed(segments) =
         IF [service |-> target.service, handler |-> target.handler, keyed |-> target.key # Null] \in Deployed
         THEN target ELSE Null
  <2> HIDE DEF target
  <2> QED BY <1>5, <1>7, <1>8, <1>9, ZenonT(60) DEF Routed, target
<1> HIDE DEF target
<1> QED BY <1>6, <1>10 DEF Served

(* The path of a call leads to what it names, and the path of a query to the *)
(* query.                                                                   *)
THEOREM CallIsRouted ==
  ASSUME NEW called \in CallType, Sendable(called)
  PROVE  Routed(Forwarded(Sent(Address \o path(called)))) = IF Served(called) THEN called ELSE Null
<1> DEFINE s == push_segment(called.service)
           h == push_segment(called.handler)
           k == push_segment(called.key)
           o == push_segment(called.scope)
           segments == IF called.scope = Null
                       THEN IF called.key = Null THEN <<<<"restate">>, <<called.mode>>, s, h>>
                            ELSE <<<<"restate">>, <<called.mode>>, s, k, h>>
                       ELSE IF called.key = Null THEN <<<<"restate">>, <<"scope">>, o, <<called.mode>>, s, h>>
                            ELSE <<<<"restate">>, <<"scope">>, o, <<called.mode>>, s, k, h>>
<1>1. /\ called.service \in Text /\ called.handler \in Text /\ called.mode \in {"call", "send"}
      /\ called.key \in Text \cup {Null} /\ called.scope \in Text \cup {Null}
  BY DEF CallType
<1>2. /\ s \in Text /\ h \in Text /\ Decode(s) = called.service /\ Decode(h) = called.handler
      /\ called.key # Null => k \in Text /\ Decode(k) = called.key
      /\ called.scope # Null => o \in Text /\ Decode(o) = called.scope
  BY <1>1, EncodingIs, DecodedIsWritten
<1>3. \A w \in {"restate", "scope", "call", "send"} : <<w>> \in Text /\ Decode(<<w>>) = <<w>>
  BY WordIsSegment, FragmentlessIsText
<1>4. Published \in Seq(Text)
  BY AddressSent DEF Parts
<1>5. segments \in Seq(Text) /\ segments # <<>>
  <2> HIDE DEF s, h, k, o
  <2>1. <<"restate">> \in Text /\ <<"scope">> \in Text /\ <<called.mode>> \in Text
    BY <1>1, <1>3
  <2> QED BY <1>2, <2>1
<1>6. Sent(Address \o path(called)) = Published \o segments
  <2> HIDE DEF s, h, k, o
  <2> DEFINE p == Published
             r == <<"restate">>
             m == <<called.mode>>
             y == <<"scope">>
  <2>1. r \in Text /\ y \in Text /\ m \in Text
    BY <1>1, <1>3
  <2>2. ASSUME called.scope = Null, called.key = Null
        PROVE  Sent(Address \o path(called)) = Append(Append(Append(Append(p, r), m), s), h)
    BY <2>2, SentPath DEF s, h
  <2>3. ASSUME called.scope = Null, called.key # Null
        PROVE  Sent(Address \o path(called)) = Append(Append(Append(Append(Append(p, r), m), s), k), h)
    BY <2>3, SentPath DEF s, h, k
  <2>4. ASSUME called.scope # Null, called.key = Null
        PROVE  Sent(Address \o path(called)) =
                 Append(Append(Append(Append(Append(Append(p, r), y), o), m), s), h)
    BY <2>4, SentPath DEF s, h, o
  <2>5. ASSUME called.scope # Null, called.key # Null
        PROVE  Sent(Address \o path(called)) =
                 Append(Append(Append(Append(Append(Append(Append(p, r), y), o), m), s), k), h)
    BY <2>5, SentPath DEF s, h, k, o
  <2> HIDE DEF r, m, y, p
  <2>10. CASE called.scope = Null /\ called.key = Null
    <3>1. segments = <<r, m, s, h>>
      BY <2>10, Zenon DEF r, m
    <3>2. Sent(Address \o path(called)) = Append(Append(Append(Append(p, r), m), s), h)
      BY <2>2, <2>10
    <3>3. s \in Text /\ h \in Text
      BY <1>2, <2>10
    <3>4. Append(Append(Append(Append(p, r), m), s), h) = p \o <<r, m, s, h>>
      BY <1>4, <2>1, <3>3 DEF p
    <3> QED BY <3>1, <3>2, <3>4, Zenon DEF p
  <2>11. CASE called.scope = Null /\ called.key # Null
    <3>1. segments = <<r, m, s, k, h>>
      BY <2>11, Zenon DEF r, m
    <3>2. Sent(Address \o path(called)) = Append(Append(Append(Append(Append(p, r), m), s), k), h)
      BY <2>3, <2>11
    <3>3. s \in Text /\ h \in Text /\ k \in Text
      BY <1>2, <2>11
    <3>4. Append(Append(Append(Append(Append(p, r), m), s), k), h) = p \o <<r, m, s, k, h>>
      BY <1>4, <2>1, <3>3 DEF p
    <3> QED BY <3>1, <3>2, <3>4, Zenon DEF p
  <2>12. CASE called.scope # Null /\ called.key = Null
    <3>1. segments = <<r, y, o, m, s, h>>
      BY <2>12, Zenon DEF r, y, m
    <3>2. Sent(Address \o path(called)) = Append(Append(Append(Append(Append(Append(p, r), y), o), m), s), h)
      BY <2>4, <2>12
    <3>3. s \in Text /\ h \in Text /\ o \in Text
      BY <1>2, <2>12
    <3>4. Append(Append(Append(Append(Append(Append(p, r), y), o), m), s), h) = p \o <<r, y, o, m, s, h>>
      BY <1>4, <2>1, <3>3, SMTT(40) DEF p
    <3> QED BY <3>1, <3>2, <3>4, Zenon DEF p
  <2>13. CASE called.scope # Null /\ called.key # Null
    <3>1. segments = <<r, y, o, m, s, k, h>>
      BY <2>13, Zenon DEF r, y, m
    <3>2. Sent(Address \o path(called)) = Append(Append(Append(Append(Append(Append(Append(p, r), y), o), m), s), k), h)
      BY <2>5, <2>13
    <3>3. s \in Text /\ h \in Text /\ k \in Text /\ o \in Text
      BY <1>2, <2>13
    <3>4. Append(Append(Append(Append(Append(Append(Append(p, r), y), o), m), s), k), h) = p \o <<r, y, o, m, s, k, h>>
      BY <1>4, <2>1, <3>3, SMTT(40) DEF p
    <3> QED BY <3>1, <3>2, <3>4, Zenon DEF p
  <2> QED BY <2>10, <2>11, <2>12, <2>13
<1>7. Forwarded(Sent(Address \o path(called))) = segments
  <2> HIDE DEF segments
  <2> QED BY <1>5, <1>6, ForwardedIs
<1>8. Routed(segments) = IF Served(called) THEN called ELSE Null
  <2> HIDE DEF s, h, k, o
  <2> DEFINE from == IF called.scope = Null THEN 2 ELSE 4
             d == from + IF called.key = Null THEN 2 ELSE 3
             D == [j \in DOMAIN segments |-> Decode(segments[j])]
  <2>1. from \in {2, 4} /\ d \in Nat /\ d - from \in {2, 3} /\ (d - from = 3 <=> called.key # Null)
        /\ (from = 4 <=> called.scope # Null) /\ (from = 2 <=> called.scope = Null)
    OBVIOUS
  <2>2. d = Len(segments) /\ DOMAIN segments = 1 .. d
    <3>1. d = Len(segments)
      <4>1. CASE called.scope = Null
        BY <4>1
      <4>2. CASE called.scope # Null
        BY <4>2
      <4> QED BY <4>1, <4>2
    <3> HIDE DEF segments, d
    <3> QED BY <1>5, <3>1
  <2>3. /\ segments[1] = <<"restate">> /\ segments[from] = <<called.mode>> /\ segments[from + 1] = s
        /\ segments[d] = h
        /\ called.key # Null => segments[from + 2] = k
        /\ called.scope # Null => segments[2] = <<"scope">> /\ segments[3] = o
    OBVIOUS
  <2>4. 1 \in 1 .. d /\ from \in 1 .. d /\ from + 1 \in 1 .. d /\ d \in 1 .. d /\ from + 2 \in 1 .. d
        /\ (called.scope # Null => 2 \in 1 .. d /\ 3 \in 1 .. d)
    BY <2>1
  <2> HIDE DEF segments, from, d
  <2>5. \A j \in 1 .. d : D[j] = Decode(segments[j])
    BY <2>2
  <2>6. D[1] = <<"restate">> /\ D[from] = <<called.mode>> /\ D[from + 1] = called.service /\ D[d] = called.handler
    BY <1>1, <1>2, <1>3, <2>3, <2>4, <2>5
  <2>7. called.key = IF d - from = 3 THEN D[from + 2] ELSE Null
    BY <1>2, <2>1, <2>3, <2>4, <2>5
  <2>8. from = 4 => D[2] = <<"scope">> /\ D[3] = called.scope
    BY <1>2, <1>3, <2>1, <2>3, <2>4, <2>5
  <2>9. D = [j \in DOMAIN segments |-> Decode(segments[j])]
    OBVIOUS
  <2> HIDE DEF D
  <2> QED BY <1>5, <2>1, <2>2, <2>6, <2>7, <2>8, <2>9, RoutedIs
<1> QED BY <1>7, <1>8

(* The admin API's query reaches the server, whatever prefix publishes it. *)
LEMMA QueryIsForwarded == Forwarded(Sent(Address \o <<"/", "query">>)) = <<<<"query">>>>
<1>1. <<"query">> \in Plain /\ Decode(<<"query">>) \notin Dots /\ <<"query">> \in Text
  BY WordIsSegment, FragmentlessIsText
<1>2. Address \o <<"/", "query">> = (Address \o <<"/">>) \o <<"query">>
  <2>1. Address \in Text /\ "/" \in Characters /\ "query" \in Characters
    BY AddressSent, FragmentlessIsText, WordIsSegment, CallsAssumption
  <2> HIDE DEF Address
  <2> QED BY <2>1, ConcatPair DEF Text
<1>3. Sent(Address \o <<"/", "query">>) = Append(Published, <<"query">>)
  BY <1>1, <1>2, AddressSent, SentMore
<1>4. Published \in Seq(Text)
  BY AddressSent DEF Parts
<1>5. Append(Published, <<"query">>) = Published \o <<<<"query">>>> /\ <<<<"query">>>> \in Seq(Text)
  BY <1>1, <1>4, ConcatOne
<1>6. <<<<"query">>>> # <<>>
  OBVIOUS
<1> QED BY <1>3, <1>5, <1>6, ForwardedIs

-----------------------------------------------------------------------------
(* The predicate of a selection is read as the conditions it is made of.     *)

(* What the reader makes of a quote, and of anything else. *)
LEMMA AtIs ==
  \A place, text, out :
    At(place, text, out).at = place /\ At(place, text, out).text = text /\ At(place, text, out).out = out
  BY DEF At

(* A quote begins a literal, may end it, or doubles the one before. *)
LEMMA QuoteRead ==
  \A text, out :
    /\ Lexed(At("words", text, out), "'") = At("literal", <<>>, out)
    /\ Lexed(At("literal", text, out), "'") = At("quote", text, out)
    /\ Lexed(At("quote", text, out), "'") = At("literal", Append(text, "'"), out)
<1> SUFFICES ASSUME NEW text, NEW out
             PROVE  /\ Lexed(At("words", text, out), "'") = At("literal", <<>>, out)
                    /\ Lexed(At("literal", text, out), "'") = At("quote", text, out)
                    /\ Lexed(At("quote", text, out), "'") = At("literal", Append(text, "'"), out)
  OBVIOUS
<1>1. Lexed(At("words", text, out), "'") = At("literal", <<>>, out)
  BY AtIs DEF Lexed
<1>2. Lexed(At("literal", text, out), "'") = At("quote", text, out)
  BY AtIs DEF Lexed
<1>3. Lexed(At("quote", text, out), "'") = At("literal", Append(text, "'"), out)
  BY AtIs DEF Lexed
<1> QED BY <1>1, <1>2, <1>3

(* Any other character is a word outside of a literal. *)
LEMMA OtherInWords ==
  \A text, out, c :
    c # "'" => Lexed(At("words", text, out), c) = At("words", text, Append(out, Word(c)))
  BY AtIs DEF Lexed

(* Any other character of a literal is part of it. *)
LEMMA OtherInLiteral ==
  ASSUME NEW text, NEW out, NEW c, c # "'"
  PROVE  Lexed(At("literal", text, out), c) = At("literal", Append(text, c), out)
  BY AtIs DEF Lexed

(* Any other character after a quote ends the literal. *)
LEMMA OtherAfterQuote ==
  \A text, out, c :
    c # "'" => Lexed(At("quote", text, out), c) = At("words", <<>>, out \o <<Literal(text), Word(c)>>)
  BY AtIs DEF Lexed

(* A text with its quotes doubled is a text. *)
LEMMA DoubledIsText == \A t \in Text : Doubled(t) \in Text
  BY QuotingIs

(* In a literal, what is doubled is read as it was. *)
LEMMA ScanningDoubled ==
  ASSUME NEW s \in Text, NEW out, Scanning(s) = At("literal", <<>>, out)
  PROVE  \A t \in Text : Scanning(s \o Doubled(t)) = At("literal", t, out)
<1> DEFINE T == {t \in Text : Scanning(s \o Doubled(t)) = At("literal", t, out)}
<1>1. <<>> \in T
  <2>1. s \o <<>> = s
    BY ConcatEmptySeq DEF Text
  <2> QED BY <2>1, QuotingIs, EmptySeq DEF Text
<1>2. ASSUME NEW t \in Seq(Characters), NEW c \in Characters, t \in T PROVE Append(t, c) \in T
  <2> DEFINE p == Doubled(t)
             u == s \o p
             q == "'"
  <2>1. Append(t, c) \in Text /\ t \in Text /\ p \in Text /\ q \in Characters
    BY QuotingIs, CallsAssumption DEF Text
  <2>2. Doubled(Append(t, c)) = Quoted(p, c)
    BY <2>1, QuotingIs
  <2>3. Scanning(u) = At("literal", t, out)
    BY <1>2
  <2>4. u \in Text
    BY <2>1, ConcatProperties DEF Text
  <2> HIDE DEF p
  <2>5. CASE c = "'"
    <3>1. Quoted(p, c) = Append(Append(p, q), q) /\ Append(p, q) \in Text
      BY <2>1, <2>5, ConcatTwo DEF Quoted, Text
    <3>2. s \o Append(p, q) = Append(u, q) /\ s \o Append(Append(p, q), q) = Append(s \o Append(p, q), q)
      BY <2>1, <3>1, ConcatAppend, SMTT(40) DEF Text
    <3> HIDE DEF u
    <3>3. Append(u, q) \in Text
      BY <2>1, <2>4 DEF Text
    <3>4. Scanning(Append(u, q)) = At("quote", t, out)
      BY <2>1, <2>3, <2>4, LexingIs, QuoteRead
    <3>5. Scanning(Append(Append(u, q), q)) = At("literal", Append(t, q), out)
      BY <2>1, <3>3, <3>4, LexingIs, QuoteRead
    <3> QED BY <2>1, <2>2, <2>5, <3>1, <3>2, <3>5
  <2>6. CASE c # "'"
    <3>1. Quoted(p, c) = Append(p, c)
      BY <2>1, <2>6, ConcatOne DEF Quoted, Text
    <3>2. s \o Append(p, c) = Append(u, c)
      BY <2>1, ConcatAppend DEF Text
    <3> HIDE DEF u
    <3>3. Scanning(Append(u, c)) = At("literal", Append(t, c), out)
      <4>1. Scanning(Append(u, c)) = Lexed(Scanning(u), c)
        BY <2>4, LexingIs
      <4>2. Lexed(At("literal", t, out), c) = At("literal", Append(t, c), out)
        BY <2>6, OtherInLiteral
      <4> QED BY <2>3, <4>1, <4>2
    <3> QED BY <2>1, <2>2, <3>1, <3>2, <3>3
  <2> QED BY <2>5, <2>6
<1>3. Text \subseteq T
  <2> HIDE DEF T
  <2> QED BY <1>1, <1>2, SeqInduction DEF Text
<1> QED BY <1>3

(* A literal is read as the text it was made of, once what follows shows *)
(* that it has ended.                                                    *)
LEMMA ScanningLiteral ==
  ASSUME NEW s \in Text, NEW text, NEW out, Scanning(s) = At("words", text, out),
         NEW t \in Text
  PROVE  /\ s \o sql_literal(t) \in Text
         /\ Scanning(s \o sql_literal(t)) = At("quote", t, out)
<1> DEFINE q == "'"
           d == Doubled(t)
           u == Append(s, q)
<1>1. q \in Characters /\ d \in Text /\ u \in Text /\ <<q>> \in Text
  BY CallsAssumption, DoubledIsText DEF Text
<1>2. sql_literal(t) = (<<q>> \o d) \o <<q>>
  BY Zenon DEF sql_literal, Doubled
<1> HIDE DEF d
<1>3. s \o ((<<q>> \o d) \o <<q>>) = Append(u \o d, q)
  <2> DEFINE e == <<q>> \o d
  <2>1. e \in Seq(Characters) /\ s \in Seq(Characters) /\ d \in Seq(Characters) /\ <<q>> \in Seq(Characters)
    BY <1>1, ConcatProperties DEF Text
  <2>2. Joined(s, Joined(<<q>>, d)) = Joined(Joined(s, <<q>>), d)
    <3> DEFINE o == <<q>>
    <3>1. o \in Seq(Characters)
      BY <2>1
    <3> HIDE DEF o
    <3>2. Joined(s, Joined(o, d)) = Joined(Joined(s, o), d)
      BY <2>1, <3>1, JoinedRegroups
    <3> QED BY <3>2 DEF o
  <2>3. s \o e = (s \o <<q>>) \o d
    BY <2>2, Zenon DEF Joined
  <2>4. s \o <<q>> = u
    BY <1>1, <2>1, ConcatOne
  <2> HIDE DEF e
  <2>5. e \o <<q>> = Append(e, q)
    BY <1>1, <2>1, ConcatOne
  <2>6. s \o Append(e, q) = Append(s \o e, q)
    BY <1>1, <2>1, ConcatAppend
  <2> QED BY <2>3, <2>4, <2>5, <2>6, Zenon DEF e
<1>4. Scanning(u) = At("literal", <<>>, out)
  BY <1>1, LexingIs, QuoteRead
<1> HIDE DEF u
<1>5. Scanning(u \o d) = At("literal", t, out)
  BY <1>1, <1>4, ScanningDoubled DEF d
<1>6. u \o d \in Text
  BY <1>1, ConcatProperties DEF Text
<1>7. Scanning(Append(u \o d, q)) = At("quote", t, out) /\ Append(u \o d, q) \in Text
  <2>1. Append(u \o d, q) \in Text
    BY <1>1, <1>6, AppendProperties DEF Text
  <2> DEFINE v == u \o d
  <2> HIDE DEF v
  <2>2. Scanning(Append(v, q)) = At("quote", t, out)
    BY <1>1, <1>5, <1>6, LexingIs, QuoteRead DEF v
  <2> QED BY <2>1, <2>2 DEF v
<1> QED BY <1>2, <1>3, <1>7

(* A word is read as one, and ends a literal. *)
LEMMA ScanningWord ==
  \A s \in Text, w \in Characters : s \o <<w>> \in Text /\ Scanning(s \o <<w>>) = Lexed(Scanning(s), w)
<1> SUFFICES ASSUME NEW s \in Text, NEW w \in Characters
             PROVE  s \o <<w>> \in Text /\ Scanning(s \o <<w>>) = Lexed(Scanning(s), w)
  OBVIOUS
<1>1. s \o <<w>> = Append(s, w) /\ Append(s, w) \in Text
  BY ConcatOne, AppendProperties DEF Text
<1> QED BY <1>1, LexingIs

-----------------------------------------------------------------------------
(* A selection is the calls in flight that were made to the object.          *)

(* The lexemes of a condition on a target: those before its key, *)
Named(target) ==
  <<Word("target_service_name =")>> \o <<Literal(target.service), Word("AND target_service_key =")>>

(* and all of them. *)
Asked(target) ==
  LET key == Literal(target.key)
      end == Word("AND status <> 'completed'")
  IN IF target.scope = Unscoped THEN Append(Named(target) \o <<key, Word("AND scope IS NULL")>>, end)
     ELSE IF target.scope = AllScopes THEN Named(target) \o <<key, end>>
     ELSE (Named(target) \o <<key, Word("AND scope =")>>) \o <<Literal(target.scope.names), end>>

(* The words of a condition are neither quotes nor absent, and each is one  *)
(* column's.                                                                *)
LEMMA WordsAre ==
  /\ \A w \in {"target_service_name =", "AND target_service_key =", "AND scope =", "AND scope IS NULL",
               "AND status <> 'completed'"} : w \in Characters /\ w # "'" /\ w # Null
  /\ DOMAIN Columns = {"service", "key", "scope"} /\ Columns["service"] = "target_service_name ="
  /\ Columns["key"] = "AND target_service_key =" /\ Columns["scope"] = "AND scope ="
<1>1. /\ DOMAIN Columns = {"service", "key", "scope"} /\ Columns["service"] = "target_service_name ="
      /\ Columns["key"] = "AND target_service_key =" /\ Columns["scope"] = "AND scope ="
  BY DEF Columns
<1>2. \A w \in {"target_service_name =", "AND target_service_key =", "AND scope =", "AND scope IS NULL",
                "AND status <> 'completed'"} : w \in Words
  BY <1>1 DEF Words
<1>3. \A w \in Words : w \in Characters /\ w # Null
  BY CallsAssumption
<1>4. \A w \in {"target_service_name =", "AND target_service_key =", "AND scope =", "AND scope IS NULL",
                "AND status <> 'completed'"} : w # "'"
  OBVIOUS
<1> QED BY <1>1, <1>2, <1>3, <1>4

(* What precedes the key's literal's end, of any query. *)
LEMMA ScanningNamed ==
  ASSUME NEW target \in TargetType
  PROVE  LET s == <<"target_service_name =">> \o sql_literal(target.service)
                    \o <<"AND target_service_key =">> \o sql_literal(target.key)
         IN s \in Text /\ Scanning(s) = At("quote", target.key, Named(target))
<1> DEFINE v == "target_service_name ="
           w == "AND target_service_key ="
           s1 == <<v>>
           s2 == s1 \o sql_literal(target.service)
           s3 == s2 \o <<w>>
           s4 == s3 \o sql_literal(target.key)
           out1 == <<Word(v)>>
           out3 == out1 \o <<Literal(target.service), Word(w)>>
<1>1. target.service \in Text /\ target.key \in Text
  BY DEF TargetType
<1>2. v \in Characters /\ w \in Characters /\ v # "'" /\ w # "'"
  BY WordsAre
<1>3. out3 = Named(target)
  BY Zenon DEF Named
<1> HIDE DEF v, w
<1>4. s1 \in Text /\ Scanning(s1) = At("words", <<>>, out1)
  <2> DEFINE z == <<>>
             l == <<>>
  <2>1. z \in Text /\ Scanning(z) = At("words", z, l)
    BY LexingIs, EmptySeq, Zenon DEF Unread, Text
  <2>2. z \o <<v>> = s1 /\ Append(l, Word(v)) = out1
    BY <1>2
  <2> HIDE DEF z, l
  <2>3. z \o <<v>> \in Text /\ Scanning(z \o <<v>>) = Lexed(At("words", z, l), v)
    BY <1>2, <2>1, ScanningWord
  <2>4. Lexed(At("words", z, l), v) = At("words", z, Append(l, Word(v)))
    BY <1>2, OtherInWords
  <2> QED BY <2>2, <2>3, <2>4, Zenon DEF z
<1> HIDE DEF s1, out1
<1>5. s2 \in Text /\ Scanning(s2) = At("quote", target.service, out1)
  BY <1>1, <1>4, ScanningLiteral
<1> HIDE DEF s2
<1>6. s3 \in Text /\ Scanning(s3) = At("words", <<>>, out3)
  <2>1. s3 \in Text /\ Scanning(s3) = Lexed(At("quote", target.service, out1), w)
    BY <1>2, <1>5, ScanningWord
  <2>2. Lexed(At("quote", target.service, out1), w) = At("words", <<>>, out3)
    BY <1>2, OtherAfterQuote
  <2> QED BY <2>1, <2>2
<1> HIDE DEF s3, out3
<1>7. s4 \in Text /\ Scanning(s4) = At("quote", target.key, out3)
  BY <1>1, <1>6, ScanningLiteral
<1> HIDE DEF s4
<1> QED BY <1>3, <1>7 DEF s4, s3, s2, s1, v, w

(* The query written for a target is scanned as its condition. *)
LEMMA LexemesAre ==
  ASSUME NEW target \in TargetType
  PROVE  Lexemes(predicate(target) \o <<"AND status <> 'completed'">>) = Asked(target)
<1> DEFINE s == <<"target_service_name =">> \o sql_literal(target.service)
                  \o <<"AND target_service_key =">> \o sql_literal(target.key)
           e == "AND status <> 'completed'"
           v == "AND scope IS NULL"
           w == "AND scope ="
           last == CASE target.scope = Unscoped -> <<v>>
                     [] target.scope = AllScopes -> <<>>
                     [] OTHER -> <<w>> \o sql_literal(target.scope.names)
           key == target.key
           out == Named(target)
<1>1. s \in Text /\ Scanning(s) = At("quote", key, out)
  BY ScanningNamed
<1>2. predicate(target) = s \o last
  BY Zenon DEF predicate
<1>3. e \in Characters /\ v \in Characters /\ w \in Characters /\ e # "'" /\ v # "'" /\ w # "'"
  BY WordsAre
<1> HIDE DEF s, out
<1>5. ASSUME NEW sql, NEW text, NEW lexemes, Scanning(sql) = At("words", text, lexemes) PROVE Lexemes(sql) = lexemes
  BY <1>5, AtIs DEF Lexemes, Scanning, Unread
<1>6. CASE target.scope = Unscoped
  <2> DEFINE s5 == s \o <<v>>
             out5 == out \o <<Literal(key), Word(v)>>
  <2>1. last = <<v>> /\ Asked(target) = Append(out5, Word(e))
    <3>1. target.scope # AllScopes
      BY <1>6 DEF AllScopes, Unscoped
    <3> QED BY <1>6, <3>1, Zenon DEF Asked, out
  <2> HIDE DEF last, v, w, e, key
  <2>2. s5 \in Text /\ Scanning(s5) = Lexed(At("quote", key, out), v)
    BY <1>1, <1>3, ScanningWord
  <2>3. Lexed(At("quote", key, out), v) = At("words", <<>>, out5)
    BY <1>3, OtherAfterQuote
  <2> HIDE DEF s5, out5
  <2>4. Scanning(s5 \o <<e>>) = Lexed(At("words", <<>>, out5), e)
    BY <1>3, <2>2, <2>3, ScanningWord
  <2>5. Lexed(At("words", <<>>, out5), e) = At("words", <<>>, Append(out5, Word(e)))
    BY <1>3, OtherInWords
  <2>6. Lexemes(s5 \o <<e>>) = Append(out5, Word(e))
    BY <1>5, <2>4, <2>5
  <2> QED BY <1>2, <2>1, <2>6, Zenon DEF s5, e
<1>7. CASE target.scope = AllScopes
  <2> DEFINE out5 == out \o <<Literal(key), Word(e)>>
  <2>1. last = <<>> /\ Asked(target) = out5
    <3>1. target.scope # Unscoped
      BY <1>7 DEF AllScopes, Unscoped
    <3> QED BY <1>7, <3>1, Zenon DEF Asked, out
  <2> HIDE DEF last, v, w, e, key
  <2>2. s \o <<>> = s
    BY <1>1, ConcatEmptySeq DEF Text
  <2>3. Scanning(s \o <<e>>) = Lexed(At("quote", key, out), e)
    BY <1>1, <1>3, ScanningWord
  <2>4. Lexed(At("quote", key, out), e) = At("words", <<>>, out5)
    BY <1>3, OtherAfterQuote
  <2> HIDE DEF out5
  <2>5. Lexemes(s \o <<e>>) = out5
    BY <1>5, <2>3, <2>4
  <2> QED BY <1>2, <2>1, <2>2, <2>5, Zenon DEF e
<1>8. CASE target.scope # Unscoped /\ target.scope # AllScopes
  <2> DEFINE name == target.scope.names
             l == sql_literal(name)
             s5 == s \o <<w>>
             out5 == out \o <<Literal(key), Word(w)>>
             s6 == s5 \o l
             out6 == out5 \o <<Literal(name), Word(e)>>
  <2>0. name \in Text
    BY <1>8 DEF TargetType, Unscoped, AllScopes
  <2>1. last = <<w>> \o l /\ Asked(target) = out6
    BY <1>8, Zenon DEF Asked, out
  <2> HIDE DEF last, name, v, w, e, key
  <2>2. s5 \in Text /\ Scanning(s5) = Lexed(At("quote", key, out), w)
    BY <1>1, <1>3, ScanningWord
  <2>3. Lexed(At("quote", key, out), w) = At("words", <<>>, out5)
    BY <1>3, OtherAfterQuote
  <2> HIDE DEF s5, out5
  <2>4. s6 \in Text /\ Scanning(s6) = At("quote", name, out5)
    BY <2>0, <2>2, <2>3, ScanningLiteral
  <2> HIDE DEF s6
  <2>5. Scanning(s6 \o <<e>>) = Lexed(At("quote", name, out5), e)
    BY <1>3, <2>4, ScanningWord
  <2>6. Lexed(At("quote", name, out5), e) = At("words", <<>>, out6)
    BY <1>3, OtherAfterQuote
  <2> HIDE DEF out6
  <2>7. Lexemes(s6 \o <<e>>) = out6
    BY <1>5, <2>5, <2>6
  <2>8. s \o (<<w>> \o l) = s6
    <3> DEFINE o == <<w>>
    <3>1. s \in Seq(Characters) /\ o \in Seq(Characters)
      <4>1. s \in Seq(Characters)
        BY <1>1 DEF Text
      <4> QED BY <1>3, <4>1
    <3>2. l \in Seq(Characters)
      <4> DEFINE q == "'"
                 d == Doubled(name)
      <4>1. l = (<<q>> \o d) \o <<q>>
        BY Zenon DEF sql_literal, Doubled
      <4>2. q \in Characters /\ d \in Seq(Characters)
        BY <2>0, CallsAssumption, DoubledIsText DEF Text
      <4> HIDE DEF d, l, q
      <4> QED BY <4>1, <4>2
    <3> HIDE DEF o, l
    <3>3. Joined(s, Joined(o, l)) = Joined(Joined(s, o), l)
      BY <3>1, <3>2, JoinedRegroups
    <3> QED BY <3>3, Zenon DEF Joined, s6, s5, o
  <2> QED BY <1>2, <2>1, <2>7, <2>8, Zenon DEF e
<1> QED BY <1>6, <1>7, <1>8

(* A sequence of two, put after another, place by place. *)
LEMMA TwoAppended ==
  ASSUME NEW A, NEW s \in Seq(A), NEW t \in Seq(A), Len(t) = 2
  PROVE  /\ s \o t \in Seq(A) /\ Len(s \o t) = Len(s) + 2 /\ DOMAIN (s \o t) = 1 .. (Len(s) + 2)
         /\ \A k \in 1 .. Len(s) : (s \o t)[k] = s[k]
         /\ (s \o t)[Len(s) + 1] = t[1] /\ (s \o t)[Len(s) + 2] = t[2]
<1> DEFINE n == Len(s)
           u == s \o t
<1>1. n \in Nat
  OBVIOUS
<1>2. /\ u \in Seq(A) /\ Len(u) = n + Len(t)
      /\ \A k \in 1 .. n + Len(t) : u[k] = IF k <= n THEN s[k] ELSE t[k - n]
  BY ConcatProperties
<1> HIDE DEF u, n
<1>3. Len(u) = n + 2 /\ DOMAIN u = 1 .. (n + 2)
  BY <1>1, <1>2
<1>4. \A k \in 1 .. n : k \in 1 .. n + 2 /\ k <= n
  BY <1>1
<1>5. n + 1 \in 1 .. n + 2 /\ n + 2 \in 1 .. n + 2 /\ (n + 1) - n = 1 /\ (n + 2) - n = 2
      /\ ~(n + 1 <= n) /\ ~(n + 2 <= n)
  BY <1>1
<1>6. u[n + 1] = t[1] /\ u[n + 2] = t[2]
  BY <1>1, <1>2, <1>5
<1>7. \A k \in 1 .. n : u[k] = s[k]
  BY <1>1, <1>2, <1>4
<1> QED BY <1>2, <1>3, <1>6, <1>7 DEF u, n

(* One member appended, place by place. *)
LEMMA OneAppended ==
  ASSUME NEW A, NEW s \in Seq(A), NEW a \in A, NEW u, u = Append(s, a)
  PROVE  /\ Len(u) = Len(s) + 1 /\ DOMAIN u = 1 .. (Len(s) + 1)
         /\ (\A k \in 1 .. Len(s) : u[k] = s[k]) /\ u[Len(s) + 1] = a
  BY AppendProperties

(* Three, five and seven lexemes, place by place. *)
LEMMA LexemesListed ==
  ASSUME NEW A, NEW a \in A, NEW b \in A, NEW c \in A, NEW d \in A, NEW e \in A, NEW f \in A, NEW g \in A
  PROVE  LET n == <<a>> \o <<b, c>>
             s == n \o <<d, e>>
             t == s \o <<f, g>>
             u == Append(s, f)
         IN /\ DOMAIN s = 1 .. 5 /\ Len(s) = 5
            /\ s[1] = a /\ s[2] = b /\ s[3] = c /\ s[4] = d /\ s[5] = e
            /\ DOMAIN u = 1 .. 6 /\ Len(u) = 6
            /\ u[1] = a /\ u[2] = b /\ u[3] = c /\ u[4] = d /\ u[5] = e /\ u[6] = f
            /\ DOMAIN t = 1 .. 7 /\ Len(t) = 7
            /\ t[1] = a /\ t[2] = b /\ t[3] = c /\ t[4] = d /\ t[5] = e /\ t[6] = f /\ t[7] = g
<1> DEFINE m == <<a>>
           i == <<b, c>>
           j == <<d, e>>
           k == <<f, g>>
           n == m \o i
           s == n \o j
           t == s \o k
           u == Append(s, f)
<1>a. m \in Seq(A) /\ Len(m) = 1 /\ m[1] = a
  OBVIOUS
<1>b. i \in Seq(A) /\ Len(i) = 2 /\ i[1] = b /\ i[2] = c
  OBVIOUS
<1>c. j \in Seq(A) /\ Len(j) = 2 /\ j[1] = d /\ j[2] = e
  OBVIOUS
<1>d. k \in Seq(A) /\ Len(k) = 2 /\ k[1] = f /\ k[2] = g
  OBVIOUS
<1> HIDE DEF m, i, j, k
<1>1. n \in Seq(A) /\ Len(n) = 3 /\ n[1] = a /\ n[2] = b /\ n[3] = c
  <2>0. m \in Seq(A) /\ i \in Seq(A) /\ Len(i) = 2
    BY <1>a, <1>b
  <2>1. /\ n \in Seq(A) /\ Len(n) = Len(m) + 2 /\ \A p \in 1 .. Len(m) : n[p] = m[p]
        /\ n[Len(m) + 1] = i[1] /\ n[Len(m) + 2] = i[2]
    BY <2>0, TwoAppended
  <2> HIDE DEF n
  <2> QED BY <1>a, <1>b, <2>1
<1> HIDE DEF n
<1>2. s \in Seq(A) /\ DOMAIN s = 1 .. 5 /\ Len(s) = 5 /\ (\A p \in 1 .. 3 : s[p] = n[p]) /\ s[4] = d /\ s[5] = e
  <2>0. n \in Seq(A) /\ j \in Seq(A) /\ Len(j) = 2
    BY <1>c, <1>1
  <2>1. /\ s \in Seq(A) /\ Len(s) = Len(n) + 2 /\ DOMAIN s = 1 .. (Len(n) + 2) /\ \A p \in 1 .. Len(n) : s[p] = n[p]
        /\ s[Len(n) + 1] = j[1] /\ s[Len(n) + 2] = j[2]
    BY <2>0, TwoAppended
  <2> HIDE DEF s
  <2> QED BY <1>c, <1>1, <2>1
<1>3. s[1] = a /\ s[2] = b /\ s[3] = c
  BY <1>1, <1>2
<1> HIDE DEF s
<1>4. DOMAIN u = 1 .. 6 /\ Len(u) = 6 /\ (\A p \in 1 .. 5 : u[p] = s[p]) /\ u[6] = f
  <2>0. s \in Seq(A) /\ f \in A /\ u = Append(s, f)
    BY <1>2
  <2>1. Len(u) = Len(s) + 1 /\ DOMAIN u = 1 .. (Len(s) + 1) /\ (\A p \in 1 .. Len(s) : u[p] = s[p]) /\ u[Len(s) + 1] = f
    <3> HIDE DEF u
    <3> QED BY <2>0, OneAppended
  <2> HIDE DEF u
  <2> QED BY <1>d, <1>2, <2>1
<1>5. DOMAIN t = 1 .. 7 /\ Len(t) = 7 /\ (\A p \in 1 .. 5 : t[p] = s[p]) /\ t[6] = f /\ t[7] = g
  <2>0. s \in Seq(A) /\ k \in Seq(A) /\ Len(k) = 2
    BY <1>d, <1>2
  <2>1. /\ Len(t) = Len(s) + 2 /\ DOMAIN t = 1 .. (Len(s) + 2) /\ \A p \in 1 .. Len(s) : t[p] = s[p]
        /\ t[Len(s) + 1] = k[1] /\ t[Len(s) + 2] = k[2]
    BY <2>0, TwoAppended
  <2> HIDE DEF t
  <2> QED BY <1>d, <1>2, <2>1
<1> HIDE DEF t, u
<1>6. /\ u[1] = a /\ u[2] = b /\ u[3] = c /\ u[4] = d /\ u[5] = e
      /\ t[1] = a /\ t[2] = b /\ t[3] = c /\ t[4] = d /\ t[5] = e
  BY <1>2, <1>3, <1>4, <1>5
<1> QED BY <1>2, <1>3, <1>4, <1>5, <1>6 DEF t, u, s, n, m, i, j, k

(* What each lexeme is to the SQL engine. *)
LEMMA LexemeIs ==
  /\ \A c : Word(c).word = c /\ Word(c).literal = Null
  /\ \A t : Literal(t).word = Null /\ Literal(t).literal = t
  BY DEF Word, Literal

(* The condition on a target, place by place. *)
LEMMA AskedIs ==
  ASSUME NEW target \in TargetType
  PROVE  LET l == Asked(target)
         IN /\ l[1] = Word("target_service_name =") /\ l[2] = Literal(target.service)
            /\ l[3] = Word("AND target_service_key =") /\ l[4] = Literal(target.key)
            /\ target.scope = Unscoped =>
                 /\ DOMAIN l = 1 .. 6 /\ Len(l) = 6
                 /\ l[5] = Word("AND scope IS NULL") /\ l[6] = Word("AND status <> 'completed'")
            /\ target.scope = AllScopes =>
                 DOMAIN l = 1 .. 5 /\ Len(l) = 5 /\ l[5] = Word("AND status <> 'completed'")
            /\ target.scope \notin {Unscoped, AllScopes} =>
                 /\ DOMAIN l = 1 .. 7 /\ Len(l) = 7
                 /\ l[5] = Word("AND scope =") /\ l[6] = Literal(target.scope.names)
                 /\ l[7] = Word("AND status <> 'completed'")
<1> DEFINE a == Word("target_service_name =")
           b == Literal(target.service)
           c == Word("AND target_service_key =")
           d == Literal(target.key)
           v == Word("AND scope IS NULL")
           w == Word("AND scope =")
           e == Word("AND status <> 'completed'")
           g == Literal(target.scope.names)
           A == {a, b, c, d, v, w, e, g}
           n == <<a>> \o <<b, c>>
           l == Asked(target)
<1>1. Unscoped # AllScopes
  BY DEF Unscoped, AllScopes
<1>2. Named(target) = n
  BY Zenon DEF Named
<1>3. /\ target.scope = Unscoped => l = Append(n \o <<d, v>>, e)
      /\ target.scope = AllScopes => l = n \o <<d, e>>
      /\ target.scope \notin {Unscoped, AllScopes} => l = (n \o <<d, w>>) \o <<g, e>>
  BY <1>1, <1>2, Zenon DEF Asked
<1> DEFINE s == n \o <<d, v>>
           r == n \o <<d, e>>
           t == n \o <<d, w>>
           u == Append(s, e)
           x == t \o <<g, e>>
<1> HIDE DEF a, b, c, d, v, w, e, g, l
<1>4. /\ DOMAIN r = 1 .. 5 /\ Len(r) = 5
      /\ r[1] = a /\ r[2] = b /\ r[3] = c /\ r[4] = d /\ r[5] = e
  BY LexemesListed
<1>5. /\ DOMAIN u = 1 .. 6 /\ Len(u) = 6
      /\ u[1] = a /\ u[2] = b /\ u[3] = c /\ u[4] = d /\ u[5] = v /\ u[6] = e
  BY LexemesListed
<1>6. /\ DOMAIN x = 1 .. 7 /\ Len(x) = 7
      /\ x[1] = a /\ x[2] = b /\ x[3] = c /\ x[4] = d /\ x[5] = w /\ x[6] = g /\ x[7] = e
  BY LexemesListed
<1> HIDE DEF r, u, x
<1>7. /\ target.scope = Unscoped => l = u
      /\ target.scope = AllScopes => l = r
      /\ target.scope \notin {Unscoped, AllScopes} => l = x
  BY <1>3, Zenon DEF u, r, x
<1>8. /\ l[1] = a /\ l[2] = b /\ l[3] = c /\ l[4] = d
      /\ target.scope = Unscoped => DOMAIN l = 1 .. 6 /\ Len(l) = 6 /\ l[5] = v /\ l[6] = e
      /\ target.scope = AllScopes => DOMAIN l = 1 .. 5 /\ Len(l) = 5 /\ l[5] = e
      /\ target.scope \notin {Unscoped, AllScopes} =>
           DOMAIN l = 1 .. 7 /\ Len(l) = 7 /\ l[5] = w /\ l[6] = g /\ l[7] = e
  BY <1>1, <1>4, <1>5, <1>6, <1>7
<1> QED BY <1>8, Zenon DEF a, b, c, d, v, w, e, g, l

(* The condition is well formed, and holds of exactly the calls of the      *)
(* object.                                                                  *)
LEMMA AskedSelects ==
  ASSUME NEW target \in TargetType
  PROVE  /\ WellFormed(Asked(target))
         /\ \A made \in CallType : Satisfies(made, Asked(target)) <=> Names(target, made)
<1> DEFINE l == Asked(target)
           W(k) == l[k].word
           L(k) == l[k].literal
           v == "AND scope IS NULL"
<1>0. /\ l[1] = Word("target_service_name =") /\ l[2] = Literal(target.service)
      /\ l[3] = Word("AND target_service_key =") /\ l[4] = Literal(target.key)
      /\ target.scope = Unscoped =>
           /\ DOMAIN l = 1 .. 6 /\ Len(l) = 6
           /\ l[5] = Word("AND scope IS NULL") /\ l[6] = Word("AND status <> 'completed'")
      /\ target.scope = AllScopes =>
           DOMAIN l = 1 .. 5 /\ Len(l) = 5 /\ l[5] = Word("AND status <> 'completed'")
      /\ target.scope \notin {Unscoped, AllScopes} =>
           /\ DOMAIN l = 1 .. 7 /\ Len(l) = 7
           /\ l[5] = Word("AND scope =") /\ l[6] = Literal(target.scope.names)
           /\ l[7] = Word("AND status <> 'completed'")
  BY AskedIs, Zenon
<1> HIDE DEF l
<1>1. /\ W(1) = "target_service_name =" /\ W(2) = Null /\ W(3) = "AND target_service_key =" /\ W(4) = Null
      /\ L(2) = target.service /\ L(4) = target.key
  BY <1>0, LexemeIs, ZenonT(60)
<1>2. target.scope = Unscoped => DOMAIN l = 1 .. 6 /\ Len(l) = 6 /\ W(5) = v /\ W(6) = "AND status <> 'completed'"
  BY <1>0, LexemeIs, ZenonT(60)
<1>3. target.scope = AllScopes => DOMAIN l = 1 .. 5 /\ Len(l) = 5 /\ W(5) = "AND status <> 'completed'"
  BY <1>0, LexemeIs, ZenonT(60)
<1>4. target.scope \notin {Unscoped, AllScopes} =>
        /\ DOMAIN l = 1 .. 7 /\ Len(l) = 7 /\ W(5) = "AND scope =" /\ W(6) = Null /\ L(6) = target.scope.names
        /\ W(7) = "AND status <> 'completed'"
  BY <1>0, LexemeIs, ZenonT(60)
<1> DEFINE Fields == {"target_service_name =", "AND target_service_key =", "AND scope ="}
<1>a. /\ W(1) \in Fields /\ W(2) = Null /\ W(3) \in Fields /\ W(4) = Null /\ Null \notin Fields
      /\ v \notin Fields /\ v # Null /\ "AND status <> 'completed'" \notin Fields /\ "AND status <> 'completed'" # Null
      /\ "AND scope =" \in Fields
  BY <1>1, WordsAre
<1>5. \A w : (\E c \in DOMAIN Columns : w = Columns[c]) <=> w \in Fields
  BY WordsAre
<1> HIDE DEF Fields
<1>b. /\ \A k \in 1 .. 5 : k = 1 \/ k = 2 \/ k = 3 \/ k = 4 \/ k = 5
      /\ \A k \in 1 .. 6 : k = 1 \/ k = 2 \/ k = 3 \/ k = 4 \/ k = 5 \/ k = 6
      /\ \A k \in 1 .. 7 : k = 1 \/ k = 2 \/ k = 3 \/ k = 4 \/ k = 5 \/ k = 6 \/ k = 7
  OBVIOUS
<1>c. /\ 1 - 1 = 0 /\ 2 - 1 = 1 /\ 3 - 1 = 2 /\ 4 - 1 = 3 /\ 5 - 1 = 4 /\ 6 - 1 = 5 /\ 7 - 1 = 6
      /\ 1 + 1 = 2 /\ 2 + 1 = 3 /\ 3 + 1 = 4 /\ 4 + 1 = 5 /\ 5 + 1 = 6 /\ 6 + 1 = 7 /\ 7 + 1 = 8
  OBVIOUS
<1>6. WellFormed(l)
  <2> DEFINE Fits(i, k, j) == IF W(k) = Null THEN k > 1 /\ W(i) \in Fields ELSE W(k) \in Fields => k < Len(l) /\ W(j) = Null
  <2>1. (\A k \in DOMAIN l : Fits(k - 1, k, k + 1)) => WellFormed(l)
    BY <1>5 DEF WellFormed
  <2>2. Len(l) \in 5 .. 7 => Fits(0, 1, 2) /\ Fits(1, 2, 3) /\ Fits(2, 3, 4) /\ Fits(3, 4, 5)
    <3>1. W(1) # Null /\ W(3) # Null
      BY <1>a
    <3>2. \A n \in 5 .. 7 : 1 < n /\ 3 < n
      OBVIOUS
    <3>3. 2 > 1 /\ 4 > 1
      OBVIOUS
    <3> HIDE DEF W
    <3> QED BY <1>a, <3>1, <3>2, <3>3, Zenon
  <2>3. ASSUME target.scope = Unscoped PROVE \A k \in DOMAIN l : Fits(k - 1, k, k + 1)
    <3>1. Fits(4, 5, 6) /\ Fits(5, 6, 7)
      BY <1>2, <1>a, <2>3
    <3>2. DOMAIN l = 1 .. 6 /\ Len(l) = 6
      BY <1>2, <2>3, Zenon
    <3>3. Len(l) \in 5 .. 7
      BY <3>2
    <3> HIDE DEF Fits
    <3> QED BY <1>b, <1>c, <2>2, <3>1, <3>2, <3>3
  <2>4. ASSUME target.scope = AllScopes PROVE \A k \in DOMAIN l : Fits(k - 1, k, k + 1)
    <3>1. Fits(4, 5, 6)
      BY <1>3, <1>a, <2>4
    <3>2. DOMAIN l = 1 .. 5 /\ Len(l) = 5
      BY <1>3, <2>4, Zenon
    <3>3. Len(l) \in 5 .. 7
      BY <3>2
    <3> HIDE DEF Fits
    <3> QED BY <1>b, <1>c, <2>2, <3>1, <3>2, <3>3
  <2>5. ASSUME target.scope \notin {Unscoped, AllScopes} PROVE \A k \in DOMAIN l : Fits(k - 1, k, k + 1)
    <3>1. Fits(4, 5, 6) /\ Fits(5, 6, 7) /\ Fits(6, 7, 8)
      <4>1. Len(l) = 7 /\ W(5) = "AND scope =" /\ W(6) = Null /\ W(7) = "AND status <> 'completed'"
        BY <1>4, <2>5
      <4>2. 5 < 7 /\ 6 > 1
        OBVIOUS
      <4> HIDE DEF W
      <4> QED BY <1>a, <4>1, <4>2
    <3>2. DOMAIN l = 1 .. 7 /\ Len(l) = 7
      BY <1>4, <2>5, Zenon
    <3>3. Len(l) \in 5 .. 7
      BY <3>2
    <3> HIDE DEF Fits
    <3> QED BY <1>b, <1>c, <2>2, <3>1, <3>2, <3>3
  <2> QED BY <2>1, <2>3, <2>4, <2>5
<1>7. ASSUME NEW made \in CallType PROVE Satisfies(made, l) <=> Names(target, made)
  <2> DEFINE Holds(k, j) == /\ W(k) = "target_service_name =" => made.service = L(j)
                            /\ W(k) = "AND target_service_key =" => made.key = L(j)
                            /\ W(k) = "AND scope =" => made.scope = L(j)
                            /\ W(k) = v => made.scope = Null
  <2>1. Satisfies(made, l) <=> \A k \in DOMAIN l : Holds(k, k + 1)
    BY WordsAre DEF Satisfies
  <2>2. /\ Holds(1, 2) <=> made.service = target.service
        /\ Holds(3, 4) <=> made.key = target.key
        /\ Holds(2, 3) /\ Holds(4, 5)
    BY <1>1, WordsAre
  <2>3. CASE target.scope = Unscoped
    <3>1. (Holds(5, 6) <=> made.scope = Null) /\ Holds(6, 7)
      BY <1>2, <2>3, WordsAre
    <3>2. Names(target, made) <=> made.service = target.service /\ made.key = target.key /\ made.scope = Null
      BY <2>3 DEF Names, Unscoped, AllScopes
    <3>3. 1 \in DOMAIN l /\ 3 \in DOMAIN l /\ 5 \in DOMAIN l /\ DOMAIN l = 1 .. 6
      <4>1. DOMAIN l = 1 .. 6
        BY <1>2, <2>3, Zenon
      <4>2. 1 \in 1 .. 6 /\ 3 \in 1 .. 6 /\ 5 \in 1 .. 6
        OBVIOUS
      <4> QED BY <4>1, <4>2, Zenon
    <3> HIDE DEF Holds
    <3> QED BY <1>b, <1>c, <2>1, <2>2, <3>1, <3>2, <3>3
  <2>4. CASE target.scope = AllScopes
    <3>1. Holds(5, 6)
      BY <1>3, <2>4, WordsAre
    <3>2. Names(target, made) <=> made.service = target.service /\ made.key = target.key
      BY <2>4 DEF Names
    <3>3. 1 \in DOMAIN l /\ 3 \in DOMAIN l /\ DOMAIN l = 1 .. 5
      <4>1. DOMAIN l = 1 .. 5
        BY <1>3, <2>4, Zenon
      <4>2. 1 \in 1 .. 5 /\ 3 \in 1 .. 5
        OBVIOUS
      <4> QED BY <4>1, <4>2, Zenon
    <3> HIDE DEF Holds
    <3> QED BY <1>b, <1>c, <2>1, <2>2, <3>1, <3>2, <3>3
  <2>5. CASE target.scope \notin {Unscoped, AllScopes}
    <3>1. (Holds(5, 6) <=> made.scope = target.scope.names) /\ Holds(6, 7) /\ Holds(7, 8)
      BY <1>4, <2>5, WordsAre
    <3>2. Names(target, made) <=> /\ made.service = target.service /\ made.key = target.key
                                 /\ made.scope = target.scope.names
      BY <2>5 DEF Names
    <3>3. 1 \in DOMAIN l /\ 3 \in DOMAIN l /\ 5 \in DOMAIN l /\ DOMAIN l = 1 .. 7
      <4>1. DOMAIN l = 1 .. 7
        BY <1>4, <2>5, Zenon
      <4>2. 1 \in 1 .. 7 /\ 3 \in 1 .. 7 /\ 5 \in 1 .. 7
        OBVIOUS
      <4> QED BY <4>1, <4>2, Zenon
    <3> HIDE DEF Holds
    <3> QED BY <1>b, <1>c, <2>1, <2>2, <3>1, <3>2, <3>3
  <2> QED BY <2>3, <2>4, <2>5
<1> QED BY <1>6, <1>7 DEF l

(* The query that Admin::in_flight_ids_on writes for a target, as the SQL  *)
(* engine reads it: well formed, and satisfied by exactly the calls of the *)
(* object, whatever quotes, words or marks its names are made of.          *)
THEOREM PredicateSelects ==
  ASSUME NEW target \in TargetType
  PROVE  LET query == Lexemes(predicate(target) \o <<"AND status <> 'completed'">>)
         IN /\ WellFormed(query)
            /\ \A made \in CallType : Satisfies(made, query) <=> Names(target, made)
  BY LexemesAre, AskedSelects

-----------------------------------------------------------------------------
(* The inductive invariant.                                                  *)

(* A row of the server: what was called, and how it ended. *)
RowType == [target : CallType, ended : Endings \cup {Null}]

(* What the variables hold: above all, the handle keeps the address trimmed. *)
IngressTyped ==
  /\ base = [ingress |-> Address, admin |-> Address]
  /\ call \in [Clients -> Requests \cup {Null, Panics}]
  /\ DOMAIN sent = Clients /\ sent = [c \in Clients |-> sent[c]]
  /\ id \in [Clients -> Nat \cup {Null}]
  /\ reply \in [Clients -> ReplyType \cup {Null, Panics}]
  /\ altered \subseteq Clients
  /\ fault \in [Clients -> Nat \cup {Null, Panics}]
  /\ invocations \in Seq(RowType)

(* What was sent says what was called. *)
Saying(c) ==
  call[c] \notin {Null, Panics} => Sendable(call[c]) /\ sent[c] = Sent(Address \o path(call[c]))

(* An invocation is of the call it came of; where none came, none could. *)
Placed(c) ==
  id[c] # Null =>
    /\ call[c] \notin {Null, Panics}
    /\ IF id[c] = 0 THEN ~Served(call[c])
       ELSE id[c] \in DOMAIN invocations /\ invocations[id[c]].target = call[c]

(* Every invocation came of some client's request. *)
Owned == \A i \in DOMAIN invocations : \E c \in Clients : id[c] = i

(* A reply is the server's word, unless it was altered, which no fault shows. *)
Told(c) ==
  /\ c \in altered => reply[c] \notin {Null, Panics} /\ ~IsFault(reply[c])
  /\ c \notin altered /\ reply[c] \notin {Null, Panics} =>
       Answered(c) /\ reply[c] = IF id[c] = 0 THEN NotFound ELSE Said(id[c])

(* What Reply::fault makes of a reply. *)
FaultOf(r) == IF IsFault(r) /\ r.body.message \notin {Null, 0} THEN r.body.message ELSE Panics

(* A fault is that of the reply it was asked of. *)
Judged(c) == fault[c] # Null => reply[c] \notin {Null, Panics} /\ fault[c] = FaultOf(reply[c])

(* The selection was exact when it was made, of calls that have not changed *)
(* since.                                                                   *)
Chosen ==
  /\ held \subseteq Clients /\ \A c \in held : id[c] # Null
  /\ selected # Null =>
       LET own == {id[c] : c \in {d \in held : Names(selected.target, call[d])}}
       IN selected.ids = (IF selected.one /\ Cardinality(own) # 1 THEN Panics ELSE own)

(* The inductive invariant: no step alone keeps the two properties. *)
IngressInv ==
  IngressTyped /\ (\A c \in Clients : Saying(c) /\ Placed(c) /\ Told(c) /\ Judged(c)) /\ Owned /\ Chosen

(* What a row that has gone on is to those that called it. *)
Grown ==
  \A i \in DOMAIN invocations :
    /\ i \in DOMAIN invocations' /\ invocations'[i].target = invocations[i].target
    /\ invocations[i].ended # Null => invocations'[i].ended = invocations[i].ended

(* Where rows only go on, a client's invocation stays the one of its call. *)
LEMMA PlacedStays ==
  ASSUME NEW c, Grown, Placed(c), id'[c] = id[c], call'[c] = call[c]
  PROVE  Placed(c)'
  BY DEF Placed, Grown, Served

(* Where rows only go on, what was said of an invocation stays true. *)
LEMMA ToldStays ==
  ASSUME IngressTyped, NEW c, Grown, Placed(c), Told(c), id'[c] = id[c],
         reply'[c] = reply[c], c \in altered' <=> c \in altered
  PROVE  Told(c)'
<1>1. ASSUME Answered(c) PROVE Answered(c)'
  BY <1>1 DEF Answered, Grown
<1>2. ASSUME Answered(c), id[c] # 0 PROVE Said(id[c])' = Said(id[c])
  <2>1. /\ id[c] \in DOMAIN invocations
        /\ invocations[id[c]].target.mode = "send" \/ invocations[id[c]].ended # Null
    BY <1>2 DEF Answered
  <2>2. /\ invocations'[id[c]].target = invocations[id[c]].target
        /\ invocations[id[c]].target.mode # "send" => invocations'[id[c]].ended = invocations[id[c]].ended
    BY <2>1 DEF Grown
  <2> DEFINE i == id[c]
  <2>3. Said(i)' = Said(id[c])
    <3>1. CASE invocations[i].target.mode = "send"
      BY <2>2, <3>1 DEF Said
    <3>2. CASE invocations[i].target.mode # "send"
      BY <2>2, <3>2 DEF Said
    <3> QED BY <3>1, <3>2
  <2> QED BY <2>3
<1> QED BY <1>1, <1>2 DEF Told, NotFound

(* A body that is no envelope has no code that could be a status. *)
LEMMA AbsentIs == Absent \in BodyType /\ Absent.code = Null /\ \A n \in Nat : n # Null
  BY AbsenceAssumption DEF BodyType, Absent, Sources

(* A reply and the fault it is of, which a changed status would hide. *)
Reads(r, n) ==
  /\ r \in ReplyType /\ [r EXCEPT !.status = 502] \in ReplyType
  /\ ~IsFault([r EXCEPT !.status = 502]) /\ FaultOf(r) = n

(* The fault a reply is read as, from its parts: body and header both count. *)
LEMMA ResponseReads ==
  ASSUME NEW n \in Nat, NEW body \in BodyType, NEW i \in Nat \cup {Null}, NEW source \in Sources,
         body.code # 502 \/ source # "invocation"
  PROVE  Reads(Response(n, body, i, source),
               IF /\ body.code = n /\ body.source = "invocation" /\ source = "invocation"
                  /\ body.message \notin {Null, 0}
               THEN body.message ELSE Panics)
<1> DEFINE r == Response(n, body, i, source)
           s == [r EXCEPT !.status = 502]
<1>1. /\ r = [status |-> n, body |-> body, invocation_id |-> i, error_source |-> source]
      /\ s = [status |-> 502, body |-> body, invocation_id |-> i, error_source |-> source]
  BY DEF Response
<1> HIDE DEF r, s
<1>2. /\ r.status = n /\ r.body = body /\ r.error_source = source
      /\ s.status = 502 /\ s.body = body /\ s.error_source = source
  BY <1>1
<1>3. r \in ReplyType /\ s \in ReplyType
  BY <1>1 DEF ReplyType
<1>4. IsFault(r) <=> body.code = n /\ body.source = "invocation" /\ source = "invocation"
  BY <1>2 DEF IsFault
<1>5. ~IsFault(s)
  BY <1>2 DEF IsFault
<1>6. FaultOf(r) = IF /\ body.code = n /\ body.source = "invocation" /\ source = "invocation"
                      /\ body.message \notin {Null, 0}
                   THEN body.message ELSE Panics
  BY <1>2, <1>4 DEF FaultOf
<1> QED BY <1>3, <1>5, <1>6, Zenon DEF Reads, r, s

(* What the server says of an invocation is its fault just where it has one. *)
LEMMA SaidReads ==
  ASSUME IngressTyped, NEW i \in DOMAIN invocations,
         invocations[i].target.mode = "send" \/ invocations[i].ended # Null
  PROVE  /\ i \in Nat /\ i > 0
         /\ Reads(Said(i), IF invocations[i].target.mode # "send" /\ invocations[i].ended = "fault" THEN i ELSE Panics)
<1>1. i \in Nat /\ i > 0 /\ invocations[i].ended \in Endings \cup {Null}
  <2>1. i \in 1 .. Len(invocations) /\ invocations[i] \in RowType
    BY DEF IngressTyped
  <2> QED BY <2>1 DEF RowType
<1>2. /\ Null # "invocation" /\ Null \notin Endings /\ \A n \in Nat : n # Null
      /\ Null \in Sources /\ "invocation" \in Sources
  BY AbsenceAssumption DEF Sources
<1> DEFINE how == invocations[i].ended
           message == IF how = "text" THEN 0 ELSE i
<1>3. CASE invocations[i].target.mode = "send"
  <2>1. Said(i) = Response(202, Absent, i, Null)
    BY <1>3 DEF Said
  <2>2. Reads(Response(202, Absent, i, Null), Panics)
    BY <1>1, <1>2, ResponseReads, AbsentIs
  <2> QED BY <1>1, <1>3, <2>1, <2>2
<1>4. CASE invocations[i].target.mode # "send"
  <2>0. how \in Endings
    BY <1>1, <1>4
  <2>1. CASE how = "value"
    <3>1. Said(i) = Response(200, Absent, i, Null)
      BY <1>4, <2>1 DEF Said
    <3>2. Reads(Response(200, Absent, i, Null), Panics)
      BY <1>1, <1>2, ResponseReads, AbsentIs
    <3> QED BY <1>1, <1>4, <2>1, <3>1, <3>2
  <2>2. CASE how = "envelope"
    <3> DEFINE body == Envelope(200, "invocation", i)
    <3>1. Said(i) = Response(200, body, i, Null)
      BY <1>4, <2>2 DEF Said
    <3>2. body \in BodyType
      BY <1>1 DEF BodyType, Envelope, Sources
    <3> HIDE DEF body
    <3>3. Reads(Response(200, body, i, Null), Panics)
      BY <1>1, <1>2, <3>2, ResponseReads
    <3> QED BY <1>1, <1>4, <2>2, <3>1, <3>3
  <2>3. CASE how \in {"fault", "text"}
    <3> DEFINE body == Envelope(500, "invocation", message)
    <3>1. Said(i) = Response(500, body, i, "invocation")
      BY <1>4, <2>3 DEF Said
    <3>2. body \in BodyType /\ body.code = 500 /\ body.source = "invocation" /\ body.message = message
      BY <1>1 DEF BodyType, Envelope, Sources
    <3>3. (message \notin {Null, 0} <=> how = "fault") /\ (how = "fault" => message = i)
      BY <1>1, <1>2, <2>3
    <3> HIDE DEF body, message
    <3>4. Reads(Response(500, body, i, "invocation"), IF message \notin {Null, 0} THEN message ELSE Panics)
      BY <1>1, <1>2, <3>2, ResponseReads
    <3> QED BY <1>1, <1>4, <3>1, <3>3, <3>4
  <2> QED BY <2>0, <2>1, <2>2, <2>3 DEF Endings
<1> QED BY <1>3, <1>4

(* The refusal of an unknown handler is nobody's fault. *)
LEMMA NotFoundReads == Reads(NotFound, Panics)
<1> DEFINE body == Envelope(404, "ingress", 0)
<1>1. body \in BodyType
  BY DEF BodyType, Envelope, Sources
<1>2. body.source = "ingress" /\ body.code = 404
  BY DEF Envelope
<1>3. "ingress" \in Sources /\ NotFound = Response(404, body, Null, "ingress")
  BY DEF Sources, NotFound
<1> HIDE DEF body
<1>4. Reads(Response(404, body, Null, "ingress"), Panics)
  <2>1. Null \in Nat \cup {Null} /\ 404 \in Nat /\ "ingress" # "invocation"
    OBVIOUS
  <2>2. body.code # 502 \/ "ingress" # "invocation"
    BY <2>1
  <2>3. Reads(Response(404, body, Null, "ingress"),
              IF /\ body.code = 404 /\ body.source = "invocation" /\ "ingress" = "invocation"
                 /\ body.message \notin {Null, 0}
              THEN body.message ELSE Panics)
    BY <1>1, <1>3, <2>1, <2>2, ResponseReads, ZenonT(60)
  <2> QED BY <2>1, <2>3
<1> QED BY <1>3, <1>4

(* An intermediary's own answer. *)
LEMMA GatewayReads == Reads(Response(502, Absent, Null, Null), Panics)
<1>1. Null \in Sources /\ Null # "invocation"
  BY AbsenceAssumption DEF Sources
<1>2. ASSUME NEW n \in Nat PROVE Reads(Response(n, Absent, Null, Null), Panics)
  <2>1. Absent \in BodyType /\ Null \in Nat \cup {Null}
    BY AbsentIs
  <2>2. Absent.code # 502 \/ Null # "invocation"
    BY <1>1
  <2> QED BY <1>1, <2>1, <2>2, ResponseReads
<1>3. 502 \in Nat
  OBVIOUS
<1> QED BY <1>2, <1>3, Zenon

(* Rows that do not change have gone on. *)
LEMMA GrownSame == invocations' = invocations => Grown
  BY DEF Grown

(* A selection stays exact while the calls that were in flight keep their   *)
(* names.                                                                   *)
LEMMA ChosenStays ==
  ASSUME Chosen, UNCHANGED selection,
         \A c \in Clients : id[c] # Null => id'[c] = id[c] /\ call'[c] = call[c]
  PROVE  Chosen'
<1> DEFINE own == {id[c] : c \in {d \in held : Names(selected.target, call[d])}}
           next == {id'[c] : c \in {d \in held : Names(selected.target, call'[d])}}
<1>1. \A c \in held : id[c] # Null /\ c \in Clients
  BY DEF Chosen
<1>2. \A c \in held : id'[c] = id[c] /\ call'[c] = call[c]
  BY <1>1
<1>3. next = own
  BY <1>2
<1>4. held' = held /\ selected' = selected
  BY DEF selection
<1>5. held \subseteq Clients /\ \A c \in held : id'[c] # Null
  BY <1>1, <1>2
<1>6. selected # Null => selected.ids = (IF selected.one /\ Cardinality(own) # 1 THEN Panics ELSE own)
  BY Zenon DEF Chosen
<1> HIDE DEF own, next
<1>7. selected # Null => selected.ids = (IF selected.one /\ Cardinality(next) # 1 THEN Panics ELSE next)
  BY <1>3, <1>6
<1> QED BY <1>4, <1>5, <1>7, Zenon DEF Chosen, next

(* While no invocation is added, each keeps the client it came of. *)
LEMMA OwnedStays ==
  ASSUME IngressTyped, Owned, DOMAIN invocations' = DOMAIN invocations,
         \A c \in Clients : id[c] # Null => id'[c] = id[c]
  PROVE  Owned'
<1>1. \A i \in DOMAIN invocations : i # Null
  BY AbsenceAssumption DEF IngressTyped
<1> QED BY <1>1 DEF Owned

(* What is of one client stays, whatever the others do. *)
LEMMA ClientStays ==
  ASSUME IngressTyped, NEW c \in Clients, Grown, Saying(c), Placed(c), Told(c), Judged(c),
         call'[c] = call[c], sent'[c] = sent[c], id'[c] = id[c], reply'[c] = reply[c], fault'[c] = fault[c],
         c \in altered' <=> c \in altered
  PROVE  Saying(c)' /\ Placed(c)' /\ Told(c)' /\ Judged(c)'
<1>1. Saying(c)'
  BY DEF Saying
<1>2. Judged(c)'
  BY DEF Judged
<1> QED BY <1>1, <1>2, PlacedStays, ToldStays

(* A request is of a call, and is not mistaken for the absence of one. *)
LEMMA RequestsAre == \A called \in Requests : called \in CallType /\ called \notin {Null, Panics}
  BY IngressAssumption, AbsenceAssumption

(* invoke keeps the invariant: it sends the call's path or panics. *)
LEMMA InvokeInv ==
  ASSUME IngressInv, NEW c \in Clients, NEW called \in Requests, Invoke(c, called)
  PROVE  IngressInv'
<1>1. /\ IngressTyped /\ Owned /\ Chosen /\ \A d \in Clients : Saying(d) /\ Placed(d) /\ Told(d) /\ Judged(d)
  BY DEF IngressInv
<1>2. call[c] = Null /\ id[c] = Null
  BY <1>1 DEF Invoke, Placed
<1>3. /\ call' = [call EXCEPT ![c] = IF Sendable(called) THEN called ELSE Panics]
      /\ sent' = [sent EXCEPT ![c] = IF Sendable(called) THEN Sent(base.ingress \o path(called)) ELSE Null]
      /\ UNCHANGED <<base, id, reply, altered, fault, invocations, selection>>
  BY DEF Invoke
<1>4. IngressTyped'
  BY <1>1, <1>3 DEF IngressTyped
<1>5. /\ call'[c] = IF Sendable(called) THEN called ELSE Panics
      /\ sent'[c] = IF Sendable(called) THEN Sent(Address \o path(called)) ELSE Null
      /\ \A d \in Clients : d # c => call'[d] = call[d] /\ sent'[d] = sent[d]
  BY <1>1, <1>3 DEF IngressTyped
<1>6. Grown
  BY <1>3, GrownSame
<1>7. Saying(c)' /\ Placed(c)' /\ Told(c)' /\ Judged(c)'
  <2>1. Saying(c)'
    BY <1>5 DEF Saying
  <2>2. Placed(c)'
    BY <1>2, <1>3 DEF Placed
  <2>3. Told(c)'
    BY <1>1, <1>3, <1>6, ToldStays
  <2>4. Judged(c)'
    BY <1>1, <1>3 DEF Judged
  <2> QED BY <2>1, <2>2, <2>3, <2>4
<1>8. \A d \in Clients : Saying(d)' /\ Placed(d)' /\ Told(d)' /\ Judged(d)'
  BY <1>1, <1>3, <1>5, <1>6, <1>7, ClientStays
<1>9. Owned'
  BY <1>1, <1>3, OwnedStays
<1>10. Chosen'
  BY <1>1, <1>2, <1>3, <1>5, ChosenStays
<1> QED BY <1>4, <1>8, <1>9, <1>10 DEF IngressInv

(* A client's timeout keeps the invariant: its invocation goes on. *)
LEMMA TimeoutInv ==
  ASSUME IngressInv, NEW c \in Clients, Timeout(c)
  PROVE  IngressInv'
<1>1. /\ IngressTyped /\ Owned /\ Chosen /\ \A d \in Clients : Saying(d) /\ Placed(d) /\ Told(d) /\ Judged(d)
  BY DEF IngressInv
<1>2. reply[c] = Null /\ fault[c] = Null /\ c \notin altered
  BY <1>1 DEF Timeout, Judged, Told
<1>3. /\ reply' = [reply EXCEPT ![c] = Panics]
      /\ UNCHANGED <<base, call, sent, id, altered, fault, invocations, selection>>
  BY DEF Timeout
<1>4. IngressTyped'
  BY <1>1, <1>3 DEF IngressTyped
<1>5. reply'[c] = Panics /\ \A d \in Clients : d # c => reply'[d] = reply[d]
  BY <1>1, <1>3 DEF IngressTyped
<1>6. Grown
  BY <1>3, GrownSame
<1>7. Saying(c)' /\ Placed(c)' /\ Told(c)' /\ Judged(c)'
  <2>1. Saying(c)'
    BY <1>1, <1>3 DEF Saying
  <2>2. Placed(c)'
    BY <1>1, <1>3, <1>6, PlacedStays
  <2>3. Told(c)'
    BY <1>2, <1>3, <1>5 DEF Told
  <2>4. Judged(c)'
    BY <1>2, <1>3 DEF Judged
  <2> QED BY <2>1, <2>2, <2>3, <2>4
<1>8. \A d \in Clients : Saying(d)' /\ Placed(d)' /\ Told(d)' /\ Judged(d)'
  BY <1>1, <1>3, <1>5, <1>6, <1>7, ClientStays
<1>9. Owned'
  BY <1>1, <1>3, OwnedStays
<1>10. Chosen'
  BY <1>1, <1>3, ChosenStays
<1> QED BY <1>4, <1>8, <1>9, <1>10 DEF IngressInv

(* Reply::fault keeps the invariant: it only looks at the reply. *)
LEMMA FaultInv ==
  ASSUME IngressInv, NEW c \in Clients, Fault(c)
  PROVE  IngressInv'
<1>1. /\ IngressTyped /\ Owned /\ Chosen /\ \A d \in Clients : Saying(d) /\ Placed(d) /\ Told(d) /\ Judged(d)
  BY DEF IngressInv
<1>2. /\ reply[c] \notin {Null, Panics} /\ reply[c] \in ReplyType
      /\ fault' = [fault EXCEPT ![c] = FaultOf(reply[c])]
      /\ UNCHANGED <<base, call, sent, id, reply, altered, invocations, selection>>
  BY <1>1 DEF Fault, FaultOf, IngressTyped
<1>3. FaultOf(reply[c]) \in Nat \cup {Panics}
  BY <1>2 DEF FaultOf, ReplyType, BodyType
<1>4. IngressTyped'
  BY <1>1, <1>2, <1>3 DEF IngressTyped
<1>5. fault'[c] = FaultOf(reply[c]) /\ \A d \in Clients : d # c => fault'[d] = fault[d]
  BY <1>1, <1>2 DEF IngressTyped
<1>6. Grown
  BY <1>2, GrownSame
<1>7. Saying(c)' /\ Placed(c)' /\ Told(c)' /\ Judged(c)'
  <2>1. Saying(c)'
    BY <1>1, <1>2 DEF Saying
  <2>2. Placed(c)' /\ Told(c)'
    BY <1>1, <1>2, <1>6, PlacedStays, ToldStays
  <2>3. Judged(c)'
    BY <1>2, <1>5 DEF Judged
  <2> QED BY <2>1, <2>2, <2>3
<1>8. \A d \in Clients : Saying(d)' /\ Placed(d)' /\ Told(d)' /\ Judged(d)'
  BY <1>1, <1>2, <1>5, <1>6, <1>7, ClientStays
<1>9. Owned'
  BY <1>1, <1>2, OwnedStays
<1>10. Chosen'
  BY <1>1, <1>2, ChosenStays
<1> QED BY <1>4, <1>8, <1>9, <1>10 DEF IngressInv

(* A request becomes an invocation of what was called, or of nothing. *)
LEMMA AcceptInv ==
  ASSUME IngressInv, NEW c \in Clients, Accept(c)
  PROVE  IngressInv'
<1>1. /\ IngressTyped /\ Owned /\ Chosen /\ \A d \in Clients : Saying(d) /\ Placed(d) /\ Told(d) /\ Judged(d)
  BY DEF IngressInv
<1>2. /\ call[c] \notin {Null, Panics} /\ call[c] \in CallType /\ id[c] = Null
      /\ UNCHANGED <<base, call, sent, reply, altered, fault, selection>>
  BY <1>1, RequestsAre DEF Accept, IngressTyped
<1>3. Routed(Forwarded(sent[c])) = IF Served(call[c]) THEN call[c] ELSE Null
  BY <1>1, <1>2, CallIsRouted DEF Saying
<1>4. call[c] # Null
  BY <1>2
<1> DEFINE entry == [target |-> call[c], ended |-> Null]
           n == Len(invocations)
<1>5. IF Served(call[c])
      THEN invocations' = Append(invocations, entry) /\ id' = [id EXCEPT ![c] = Len(invocations')]
      ELSE invocations' = invocations /\ id' = [id EXCEPT ![c] = 0]
  BY <1>3, <1>4 DEF Accept
<1>6. invocations \in Seq(RowType) /\ n \in Nat /\ entry \in RowType /\ entry.target = call[c]
  BY <1>1, <1>2 DEF IngressTyped, RowType
<1> HIDE DEF entry
<1>7. /\ invocations' \in Seq(RowType)
      /\ Served(call[c]) => /\ Len(invocations') = n + 1 /\ DOMAIN invocations' = 1 .. (n + 1)
                            /\ invocations'[n + 1] = entry
      /\ \A i \in DOMAIN invocations : i \in DOMAIN invocations' /\ invocations'[i] = invocations[i]
  <2>1. DOMAIN invocations = 1 .. n
    BY <1>6
  <2>2. CASE Served(call[c])
    <3>1. invocations' = Append(invocations, entry) /\ invocations' \in Seq(RowType)
      BY <1>5, <1>6, <2>2
    <3>2. /\ Len(invocations') = n + 1 /\ DOMAIN invocations' = 1 .. (n + 1)
          /\ (\A k \in 1 .. n : invocations'[k] = invocations[k]) /\ invocations'[n + 1] = entry
      BY <1>6, <3>1, OneAppended
    <3>3. \A i \in 1 .. n : i \in 1 .. (n + 1)
      BY <1>6
    <3> QED BY <2>1, <3>1, <3>2, <3>3
  <2>3. CASE ~Served(call[c])
    BY <1>5, <1>6, <2>3
  <2> QED BY <2>2, <2>3
<1>8. DOMAIN invocations = 1 .. n
  BY <1>6
<1>9. Grown
  BY <1>7 DEF Grown
<1>10. /\ id'[c] = IF Served(call[c]) THEN n + 1 ELSE 0
       /\ id' = [id EXCEPT ![c] = IF Served(call[c]) THEN n + 1 ELSE 0]
       /\ \A d \in Clients : d # c => id'[d] = id[d]
  BY <1>1, <1>5, <1>7 DEF IngressTyped
<1>11. IngressTyped'
  <2>1. id' \in [Clients -> Nat \cup {Null}]
    BY <1>1, <1>6, <1>10 DEF IngressTyped
  <2> QED BY <1>1, <1>2, <1>7, <2>1 DEF IngressTyped
<1>12. Saying(c)' /\ Placed(c)' /\ Told(c)' /\ Judged(c)'
  <2>1. Saying(c)' /\ Judged(c)'
    BY <1>1, <1>2 DEF Saying, Judged
  <2>2. Placed(c)'
    <3>1. CASE Served(call[c])
      <4>1. id'[c] = n + 1 /\ n + 1 # 0 /\ n + 1 \in DOMAIN invocations' /\ invocations'[n + 1].target = call[c]
        BY <1>6, <1>7, <1>10, <3>1
      <4> QED BY <1>2, <4>1 DEF Placed
    <3>2. CASE ~Served(call[c])
      BY <1>2, <1>10, <3>2 DEF Placed, Served
    <3> QED BY <3>1, <3>2
  <2>3. Told(c)'
    <3>1. ~Answered(c)
      BY <1>2, <1>8, AbsenceAssumption DEF Answered
    <3>2. reply[c] \in {Null, Panics} \/ c \in altered
      BY <1>1, <3>1 DEF Told
    <3> QED BY <1>1, <1>2, <3>2 DEF Told
  <2> QED BY <2>1, <2>2, <2>3
<1>13. \A d \in Clients : Saying(d)' /\ Placed(d)' /\ Told(d)' /\ Judged(d)'
  BY <1>1, <1>2, <1>9, <1>10, <1>12, ClientStays
<1>14. Owned'
  <2>1. \A i \in DOMAIN invocations : \E d \in Clients : id'[d] = i
    BY <1>1, <1>2, <1>8, <1>10, AbsenceAssumption DEF Owned
  <2>2. \A i \in DOMAIN invocations' : i \in DOMAIN invocations \/ i = id'[c]
    <3>1. CASE Served(call[c])
      <4>1. \A i \in 1 .. (n + 1) : i \in 1 .. n \/ i = n + 1
        BY <1>6
      <4> QED BY <1>7, <1>8, <1>10, <3>1, <4>1
    <3>2. CASE ~Served(call[c])
      BY <1>5, <3>2
    <3> QED BY <3>1, <3>2
  <2> QED BY <2>1, <2>2 DEF Owned
<1>15. Chosen'
  BY <1>1, <1>2, <1>10, ChosenStays
<1> QED BY <1>11, <1>13, <1>14, <1>15 DEF IngressInv

(* A reply that comes is one nobody has judged. *)
LEMMA ReplyInv ==
  ASSUME IngressInv, NEW c \in Clients, reply[c] = Null, NEW r, Reads(r, FaultOf(r)),
         reply' = [reply EXCEPT ![c] = r],
         UNCHANGED <<base, call, sent, id, fault, invocations, selection>>,
         \/ altered' = altered \cup {c} /\ ~IsFault(r)
         \/ altered' = altered /\ Answered(c) /\ r = IF id[c] = 0 THEN NotFound ELSE Said(id[c])
  PROVE  IngressInv'
<1>1. /\ IngressTyped /\ Owned /\ Chosen /\ \A d \in Clients : Saying(d) /\ Placed(d) /\ Told(d) /\ Judged(d)
  BY DEF IngressInv
<1>2. fault[c] = Null /\ c \notin altered
  BY <1>1 DEF Judged, Told
<1>3. r \in ReplyType /\ r \notin {Null, Panics}
  BY AbsenceAssumption DEF Reads
<1>4. IngressTyped'
  BY <1>1, <1>3 DEF IngressTyped
<1>5. reply'[c] = r /\ \A d \in Clients : d # c => reply'[d] = reply[d] /\ (d \in altered' <=> d \in altered)
  BY <1>1 DEF IngressTyped
<1>6. Grown
  BY GrownSame
<1>7. Saying(c)' /\ Placed(c)' /\ Told(c)' /\ Judged(c)'
  <2>1. Saying(c)'
    BY <1>1 DEF Saying
  <2>2. Placed(c)'
    BY <1>1, <1>6, PlacedStays
  <2>3. Told(c)'
    <3>1. CASE altered' = altered \cup {c} /\ ~IsFault(r)
      BY <1>3, <1>5, <3>1 DEF Told
    <3>2. CASE altered' = altered /\ Answered(c) /\ r = IF id[c] = 0 THEN NotFound ELSE Said(id[c])
      <4>1. Answered(c)' /\ Said(id[c])' = Said(id[c]) /\ NotFound' = NotFound
        <5>1. id' = id /\ invocations' = invocations
          OBVIOUS
        <5>2. Answered(c)' = Answered(c)
          BY <5>1, Zenon DEF Answered
        <5>3. Said(id[c])' = Said(id[c])
          BY <5>1 DEF Said
        <5> QED BY <3>2, <5>2, <5>3 DEF NotFound
      <4> QED BY <1>2, <1>5, <3>2, <4>1 DEF Told
    <3> QED BY <3>1, <3>2
  <2>4. Judged(c)'
    BY <1>2 DEF Judged
  <2> QED BY <2>1, <2>2, <2>3, <2>4
<1>8. \A d \in Clients : Saying(d)' /\ Placed(d)' /\ Told(d)' /\ Judged(d)'
  BY <1>1, <1>5, <1>6, <1>7, ClientStays
<1>9. Owned'
  BY <1>1, OwnedStays
<1>10. Chosen'
  BY <1>1, ChosenStays
<1> QED BY <1>4, <1>8, <1>9, <1>10 DEF IngressInv

(* A reply is read as its own fault. *)
LEMMA ReadsOwn == \A r, n : Reads(r, n) => Reads(r, FaultOf(r)) /\ (r \in ReplyType)
  BY DEF Reads

(* What is said of a client's own invocation. *)
LEMMA AnsweredReads ==
  ASSUME IngressTyped, NEW c \in Clients, Placed(c), Answered(c)
  PROVE  /\ id[c] # Null
         /\ id[c] # 0 =>
              /\ id[c] \in DOMAIN invocations /\ id[c] \in Nat /\ id[c] > 0
              /\ Reads(Said(id[c]), IF call[c].mode # "send" /\ invocations[id[c]].ended = "fault" THEN id[c] ELSE Panics)
<1>1. id[c] # Null
  BY AbsenceAssumption DEF Answered, IngressTyped
<1>2. id[c] # 0 => /\ id[c] \in DOMAIN invocations /\ invocations[id[c]].target = call[c]
                   /\ invocations[id[c]].target.mode = "send" \/ invocations[id[c]].ended # Null
  BY <1>1 DEF Placed, Answered
<1> DEFINE i == id[c]
<1>3. ASSUME i # 0
      PROVE  /\ i \in Nat /\ i > 0
             /\ Reads(Said(i), IF invocations[i].target.mode # "send" /\ invocations[i].ended = "fault" THEN i ELSE Panics)
  BY <1>2, <1>3, SaidReads
<1> QED BY <1>1, <1>2, <1>3

(* An answer of the server keeps the invariant. *)
LEMMA AnswerInv ==
  ASSUME IngressInv, NEW c \in Clients, Answer(c)
  PROVE  IngressInv'
<1> DEFINE r == IF id[c] = 0 THEN NotFound ELSE Said(id[c])
<1>1. IngressTyped /\ Placed(c)
  BY DEF IngressInv
<1>2. /\ reply[c] = Null /\ Answered(c) /\ reply' = [reply EXCEPT ![c] = r] /\ altered' = altered
      /\ UNCHANGED <<base, call, sent, id, fault, invocations, selection>>
  BY DEF Answer
<1>3. Reads(r, FaultOf(r))
  BY <1>1, <1>2, AnsweredReads, NotFoundReads, ReadsOwn
<1> QED
  <2> DEFINE s == r
  <2>1. s = IF id[c] = 0 THEN NotFound ELSE Said(id[c])
    OBVIOUS
  <2> HIDE DEF r, s
  <2> QED BY <1>2, <1>3, <2>1, ReplyInv DEF s

(* An intermediary's answer, or its change of a status, keeps the invariant. *)
LEMMA InterfereInv ==
  ASSUME IngressInv, NEW c \in Clients, Interfere(c)
  PROVE  IngressInv'
<1>1. IngressTyped /\ Placed(c)
  BY DEF IngressInv
<1>2. /\ reply[c] = Null /\ altered' = altered \cup {c}
      /\ UNCHANGED <<base, call, sent, id, fault, invocations, selection>>
  BY DEF Interfere
<1>3. CASE reply' = [reply EXCEPT ![c] = Response(502, Absent, Null, Null)]
  <2> DEFINE r == Response(502, Absent, Null, Null)
  <2>1. Reads(r, FaultOf(r)) /\ ~IsFault(r)
    <3>1. [r EXCEPT !.status = 502] = r
      BY DEF Response
    <3>2. Reads(r, Panics)
      BY GatewayReads
    <3> HIDE DEF r
    <3>3. ~IsFault(r)
      BY <3>1, <3>2 DEF Reads
    <3> QED BY <3>2, <3>3, ReadsOwn
  <2> HIDE DEF r
  <2>2. reply' = [reply EXCEPT ![c] = r]
    BY <1>3 DEF r
  <2> QED BY <1>2, <2>1, <2>2, ReplyInv
<1>4. CASE /\ id[c] \in DOMAIN invocations /\ Answered(c)
           /\ reply' = [reply EXCEPT ![c] = [Said(id[c]) EXCEPT !.status = 502]]
  <2> DEFINE r == [Said(id[c]) EXCEPT !.status = 502]
  <2>0. id[c] # 0
    BY <1>1, <1>4 DEF IngressTyped
  <2>1. r \in ReplyType /\ ~IsFault(r) /\ r.status = 502
    <3> DEFINE n == IF call[c].mode # "send" /\ invocations[id[c]].ended = "fault" THEN id[c] ELSE Panics
    <3>1. Reads(Said(id[c]), n)
      BY <1>1, <1>4, <2>0, AnsweredReads
    <3> HIDE DEF n
    <3>2. Said(id[c]) \in ReplyType /\ r \in ReplyType /\ ~IsFault(r)
      BY <3>1 DEF Reads
    <3> QED BY <3>2 DEF ReplyType
  <2>2. [r EXCEPT !.status = 502] = r
    <3> HIDE DEF r
    <3> QED BY <2>1 DEF ReplyType
  <2> HIDE DEF r
  <2>3. Reads(r, FaultOf(r))
    BY <2>1, <2>2 DEF Reads
  <2>4. reply' = [reply EXCEPT ![c] = r]
    BY <1>4 DEF r
  <2> QED BY <1>2, <2>1, <2>3, <2>4, ReplyInv
<1> QED BY <1>3, <1>4 DEF Interfere

(* The end of an invocation keeps the invariant. *)
LEMMA EndInv ==
  ASSUME IngressInv, NEW i, NEW how \in Endings, End(i, how)
  PROVE  IngressInv'
<1>1. /\ IngressTyped /\ Owned /\ Chosen /\ \A d \in Clients : Saying(d) /\ Placed(d) /\ Told(d) /\ Judged(d)
  BY DEF IngressInv
<1>2. /\ i \in DOMAIN invocations /\ invocations[i].ended = Null
      /\ invocations' = [invocations EXCEPT ![i] = [invocations[i] EXCEPT !.ended = how]]
      /\ UNCHANGED <<base, client, selection>>
  BY DEF End
<1>3. /\ invocations \in Seq(RowType) /\ i \in 1 .. Len(invocations) /\ invocations[i] \in RowType
  BY <1>1, <1>2 DEF IngressTyped
<1>4. [invocations[i] EXCEPT !.ended = how] \in RowType /\ [invocations[i] EXCEPT !.ended = how].target = invocations[i].target
  BY <1>3 DEF RowType
<1>5. /\ invocations' \in Seq(RowType) /\ DOMAIN invocations' = DOMAIN invocations
      /\ invocations'[i].target = invocations[i].target
      /\ \A j \in DOMAIN invocations : j # i => invocations'[j] = invocations[j]
  <2> DEFINE made == [invocations[i] EXCEPT !.ended = how]
  <2>1. made \in RowType /\ made.target = invocations[i].target
    BY <1>4
  <2> HIDE DEF made
  <2>2. invocations' = [invocations EXCEPT ![i] = made]
    BY <1>2 DEF made
  <2>3. invocations' \in Seq(RowType) /\ DOMAIN invocations' = DOMAIN invocations
    BY <1>3, <2>1, <2>2
  <2>4. invocations'[i] = made /\ \A j \in DOMAIN invocations : j # i => invocations'[j] = invocations[j]
    BY <1>2, <2>2
  <2> QED BY <2>1, <2>3, <2>4
<1>6. Grown
  BY <1>2, <1>5 DEF Grown
<1>7. UNCHANGED <<call, sent, id, reply, altered, fault>>
  BY <1>2 DEF client
<1>8. IngressTyped'
  BY <1>1, <1>2, <1>5, <1>7 DEF IngressTyped
<1>9. \A d \in Clients : Saying(d)' /\ Placed(d)' /\ Told(d)' /\ Judged(d)'
  BY <1>1, <1>6, <1>7, ClientStays
<1>10. Owned'
  BY <1>1, <1>5, <1>7, OwnedStays
<1>11. Chosen'
  BY <1>1, <1>2, <1>7, ChosenStays
<1> QED BY <1>8, <1>9, <1>10, <1>11 DEF IngressInv

(* What a selection finds is whose calls are in flight. *)
LEMMA InFlightIs ==
  ASSUME IngressInv, NEW target \in Targets
  PROVE  InFlightOf(target) = {id[c] : c \in {d \in Unfinished : Names(target, call[d])}}
<1>1. IngressTyped /\ Owned /\ \A d \in Clients : Placed(d)
  BY DEF IngressInv
<1>2. target \in TargetType
  BY IngressAssumption
<1>3. Forwarded(Sent(base.admin \o <<"/", "query">>)) = <<<<"query">>>>
  BY <1>1, QueryIsForwarded DEF IngressTyped
<1> DEFINE query == Lexemes(predicate(target) \o <<"AND status <> 'completed'">>)
<1>4. WellFormed(query) /\ \A made \in CallType : Satisfies(made, query) <=> Names(target, made)
  BY <1>2, PredicateSelects
<1>5. InFlightOf(target) =
        {i \in DOMAIN invocations : invocations[i].ended = Null /\ Satisfies(invocations[i].target, query)}
  BY <1>3, <1>4, Zenon DEF InFlightOf
<1> HIDE DEF query
<1>6. \A i \in DOMAIN invocations : invocations[i].target \in CallType
  <2>1. invocations \in Seq(RowType)
    BY <1>1 DEF IngressTyped
  <2>2. \A i \in DOMAIN invocations : invocations[i] \in RowType
    BY <2>1
  <2> QED BY <2>2 DEF RowType
<1>7. InFlightOf(target) =
        {i \in DOMAIN invocations : invocations[i].ended = Null /\ Names(target, invocations[i].target)}
  BY <1>4, <1>5, <1>6
<1>8. 0 \notin DOMAIN invocations /\ Null \notin DOMAIN invocations
  BY <1>1, AbsenceAssumption DEF IngressTyped
<1>9. \A c \in Unfinished : /\ id[c] \in DOMAIN invocations /\ invocations[id[c]].ended = Null
                            /\ invocations[id[c]].target = call[c]
  BY <1>1, <1>8 DEF Unfinished, Placed
<1>10. ASSUME NEW i \in DOMAIN invocations, invocations[i].ended = Null
       PROVE  \E c \in Unfinished : id[c] = i
  BY <1>1, <1>10 DEF Owned, Unfinished
<1> QED BY <1>7, <1>9, <1>10

(* in_flight_ids_on and in_flight_on keep the invariant. *)
LEMMA SelectInv ==
  ASSUME IngressInv, NEW target \in Targets, InFlightIdsOn(target) \/ InFlightOn(target)
  PROVE  IngressInv'
<1>1. /\ IngressTyped /\ Owned /\ Chosen /\ \A d \in Clients : Saying(d) /\ Placed(d) /\ Told(d) /\ Judged(d)
  BY DEF IngressInv
<1> DEFINE own == {id[c] : c \in {d \in Unfinished : Names(target, call[d])}}
<1>2. InFlightOf(target) = own
  BY InFlightIs
<1>3. held' = Unfinished /\ UNCHANGED <<base, client, invocations>>
  BY DEF InFlightIdsOn, InFlightOn, Select
<1>4. selected'.target = target /\ selected'.ids = IF selected'.one /\ Cardinality(own) # 1 THEN Panics ELSE own
  <2> HIDE DEF own
  <2>1. CASE InFlightIdsOn(target)
    <3>1. selected' = [target |-> target, one |-> FALSE, ids |-> own]
      BY <1>2, <2>1 DEF InFlightIdsOn, Select
    <3> QED BY <3>1
  <2>2. CASE InFlightOn(target)
    <3>1. selected' = [target |-> target, one |-> TRUE,
                       ids |-> IF own # Panics /\ Cardinality(own) = 1 THEN own ELSE Panics]
      BY <1>2, <2>2, Zenon DEF InFlightOn, Select
    <3> QED BY <3>1
  <2> QED BY <2>1, <2>2
<1>5. UNCHANGED <<call, sent, id, reply, altered, fault>> /\ invocations' = invocations /\ base' = base
  BY <1>3 DEF client
<1>6. Unfinished \subseteq Clients /\ \A c \in Unfinished : id[c] # Null
  BY <1>1, AbsenceAssumption DEF Unfinished, IngressTyped
<1>7. Chosen'
  <2>1. own = {id'[c] : c \in {d \in held' : Names(selected'.target, call'[d])}}
    BY <1>3, <1>4, <1>5
  <2> QED BY <1>3, <1>4, <1>5, <1>6, <2>1, Zenon DEF Chosen
<1>8. IngressTyped'
  BY <1>1, <1>5 DEF IngressTyped
<1>9. Grown
  BY <1>5, GrownSame
<1>10. \A d \in Clients : Saying(d)' /\ Placed(d)' /\ Told(d)' /\ Judged(d)'
  BY <1>1, <1>5, <1>9, ClientStays
<1>11. Owned'
  BY <1>1, <1>5, OwnedStays
<1> QED BY <1>7, <1>8, <1>10, <1>11 DEF IngressInv

(* Every reachable state of a test that calls and selects is as IngressInv  *)
(* says.                                                                    *)
THEOREM IngressInvariance == IngressSpec => []IngressInv
<1>1. IngressInit => IngressInv
  <2> SUFFICES ASSUME IngressInit PROVE IngressInv
    OBVIOUS
  <2>1. base = [ingress |-> Address, admin |-> Address]
    BY IngressAssumption DEF IngressInit, Address
  <2>2. /\ call = [c \in Clients |-> Null] /\ sent = [c \in Clients |-> Null] /\ id = [c \in Clients |-> Null]
        /\ reply = [c \in Clients |-> Null] /\ altered = {} /\ fault = [c \in Clients |-> Null]
        /\ invocations = <<>> /\ selected = Null /\ held = {}
    BY DEF IngressInit
  <2>3. IngressTyped
    BY <2>1, <2>2 DEF IngressTyped
  <2>4. \A c \in Clients : Saying(c) /\ Placed(c) /\ Told(c) /\ Judged(c)
    BY <2>2 DEF Saying, Placed, Told, Judged
  <2>5. Owned /\ Chosen
    BY <2>2 DEF Owned, Chosen
  <2> QED BY <2>3, <2>4, <2>5 DEF IngressInv
<1>2. IngressInv /\ [IngressNext]_ingressVars => IngressInv'
  <2> SUFFICES ASSUME IngressInv, [IngressNext]_ingressVars PROVE IngressInv'
    OBVIOUS
  <2>1. ASSUME NEW c \in Clients, NEW called \in Requests, Invoke(c, called) PROVE IngressInv'
    BY <2>1, InvokeInv
  <2>2. ASSUME NEW c \in Clients, Timeout(c) PROVE IngressInv'
    BY <2>2, TimeoutInv
  <2>3. ASSUME NEW c \in Clients, Fault(c) PROVE IngressInv'
    BY <2>3, FaultInv
  <2>4. ASSUME NEW c \in Clients, Accept(c) PROVE IngressInv'
    BY <2>4, AcceptInv
  <2>5. ASSUME NEW c \in Clients, Answer(c) PROVE IngressInv'
    BY <2>5, AnswerInv
  <2>6. ASSUME NEW c \in Clients, Interfere(c) PROVE IngressInv'
    BY <2>6, InterfereInv
  <2>7. ASSUME NEW i \in 1 .. Cardinality(Clients), NEW how \in Endings, End(i, how) PROVE IngressInv'
    BY <2>7, EndInv
  <2>8. ASSUME NEW target \in Targets, InFlightIdsOn(target) \/ InFlightOn(target) PROVE IngressInv'
    BY <2>8, SelectInv
  <2>9. ASSUME UNCHANGED ingressVars PROVE IngressInv'
    <3>1. UNCHANGED <<base, call, sent, id, reply, altered, fault, invocations, selected, held>>
      BY <2>9 DEF ingressVars, client, selection
    <3>2. /\ IngressTyped /\ Owned /\ Chosen /\ \A d \in Clients : Saying(d) /\ Placed(d) /\ Told(d) /\ Judged(d)
      BY DEF IngressInv
    <3>3. IngressTyped'
      BY <3>1, <3>2 DEF IngressTyped
    <3>4. \A d \in Clients : Saying(d)' /\ Placed(d)' /\ Told(d)' /\ Judged(d)'
      BY <3>1, <3>2, GrownSame, ClientStays
    <3>5. Owned' /\ Chosen'
      BY <3>1, <3>2, OwnedStays, ChosenStays DEF selection
    <3> QED BY <3>3, <3>4, <3>5 DEF IngressInv
  <2> QED BY <2>1, <2>2, <2>3, <2>4, <2>5, <2>6, <2>7, <2>8, <2>9 DEF IngressNext
<1> QED BY <1>1, <1>2, PTL DEF IngressSpec

(* Of every alphabet, prefix, set of handlers and concurrent calls: a       *)
(* selection of in_flight_on or in_flight_ids_on is exactly the calls in    *)
(* flight that were made to the object, and a call is told that there is no *)
(* handler only where none is deployed (Call::path, Target and sql_literal  *)
(* against what their readers make of them).                                *)
THEOREM SelectionsAreExact == IngressSpec => []CallsAreSelected
<1>1. IngressInv => CallsAreSelected
  <2> SUFFICES ASSUME IngressInv PROVE CallsAreSelected
    OBVIOUS
  <2>1. Chosen /\ \A c \in Clients : Placed(c)
    BY DEF IngressInv
  <2>2. \A c \in Clients : id[c] = 0 => ~Served(call[c])
    BY <2>1, AbsenceAssumption DEF Placed
  <2> QED BY <2>1, <2>2 DEF Chosen, CallsAreSelected, Served
<1> QED BY <1>1, IngressInvariance, PTL

(* Of every interleaving of calls, ends, late answers and intermediaries:   *)
(* what Reply::fault decodes is the terminal error in which the call's own  *)
(* invocation ended, and it decodes one of no other reply.                  *)
THEOREM FaultsAreHandlers == IngressSpec => []FaultIsHandlers
<1>1. IngressInv => FaultIsHandlers
  <2> SUFFICES ASSUME IngressInv, NEW c \in Clients, fault[c] # Null
               PROVE  LET failed == id[c] \in DOMAIN invocations /\ call[c].mode = "call"
                                      /\ invocations[id[c]].ended = "fault"
                      IN fault[c] = (IF failed /\ c \notin altered THEN id[c] ELSE Panics)
    BY DEF FaultIsHandlers
  <2>1. IngressTyped /\ Placed(c) /\ Told(c) /\ reply[c] \notin {Null, Panics} /\ fault[c] = FaultOf(reply[c])
    BY DEF IngressInv, Judged
  <2>2. CASE c \in altered
    <3>1. ~IsFault(reply[c])
      BY <2>1, <2>2 DEF Told
    <3> QED BY <2>1, <2>2, <3>1 DEF FaultOf
  <2>3. CASE c \notin altered
    <3>1. Answered(c) /\ reply[c] = IF id[c] = 0 THEN NotFound ELSE Said(id[c])
      BY <2>1, <2>3 DEF Told
    <3>2. CASE id[c] = 0
      <4>1. id[c] \notin DOMAIN invocations
        BY <2>1, <3>2 DEF IngressTyped
      <4>2. FaultOf(reply[c]) = Panics
        BY <3>1, <3>2, NotFoundReads DEF Reads
      <4> QED BY <2>1, <4>1, <4>2
    <3>3. CASE id[c] # 0
      <4>1. /\ id[c] # Null /\ id[c] \in DOMAIN invocations
            /\ FaultOf(reply[c]) =
                 IF call[c].mode # "send" /\ invocations[id[c]].ended = "fault" THEN id[c] ELSE Panics
        <5> DEFINE n == IF call[c].mode # "send" /\ invocations[id[c]].ended = "fault" THEN id[c] ELSE Panics
        <5>1. id[c] # Null /\ id[c] \in DOMAIN invocations /\ Reads(Said(id[c]), n)
          BY <2>1, <3>1, <3>3, AnsweredReads
        <5> HIDE DEF n
        <5>2. FaultOf(Said(id[c])) = n
          BY <5>1 DEF Reads
        <5> QED BY <3>1, <3>3, <5>1, <5>2 DEF n
      <4>2. call[c] \in CallType
        BY <2>1, <4>1, RequestsAre DEF Placed, IngressTyped
      <4>3. call[c].mode = "call" <=> call[c].mode # "send"
        BY <4>2 DEF CallType
      <4> QED BY <2>1, <2>3, <4>1, <4>3
    <3> QED BY <3>2, <3>3
  <2> QED BY <2>2, <2>3
<1> QED BY <1>1, IngressInvariance, PTL
=============================================================================
