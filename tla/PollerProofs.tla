---------------------------- MODULE PollerProofs ----------------------------
(***************************************************************************)
(* Proofs about module Poller, and about Counter's wait for its result,    *)
(* for every set of requested configurations and every bound.  The         *)
(* argument rests on trail: it holds the state the loop was in when it     *)
(* first had p entries, so an invariant of the whole journal needs to be   *)
(* shown only where the journal grows, the spacing of the checks included. *)
(***************************************************************************)
EXTENDS Counter, FiniteSetTheorems, TLAPS

(* The loop's step on an awaited entry, all awaits together. *)
StepOf(l, e, p) ==
  IF e.status = "cancelled" THEN Ended(l, "Cancelled")
  ELSE CASE l.pc = "start" -> OnStart(l, e.time)
         [] l.pc = "check" -> OnCheck(l, e.verdict, p)
         [] l.pc = "remaining" -> OnRemaining(l, e.time)
         [] l.pc = "sleep" -> OnSlept(l)
         [] OTHER -> OnWake(l, e.time)

PollerType == poller \in Requested /\ Builds(poller)

(* The loop is still polling only while an attempt is left. *)
LeftOK(l) == Limited /\ l.pc # "ended" => l.left >= 1

PcOK(l) == (l.outcome = "none") = (l.pc # "ended")
TimedPc(l) == ~Timed => l.pc \notin {"start", "remaining", "wake"}

GoodLocal(l) == l \in LocalType /\ LeftOK(l) /\ PcOK(l) /\ TimedPc(l)

LEMMA PollerFields ==
  ASSUME PollerType
  PROVE  /\ poller.interval \in Nat \ {0}
         /\ Timed => poller.timeout \in Nat
         /\ ~Timed => poller.timeout # 0
         /\ Limited => poller.maxAttempts \in Nat \ {0}
  BY PollerAssumption DEF PollerType, Builds, Timed, Limited

LEMMA FreshGood ==
  ASSUME PollerType
  PROVE  GoodLocal(Fresh)
  BY PollerFields DEF GoodLocal, Fresh, LocalType, Outcomes, LeftOK, PcOK, TimedPc

(* Whatever an await returns, the loop's variables keep their types, and   *)
(* it goes on only with an attempt left.                                   *)
LEMMA StepGood ==
  ASSUME PollerType, NEW l, GoodLocal(l), l.pc # "ended",
         NEW e \in EntryType, NEW p \in Nat
  PROVE  GoodLocal(StepOf(l, e, p))
  <1>0. e.time \in Nat /\ e.verdict \in {"none", "continue", "break", "error"}
    BY DEF EntryType
  <1>a. /\ poller.interval \in Nat \ {0}
        /\ Timed => poller.timeout \in Nat
        /\ Limited => poller.maxAttempts \in Nat \ {0}
    BY PollerFields
  <1>b. /\ l \in LocalType /\ l.outcome = "none"
        /\ Limited => l.left >= 1
        /\ ~Timed => l.pc \notin {"start", "remaining", "wake"}
    BY DEF GoodLocal, LeftOK, PcOK, TimedPc
  <1> USE <1>a, <1>b DEF GoodLocal, LocalType, Outcomes, LeftOK, PcOK, TimedPc
  <1>1. CASE e.status = "cancelled"
    BY <1>1 DEF StepOf, Ended
  <1>2. CASE e.status # "cancelled" /\ l.pc = "start"
    <2>1. StepOf(l, e, p) = OnStart(l, e.time)
      BY <1>2 DEF StepOf
    <2>2. Timed /\ e.time + poller.timeout \in Nat
      BY <1>0, <1>2
    <2>3. GoodLocal(Ended(l, "BadDeadline"))
      BY DEF Ended
    <2>4. GoodLocal([l EXCEPT !.pc = "check", !.at = e.time + poller.timeout, !.latest = e.time])
      BY <1>0, <2>2
    <2> QED BY <2>1, <2>3, <2>4 DEF OnStart
  <1>3. CASE e.status # "cancelled" /\ l.pc = "check"
    <2>1. StepOf(l, e, p) = OnCheck(l, e.verdict, p)
      BY <1>3 DEF StepOf
    <2>2. CASE e.verdict \in {"break", "error"}
      BY <2>1, <2>2, ZenonT(60) DEF OnCheck, Ended
    <2>3. CASE e.verdict \notin {"break", "error"}
      <3>1. OnCheck(l, e.verdict, p) = OnContinue(l, p)
        BY <2>3 DEF OnCheck
      <3>2. GoodLocal(OnContinue(l, p))
        <4> DEFINE n == IF Limited THEN l.left - 1 ELSE l.left
                   after == [l EXCEPT !.last = p, !.left = n]
        <4>0. n \in Nat
          OBVIOUS
        <4> HIDE DEF n
        <4>1. after \in LocalType /\ after.outcome = "none" /\ after.pc = "check"
          BY <1>3, <4>0
        <4>s. OnContinue(l, p) =
                IF Limited /\ after.left = 0 THEN Ended(after, "AttemptsExhausted")
                ELSE IF poller.timeout = 0 THEN Ended(after, "TimedOut")
                ELSE IF Timed THEN [after EXCEPT !.pc = "remaining"]
                ELSE [after EXCEPT !.pc = "sleep", !.delay = poller.interval]
          BY DEF OnContinue, n
        <4> HIDE DEF after
        <4>n. after.left \in Nat
          BY <4>1
        <4>2. ~(Limited /\ after.left = 0) => (Limited => after.left >= 1)
          BY ONLY <4>n DEF Limited
        <4>3. GoodLocal(Ended(after, "AttemptsExhausted")) /\ GoodLocal(Ended(after, "TimedOut"))
          BY <4>1 DEF Ended
        <4>4. ASSUME ~(Limited /\ after.left = 0), Timed
              PROVE  GoodLocal([after EXCEPT !.pc = "remaining"])
          BY <4>1, <4>2, <4>4
        <4>5. ASSUME ~(Limited /\ after.left = 0)
              PROVE  GoodLocal([after EXCEPT !.pc = "sleep", !.delay = poller.interval])
          BY <4>1, <4>2, <4>5
        <4> QED BY <4>s, <4>3, <4>4, <4>5
      <3> QED BY <2>1, <3>1, <3>2
    <2> QED BY <2>2, <2>3
  <1>4. CASE e.status # "cancelled" /\ l.pc = "remaining"
    <2> DEFINE after == Observed(l, e.time)
               wait == Earlier(poller.interval, Remaining(after))
    <2>1. StepOf(l, e, p) = OnRemaining(l, e.time)
      BY <1>4 DEF StepOf
    <2>2. /\ after \in LocalType /\ after.outcome = "none" /\ after.pc = "remaining"
          /\ after.left = l.left
      BY <1>0, <1>4 DEF Observed, Later
    <2>3. wait \in Nat
      BY <2>2 DEF Earlier, Remaining
    <2> HIDE DEF after, wait
    <2>4. GoodLocal(Ended(after, "TimedOut"))
      BY <2>2 DEF Ended
    <2>5. GoodLocal([after EXCEPT !.pc = "sleep", !.delay = wait])
      BY <2>2, <2>3
    <2> QED BY <2>1, <2>4, <2>5 DEF OnRemaining, after, wait
  <1>5. CASE e.status # "cancelled" /\ l.pc = "sleep"
    BY <1>5 DEF StepOf, OnSlept
  <1>6. CASE e.status # "cancelled" /\ l.pc = "wake"
    BY <1>0, <1>6 DEF StepOf, OnWake, Observed, Remaining, Later, Ended
  <1> QED BY <1>1, <1>2, <1>3, <1>4, <1>5, <1>6
-----------------------------------------------------------------------------
(* The replay invariant.                                                   *)

Scalars ==
  /\ clock \in Nat /\ pos \in Nat /\ checkedAt \in Nat
  /\ crashes \in Nat /\ backward \in Nat /\ result \in Outcomes

(* What the entry at p, once awaited, tells: its kind is the one the loop  *)
(* asked for there and the loop's next state follows from it.              *)
Explained(p) ==
  /\ journal[p].status # "issued"
  /\ journal[p].kind = KindOf(trail[p].pc)
  /\ trail[p].pc # "ended"
  /\ trail[p + 1] = StepOf(trail[p], journal[p], p)

Shape ==
  /\ journal \in Seq(EntryType)
  /\ trail \in Seq(LocalType)
  /\ Len(trail) >= 1 /\ trail[1] = Fresh
  /\ Len(journal) = Len(trail) \/ Len(journal) = Len(trail) - 1
  /\ \A p \in 1 .. Len(trail) : GoodLocal(trail[p])
  /\ \A p \in 1 .. (Len(trail) - 1) : Explained(p)
  /\ Len(journal) = Len(trail) =>
       /\ journal[Len(journal)].kind = KindOf(Furthest.pc)
       /\ Furthest.pc # "ended"

Replay == PollerType /\ Scalars /\ Shape /\ ReplayRebuilds

LEMMA ReplayInit == Init => Replay
  <1> SUFFICES ASSUME Init PROVE Replay
    OBVIOUS
  <1>1. PollerType
    BY DEF Init, PollerType
  <1>2. GoodLocal(Fresh)
    BY <1>1, FreshGood
  <1>3. Scalars
    BY PollerAssumption DEF Init, Scalars, Outcomes
  <1>4. Fresh \in LocalType
    BY <1>2 DEF GoodLocal
  <1>5. /\ journal \in Seq(EntryType) /\ Len(journal) = 0
        /\ trail \in Seq(LocalType) /\ Len(trail) = 1 /\ trail[1] = Fresh
    BY <1>4 DEF Init
  <1>6. Shape
    BY <1>2, <1>5 DEF Shape
  <1>7. ReplayRebuilds
    BY <1>5 DEF Init, ReplayRebuilds
  <1> QED BY <1>1, <1>3, <1>6, <1>7 DEF Replay

(* Facts about where the live attempt stands. *)
LEMMA Standing ==
  ASSUME Replay
  PROVE  /\ Len(journal) \in Nat /\ Len(trail) \in Nat \ {0}
         /\ local \in LocalType /\ GoodLocal(local) /\ local = trail[pos + 1]
         /\ AtFrontier => Len(journal) = Len(trail) - 1 /\ local = Furthest
         /\ LastIssued => Len(journal) = Len(trail)
         /\ pos < Len(journal) /\ pos + 1 < Len(trail) => Explained(pos + 1)
         /\ pos < Len(journal) => pos + 1 < Len(trail) \/ pos + 1 = Len(trail)
  <1>1. /\ Len(journal) \in Nat /\ Len(trail) \in Nat \ {0} /\ pos \in Nat
        /\ pos < Len(trail) /\ local = trail[pos + 1]
    BY DEF Replay, Shape, ReplayRebuilds, Scalars
  <1>2. GoodLocal(local)
    BY <1>1 DEF Replay, Shape
  <1>3. AtFrontier => Len(journal) = Len(trail) - 1 /\ local = Furthest
    BY <1>1 DEF Replay, Shape, AtFrontier, Furthest
  <1>4. LastIssued => Len(journal) = Len(trail)
    BY <1>1 DEF Replay, Shape, LastIssued, Explained
  <1>5. pos < Len(journal) /\ pos + 1 < Len(trail) => Explained(pos + 1)
    BY <1>1 DEF Replay, Shape
  <1> QED BY <1>1, <1>2, <1>3, <1>4, <1>5 DEF GoodLocal
(* The journal grows by an entry of the kind the loop asks for. *)
LEMMA IssueReplay ==
  ASSUME Replay, NEW kind \in {"clock", "check", "sleep"},
         NEW time \in Nat, NEW delay \in Nat, Issue(kind, time, delay)
  PROVE  Replay'
  <1>1. PollerType' /\ Scalars' /\ Fresh' = Fresh
    BY DEF Issue, Replay, PollerType, Builds, MaxDuration, Scalars, Fresh, Timed, Limited
  <1>2. /\ Len(journal) = Len(trail) - 1 /\ local = Furthest
        /\ Len(journal) \in Nat /\ Len(trail) \in Nat \ {0}
    BY Standing DEF Issue
  <1>3. Entry(kind, time, delay) \in EntryType
    BY DEF Entry, EntryType
  <1>4. /\ journal' \in Seq(EntryType) /\ Len(journal') = Len(trail)
        /\ \A p \in 1 .. (Len(trail) - 1) : journal'[p] = journal[p]
        /\ journal'[Len(trail)].kind = kind
    BY <1>2, <1>3 DEF Issue, Replay, Shape, Entry
  <1>5. trail' = trail /\ local' = local /\ pos' = pos /\ poller' = poller
    BY DEF Issue
  <1>6. Shape'
    <2>1. \A p \in 1 .. Len(trail) : GoodLocal(trail[p])'
      BY <1>5 DEF Replay, Shape, GoodLocal, LeftOK, PcOK, TimedPc, Limited, Timed
    <2>2. ASSUME NEW p \in 1 .. (Len(trail) - 1)
          PROVE  Explained(p)'
      <3>1. Explained(p) /\ p + 1 \in Nat
        BY DEF Replay, Shape
      <3>2. journal'[p] = journal[p] /\ trail' = trail /\ poller' = poller
        BY <1>4, <1>5
      <3>3. (StepOf(trail[p], journal[p], p))' = StepOf(trail[p], journal[p], p)
        BY ONLY <3>2 DEF StepOf, OnStart, OnCheck, OnContinue, OnRemaining, OnSlept,
             OnWake, Ended, Observed, Remaining, Earlier, Later, Timed, Limited
      <3>4. KindOf(trail[p].pc)' = KindOf(trail[p].pc)
        BY <3>2 DEF KindOf
      <3> QED BY ONLY <3>1, <3>2, <3>3, <3>4 DEF Explained
    <2>3. kind = KindOf(Furthest.pc) /\ Furthest.pc # "ended"
      BY <1>2 DEF Issue, Running
    <2> QED BY <1>1, <1>4, <1>5, <2>1, <2>2, <2>3 DEF Replay, Shape, Furthest
  <1>7. ReplayRebuilds'
    BY <1>5 DEF Replay, ReplayRebuilds
  <1> QED BY <1>1, <1>6, <1>7 DEF Replay

(* The outstanding entry gets its result. *)
LEMMA CompleteReplay ==
  ASSUME Replay, NEW entry \in EntryType, LastIssued, Complete(entry),
         entry.kind = journal[Len(journal)].kind,
         Scalars', UNCHANGED <<poller, local, pos, trail>>
  PROVE  Replay'
  <1>1. PollerType' /\ Fresh' = Fresh
    BY DEF Replay, PollerType, Builds, MaxDuration, Fresh, Timed, Limited
  <1>2. /\ Len(journal) = Len(trail)
        /\ Len(journal) \in Nat /\ Len(trail) \in Nat \ {0}
    BY Standing
  <1>3. /\ journal' \in Seq(EntryType) /\ Len(journal') = Len(trail)
        /\ \A p \in 1 .. (Len(trail) - 1) : journal'[p] = journal[p]
        /\ journal'[Len(trail)].kind = journal[Len(trail)].kind
    BY <1>2 DEF Complete, Replay, Shape
  <1>4. Shape'
    <2>1. \A p \in 1 .. Len(trail) : GoodLocal(trail[p])'
      BY DEF Replay, Shape, GoodLocal, LeftOK, PcOK, TimedPc, Limited, Timed
    <2>2. ASSUME NEW p \in 1 .. (Len(trail) - 1)
          PROVE  Explained(p)'
      <3>1. Explained(p) /\ p + 1 \in Nat
        BY DEF Replay, Shape
      <3>2. journal'[p] = journal[p] /\ trail' = trail /\ poller' = poller
        BY <1>3
      <3>3. (StepOf(trail[p], journal[p], p))' = StepOf(trail[p], journal[p], p)
        BY ONLY <3>2 DEF StepOf, OnStart, OnCheck, OnContinue, OnRemaining, OnSlept,
             OnWake, Ended, Observed, Remaining, Earlier, Later, Timed, Limited
      <3>4. KindOf(trail[p].pc)' = KindOf(trail[p].pc)
        BY <3>2 DEF KindOf
      <3> QED BY ONLY <3>1, <3>2, <3>3, <3>4 DEF Explained
    <2> QED BY <1>1, <1>2, <1>3, <2>1, <2>2 DEF Replay, Shape, Furthest
  <1>5. ReplayRebuilds'
    BY DEF Replay, ReplayRebuilds
  <1> QED BY <1>1, <1>4, <1>5 DEF Replay
(* An awaited entry moves the attempt one place along the trail, or makes  *)
(* the trail one place longer.                                             *)
LEMMA AwaitReplay ==
  ASSUME Replay, NEW pc, NEW next, Await(pc, next),
         journal[pos + 1].status # "cancelled" => next = StepOf(local, journal[pos + 1], pos + 1)
  PROVE  Replay'
  <1>1. PollerType' /\ Scalars' /\ Fresh' = Fresh
    BY DEF Await, Replay, PollerType, Builds, MaxDuration, Scalars, Fresh, Timed, Limited
  <1>2. /\ poller' = poller /\ journal' = journal /\ pos' = pos + 1
        /\ pos \in Nat /\ pos < Len(journal) /\ Len(journal) \in Nat
        /\ Len(trail) \in Nat \ {0} /\ local.pc # "ended"
        /\ GoodLocal(local) /\ local = trail[pos + 1]
        /\ Len(journal) = Len(trail) \/ Len(journal) = Len(trail) - 1
    BY Standing DEF Await, Running, Replay, Scalars, Shape
  <1>3. local' = StepOf(local, journal[pos + 1], pos + 1)
    BY DEF Await, StepOf
  <1>4. journal[pos + 1] \in EntryType
    BY <1>2 DEF Replay, Shape
  <1>5. GoodLocal(local')
    <2>1. GoodLocal(StepOf(local, journal[pos + 1], pos + 1))
      BY <1>2, <1>4, StepGood DEF Replay
    <2> QED BY <1>3, <2>1
  <1>6. CASE pos + 1 = Len(trail)
    <2>1. /\ trail' = Append(trail, local') /\ Len(journal) = Len(trail)
          /\ trail \in Seq(LocalType) /\ local' \in LocalType
      BY <1>2, <1>5, <1>6 DEF Await, Replay, Shape, GoodLocal
    <2>2. /\ trail' \in Seq(LocalType) /\ Len(trail') = Len(trail) + 1
          /\ \A p \in 1 .. Len(trail) : trail'[p] = trail[p]
          /\ trail'[Len(trail) + 1] = local'
      BY <2>1
    <2>3. ASSUME NEW p \in 1 .. (Len(trail) + 1)
          PROVE  GoodLocal(trail[p])'
      <3>1. GoodLocal(trail'[p])
        BY <1>2, <1>5, <2>2 DEF Replay, Shape
      <3> QED BY ONLY <1>2, <3>1 DEF GoodLocal, LeftOK, PcOK, TimedPc, Limited, Timed
    <2>4. ASSUME NEW p \in 1 .. Len(trail)
          PROVE  Explained(p)'
      <3>1. /\ journal[p].status # "issued" /\ journal[p].kind = KindOf(trail[p].pc)
            /\ trail[p].pc # "ended" /\ trail'[p + 1] = StepOf(trail[p], journal[p], p)
        <4>1. CASE p = Len(trail)
          BY <1>2, <1>3, <1>6, <2>1, <2>2, <4>1 DEF Await, Replay, Shape, Furthest
        <4>2. CASE p # Len(trail)
          BY <1>2, <2>2, <4>2 DEF Replay, Shape, Explained
        <4> QED BY <4>1, <4>2
      <3>2. trail'[p] = trail[p] /\ journal' = journal /\ poller' = poller
        BY <1>2, <2>2
      <3>3. (StepOf(trail[p], journal[p], p))' = StepOf(trail[p], journal[p], p)
        BY ONLY <3>2 DEF StepOf, OnStart, OnCheck, OnContinue, OnRemaining, OnSlept,
             OnWake, Ended, Observed, Remaining, Earlier, Later, Timed, Limited
      <3>4. KindOf(trail[p].pc)' = KindOf(trail[p].pc)
        BY <3>2 DEF KindOf
      <3> QED BY ONLY <3>1, <3>2, <3>3, <3>4 DEF Explained
    <2>5. Shape'
      <3>1. trail'[1] = Fresh /\ journal' \in Seq(EntryType)
        BY <1>2, <2>2 DEF Replay, Shape
      <3> QED BY <1>1, <1>2, <2>1, <2>2, <2>3, <2>4, <3>1, SMTT(40) DEF Shape
    <2>6. ReplayRebuilds'
      BY <1>2, <1>6, <2>2 DEF ReplayRebuilds
    <2> QED BY <1>1, <2>5, <2>6 DEF Replay
  <1>7. CASE pos + 1 # Len(trail)
    <2>1. trail' = trail /\ pos + 1 < Len(trail)
      BY <1>2, <1>7 DEF Await
    <2>2. local' = trail[pos + 2]
      BY <1>2, <1>3, <2>1 DEF Replay, Shape, Explained
    <2>3. ASSUME NEW p \in 1 .. Len(trail)
          PROVE  GoodLocal(trail[p])'
      BY <1>2, <2>1 DEF Replay, Shape, GoodLocal, LeftOK, PcOK, TimedPc, Limited, Timed
    <2>4. ASSUME NEW p \in 1 .. (Len(trail) - 1)
          PROVE  Explained(p)'
      <3>1. Explained(p) /\ p + 1 \in Nat
        BY DEF Replay, Shape
      <3>2. journal' = journal /\ trail' = trail /\ poller' = poller
        BY <1>2, <2>1
      <3>3. (StepOf(trail[p], journal[p], p))' = StepOf(trail[p], journal[p], p)
        BY ONLY <3>2 DEF StepOf, OnStart, OnCheck, OnContinue, OnRemaining, OnSlept,
             OnWake, Ended, Observed, Remaining, Earlier, Later, Timed, Limited
      <3>4. KindOf(trail[p].pc)' = KindOf(trail[p].pc)
        BY <3>2 DEF KindOf
      <3> QED BY ONLY <3>1, <3>2, <3>3, <3>4 DEF Explained
    <2>5. Shape'
      BY <1>1, <1>2, <2>1, <2>3, <2>4 DEF Replay, Shape, Furthest, KindOf
    <2>6. ReplayRebuilds'
      BY <1>2, <2>1, <2>2 DEF ReplayRebuilds
    <2> QED BY <1>1, <2>5, <2>6 DEF Replay
  <1> QED BY <1>6, <1>7

(* Steps that touch neither the journal nor the trail, and leave the       *)
(* attempt where it is or send it back to the top.                         *)
LEMMA QuietReplay ==
  ASSUME Replay, UNCHANGED <<poller, journal, trail>>, Scalars',
         UNCHANGED <<local, pos>> \/ (local' = Fresh /\ pos' = 0)
  PROVE  Replay'
  <1>1. PollerType' /\ Fresh' = Fresh
    BY DEF Replay, PollerType, Builds, MaxDuration, Fresh, Timed, Limited
  <1>2. ASSUME NEW p \in 1 .. Len(trail)
        PROVE  GoodLocal(trail[p])'
    BY DEF Replay, Shape, GoodLocal, LeftOK, PcOK, TimedPc, Limited, Timed
  <1>3. ASSUME NEW p \in 1 .. (Len(trail) - 1)
        PROVE  Explained(p)'
    <2>1. Explained(p)
      BY DEF Replay, Shape
    <2>2. journal' = journal /\ trail' = trail /\ poller' = poller
      OBVIOUS
    <2>3. (StepOf(trail[p], journal[p], p))' = StepOf(trail[p], journal[p], p)
      BY ONLY <2>2 DEF StepOf, OnStart, OnCheck, OnContinue, OnRemaining, OnSlept,
           OnWake, Ended, Observed, Remaining, Earlier, Later, Timed, Limited
    <2>4. KindOf(trail[p].pc)' = KindOf(trail[p].pc)
      BY <2>2 DEF KindOf
    <2> QED BY ONLY <2>1, <2>2, <2>3, <2>4 DEF Explained
  <1>4. Shape'
    BY <1>1, <1>2, <1>3 DEF Replay, Shape, Furthest, KindOf
  <1>5. ReplayRebuilds'
    BY DEF Replay, Shape, ReplayRebuilds
  <1> QED BY <1>1, <1>4, <1>5 DEF Replay
LEMMA ReplayNext == Replay /\ [Next]_vars => Replay'
  <1> SUFFICES ASSUME Replay, [Next]_vars PROVE Replay'
    OBVIOUS
  <1>0. clock \in Nat /\ local \in LocalType /\ MaxTime \in Nat
    BY Standing, PollerAssumption DEF Replay, Scalars
  <1>1. ASSUME IssueClock PROVE Replay'
    BY <1>1, IssueReplay DEF IssueClock
  <1>2. ASSUME IssueCheck PROVE Replay'
    BY <1>2, IssueReplay DEF IssueCheck
  <1>3. ASSUME IssueSleep PROVE Replay'
    <2>1. local.delay \in Nat /\ clock + local.delay \in Nat
      BY <1>0 DEF LocalType
    <2> QED BY <1>3, <2>1, IssueReplay DEF IssueSleep
  <1>last. LastIssued => journal[Len(journal)] \in EntryType
    BY Standing DEF LastIssued, Replay, Shape
  <1>4. ASSUME CompleteClock PROVE Replay'
    <2> DEFINE e == [journal[Len(journal)] EXCEPT !.status = "completed", !.time = clock]
    <2>1. LastIssued /\ Complete(e) /\ Scalars' /\ UNCHANGED <<poller, local, pos, trail>>
      BY <1>4 DEF CompleteClock, Executing, Replay, Scalars
    <2>2. e \in EntryType /\ e.kind = journal[Len(journal)].kind
      BY <1>0, <1>last, <2>1 DEF EntryType
    <2> QED BY <2>1, <2>2, CompleteReplay
  <1>5. ASSUME CompleteCheck PROVE Replay'
    <2>1. PICK verdict \in {"continue", "break", "error"} :
            Complete([journal[Len(journal)] EXCEPT !.status = "completed", !.verdict = verdict])
      BY <1>5 DEF CompleteCheck
    <2> DEFINE e == [journal[Len(journal)] EXCEPT !.status = "completed", !.verdict = verdict]
    <2>2. LastIssued /\ Complete(e) /\ Scalars' /\ UNCHANGED <<poller, local, pos, trail>>
      BY <1>5, <2>1 DEF CompleteCheck, Executing, Replay, Scalars
    <2>3. e \in EntryType /\ e.kind = journal[Len(journal)].kind
      BY <1>last, <2>2 DEF EntryType
    <2> QED BY <2>2, <2>3, CompleteReplay
  <1>6. ASSUME FireTimer PROVE Replay'
    <2> DEFINE e == [journal[Len(journal)] EXCEPT !.status = "completed"]
    <2>1. LastIssued /\ Complete(e) /\ Scalars' /\ UNCHANGED <<poller, local, pos, trail>>
      BY <1>6 DEF FireTimer, Replay, Scalars
    <2>2. e \in EntryType /\ e.kind = journal[Len(journal)].kind
      BY <1>last, <2>1 DEF EntryType
    <2> QED BY <2>1, <2>2, CompleteReplay
  <1>7. ASSUME Cancel PROVE Replay'
    <2> DEFINE e == [journal[Len(journal)] EXCEPT !.status = "cancelled"]
    <2>1. LastIssued /\ Complete(e) /\ Scalars' /\ UNCHANGED <<poller, local, pos, trail>>
      BY <1>7 DEF Cancel, Replay, Scalars
    <2>2. e \in EntryType /\ e.kind = journal[Len(journal)].kind
      BY <1>last, <2>1 DEF EntryType
    <2> QED BY <2>1, <2>2, CompleteReplay
  <1>8. ASSUME AwaitStart PROVE Replay'
    <2>1. local.pc = "start"
      BY <1>8 DEF AwaitStart, Await
    <2> QED BY <1>8, <2>1, AwaitReplay DEF AwaitStart, StepOf
  <1>9. ASSUME AwaitCheck PROVE Replay'
    <2>1. local.pc = "check"
      BY <1>9 DEF AwaitCheck, Await
    <2> QED BY <1>9, <2>1, AwaitReplay DEF AwaitCheck, StepOf
  <1>10. ASSUME AwaitRemaining PROVE Replay'
    <2>1. local.pc = "remaining"
      BY <1>10 DEF AwaitRemaining, Await
    <2> QED BY <1>10, <2>1, AwaitReplay DEF AwaitRemaining, StepOf
  <1>11. ASSUME AwaitSleep PROVE Replay'
    <2>1. local.pc = "sleep"
      BY <1>11 DEF AwaitSleep, Await
    <2> QED BY <1>11, <2>1, AwaitReplay DEF AwaitSleep, StepOf
  <1>12. ASSUME AwaitWake PROVE Replay'
    <2>1. local.pc = "wake"
      BY <1>12 DEF AwaitWake, Await
    <2> QED BY <1>12, <2>1, AwaitReplay DEF AwaitWake, StepOf
  <1>13. ASSUME Return PROVE Replay'
    <2>1. Scalars'
      BY <1>0, <1>13 DEF Return, Replay, Scalars, LocalType
    <2> QED BY <1>13, <2>1, QuietReplay DEF Return
  <1>14. ASSUME Crash PROVE Replay'
    <2>1. Scalars'
      BY <1>14 DEF Crash, Replay, Scalars
    <2> QED BY <1>14, <2>1, QuietReplay DEF Crash
  <1>15. ASSUME Tick PROVE Replay'
    <2>1. Scalars'
      BY <1>15 DEF Tick, Replay, Scalars
    <2> QED BY <1>15, <2>1, QuietReplay DEF Tick
  <1>16. ASSUME StepBack PROVE Replay'
    <2>1. Scalars'
      BY <1>16 DEF StepBack, Replay, Scalars
    <2> QED BY <1>16, <2>1, QuietReplay DEF StepBack
  <1>17. ASSUME UNCHANGED vars PROVE Replay'
    <2>1. Scalars'
      BY <1>17 DEF vars, Replay, Scalars
    <2> QED BY <1>17, <2>1, QuietReplay DEF vars
  <1> QED
    BY <1>1, <1>2, <1>3, <1>4, <1>5, <1>6, <1>7, <1>8, <1>9, <1>10, <1>11, <1>12,
       <1>13, <1>14, <1>15, <1>16, <1>17 DEF Next

LEMMA AlwaysReplay == Spec => []Replay
  BY ReplayInit, ReplayNext, PTL DEF Spec

(* Every variable keeps its type, whatever is configured and however often *)
(* the invocation crashes: in particular the subtraction of attempts and   *)
(* of times (poll.rs:291 and 361) stays in the naturals.                   *)
THEOREM PollerTyped == Spec => []TypeOK
  <1>1. Replay => TypeOK
    BY Standing DEF Replay, PollerType, Scalars, Shape, TypeOK
  <1> QED BY <1>1, AlwaysReplay, PTL

(* poll.rs:197, "replay preserves earlier decisions": an attempt that has  *)
(* been given n entries is in the state the first such attempt was in.     *)
THEOREM ReplayIsFaithful == Spec => []ReplayRebuilds
  <1>1. Replay => ReplayRebuilds
    BY DEF Replay
  <1> QED BY <1>1, AlwaysReplay, PTL

(* clock.rs:19: the loop never asks for a kind of entry other than the one *)
(* the journal holds at that place, so Restate never fails the invocation  *)
(* over a poll that diverges.                                              *)
THEOREM ReplayNeverDiverges == Spec => []ReplayMatches
  <1>1. Replay => ReplayMatches
    <2> SUFFICES ASSUME Replay, Running, pos < Len(journal)
                 PROVE  journal[pos + 1].kind = KindOf(local.pc)
      BY DEF ReplayMatches
    <2>1. CASE pos + 1 < Len(trail)
      BY <2>1, Standing DEF Explained
    <2>2. CASE pos + 1 = Len(trail)
      <3>1. Len(journal) = Len(trail) /\ local = Furthest
        BY <2>2, Standing DEF Replay, Scalars, Shape, Furthest
      <3> QED BY <2>2, <3>1 DEF Replay, Shape
    <2> QED BY <2>1, <2>2, Standing
  <1> QED BY <1>1, AlwaysReplay, PTL
-----------------------------------------------------------------------------
(* The limits. What the awaited part of the journal holds is what the      *)
(* locals at the furthest point have counted and observed.                 *)

Past(kind) == {p \in 1 .. (Len(trail) - 1) : journal[p].kind = kind}
PastReadings == {p \in Past("clock") : p > 1 /\ journal[p].status = "completed"}

Counted ==
  Limited =>
    /\ Cardinality(Past("check")) <= poller.maxAttempts
    /\ Furthest.pc # "ended" => Cardinality(Past("check")) + Furthest.left = poller.maxAttempts
    /\ Furthest.outcome = "AttemptsExhausted" => Cardinality(Past("check")) = poller.maxAttempts

Bounded ==
  Timed =>
    /\ Furthest.pc = "start" => Len(trail) = 1
    /\ Len(trail) > 1 /\ Furthest.pc # "ended" => Furthest.at = DeadlineAt
    /\ \A q \in PastReadings :
         /\ journal[q].time <= Furthest.latest
         /\ journal[q].time < DeadlineAt \/ (Furthest.pc = "ended" /\ q = Len(trail) - 1)

(* What the loop is about to sleep, and what an outstanding timer sleeps. *)
Short ==
  /\ Furthest.pc = "sleep" =>
       /\ 1 <= Furthest.delay /\ Furthest.delay <= poller.interval
       /\ Timed => Furthest.latest + Furthest.delay <= Furthest.at
  /\ Len(journal) = Len(trail) /\ Furthest.pc = "sleep" =>
       journal[Len(trail)].delay = Furthest.delay

Slept ==
  \A p \in Past("sleep") :
    /\ 1 <= journal[p].delay /\ journal[p].delay <= poller.interval
    /\ Timed => \A q \in PastReadings : q < p => journal[q].time + journal[p].delay <= DeadlineAt

Ledger == Counted /\ Bounded /\ Short /\ Slept

(* What one entry does to the locals, as far as the limits are concerned. *)
LEMMA StepAccounts ==
  ASSUME PollerType, NEW l, GoodLocal(l), l.pc # "ended",
         NEW e \in EntryType, NEW p \in Nat, NEW m, m = StepOf(l, e, p)
  PROVE  /\ m.pc # "start"
         /\ l.pc # "check" => m.left = l.left /\ m.outcome # "AttemptsExhausted"
         /\ l.pc = "check" /\ Limited =>
              /\ m.pc # "ended" => m.left = l.left - 1
              /\ m.outcome = "AttemptsExhausted" => l.left = 1
         /\ l.pc = "start" /\ m.pc # "ended" => m.at = e.time + poller.timeout
         /\ l.pc # "start" => m.at = l.at /\ m.latest >= l.latest
         /\ l.pc \in {"remaining", "wake"} /\ e.status # "cancelled" =>
              /\ m.latest >= e.time
              /\ m.pc # "ended" => e.time < l.at
         /\ m.pc = "sleep" =>
              /\ 1 <= m.delay /\ m.delay <= poller.interval
              /\ Timed => m.latest + m.delay <= m.at
<1>0. e.time \in Nat /\ e.verdict \in {"none", "continue", "break", "error"}
  BY DEF EntryType
<1>1. /\ poller.interval \in Nat \ {0}
      /\ Timed => poller.timeout \in Nat
      /\ Limited => poller.maxAttempts \in Nat \ {0}
  BY PollerFields
<1>2. /\ l \in LocalType /\ l.outcome = "none"
      /\ Limited => l.left >= 1
      /\ ~Timed => l.pc \notin {"start", "remaining", "wake"}
  BY DEF GoodLocal, LeftOK, PcOK, TimedPc
<1> USE <1>1, <1>2 DEF LocalType
<1>3. CASE e.status = "cancelled"
  BY <1>3 DEF StepOf, Ended
<1>4. CASE e.status # "cancelled" /\ l.pc = "start"
  BY <1>0, <1>4 DEF StepOf, OnStart, Ended
<1>5. CASE e.status # "cancelled" /\ l.pc = "check"
  BY <1>0, <1>5 DEF StepOf, OnCheck, OnContinue, Ended
<1>6. CASE e.status # "cancelled" /\ l.pc = "remaining"
  BY <1>0, <1>6 DEF StepOf, OnRemaining, Observed, Remaining, Later, Earlier, Ended
<1>7. CASE e.status # "cancelled" /\ l.pc = "sleep"
  BY <1>7 DEF StepOf, OnSlept
<1>8. CASE e.status # "cancelled" /\ l.pc = "wake"
  BY <1>0, <1>8 DEF StepOf, OnWake, Observed, Remaining, Later, Ended
<1> QED BY <1>3, <1>4, <1>5, <1>6, <1>7, <1>8

(* Where the awaited part of the journal stays, the ledger does. *)
LEMMA LedgerPrefix ==
  ASSUME Replay, Ledger, UNCHANGED <<poller, trail>>,
         \A p \in 1 .. (Len(trail) - 1) : journal'[p] = journal[p],
         Len(journal') = Len(trail) /\ Furthest.pc = "sleep" =>
           journal'[Len(trail)].delay = Furthest.delay
  PROVE  Ledger'
<1>1. /\ Furthest' = Furthest /\ Timed' = Timed /\ Limited' = Limited
      /\ Len(trail) \in Nat \ {0}
  BY Standing DEF Furthest, Timed, Limited
<1>2. \A kind : Past(kind)' = Past(kind)
  BY DEF Past
<1>3. PastReadings' = PastReadings
  BY <1>2 DEF PastReadings, Past
<1>4. \A p : p \in PastReadings => p \in 1 .. (Len(trail) - 1) /\ Len(trail) > 1 /\ journal'[p] = journal[p]
  BY <1>1 DEF PastReadings, Past
<1>5. Len(trail) > 1 => DeadlineAt' = DeadlineAt
  BY <1>1 DEF DeadlineAt
<1>6. Counted'
  BY <1>1, <1>2 DEF Ledger, Counted
<1>7. Bounded'
  BY <1>1, <1>3, <1>4, <1>5 DEF Ledger, Bounded
<1>8. Short'
  BY <1>1 DEF Ledger, Short
<1>9. Slept'
  <2>1. \A p \in Past("sleep") : journal'[p] = journal[p]
    BY DEF Past
  <2> QED BY <1>1, <1>2, <1>3, <1>4, <1>5, <2>1 DEF Ledger, Slept
<1> QED BY <1>6, <1>7, <1>8, <1>9 DEF Ledger

(* Where it grows by an entry, the ledger takes it in. *)
LEMMA LedgerGrows ==
  ASSUME Replay, Ledger, UNCHANGED <<poller, journal>>,
         Len(journal) = Len(trail), journal[Len(trail)].status # "issued",
         trail' = Append(trail, StepOf(Furthest, journal[Len(trail)], Len(trail)))
  PROVE  Ledger'
<1> DEFINE n == Len(trail)
           l == Furthest
           e == journal[n]
           m == StepOf(l, e, n)
<1>1. /\ n \in Nat /\ n >= 1 /\ l = trail[n] /\ trail \in Seq(LocalType)
      /\ PollerType /\ GoodLocal(l) /\ l.pc # "ended" /\ e \in EntryType
      /\ e.kind = KindOf(l.pc)
      /\ trail[1] = Fresh
  BY Standing DEF Replay, Shape, Furthest
<1>2. m \in LocalType /\ GoodLocal(m)
  BY <1>1, StepGood DEF GoodLocal
<1>3. Furthest' = m /\ Len(trail') = n + 1
  <2> HIDE DEF m, l, e
  <2> QED BY <1>1, <1>2 DEF Furthest, l, e, m
<1>4. /\ m.pc # "start"
      /\ l.pc # "check" => m.left = l.left /\ m.outcome # "AttemptsExhausted"
      /\ l.pc = "check" /\ Limited =>
           /\ m.pc # "ended" => m.left = l.left - 1
           /\ m.outcome = "AttemptsExhausted" => l.left = 1
      /\ l.pc = "start" /\ m.pc # "ended" => m.at = e.time + poller.timeout
      /\ l.pc # "start" => m.at = l.at /\ m.latest >= l.latest
      /\ l.pc \in {"remaining", "wake"} /\ e.status # "cancelled" =>
           /\ m.latest >= e.time
           /\ m.pc # "ended" => e.time < l.at
      /\ m.pc = "sleep" =>
           /\ 1 <= m.delay /\ m.delay <= poller.interval
           /\ Timed => m.latest + m.delay <= m.at
  BY <1>1, StepAccounts
<1>5. /\ l \in LocalType /\ m \in LocalType /\ (Limited => l.left >= 1)
      /\ (~Timed => l.pc \notin {"start", "remaining", "wake"})
      /\ e.time \in Nat /\ e.delay \in Nat
  BY <1>1, <1>2 DEF GoodLocal, LeftOK, TimedPc, EntryType
<1>6. Timed' = Timed /\ Limited' = Limited /\ DeadlineAt' = DeadlineAt
  BY DEF Timed, Limited, DeadlineAt
<1>7. Timed /\ l.pc # "start" => n > 1
  BY <1>1 DEF Fresh
<1> DEFINE new(kind) == IF e.kind = kind THEN {n} ELSE {}
           newReading == IF e.kind = "clock" /\ n > 1 /\ e.status = "completed" THEN {n} ELSE {}
<1> HIDE DEF l, m
<1>8. \A kind : Past(kind)' = Past(kind) \cup new(kind)
  BY <1>1, <1>3 DEF Past
<1>9. PastReadings' = PastReadings \cup newReading
  BY <1>8 DEF PastReadings, Past
<1>10. \A p \in PastReadings : p \in 1 .. (n - 1) /\ journal[p].time \in Nat
  <2>1. /\ PastReadings \subseteq 1 .. (n - 1)
        /\ journal \in Seq(EntryType) /\ Len(journal) = n
    BY DEF PastReadings, Past, Replay, Shape
  <2>2. \A p \in PastReadings : p \in 1 .. Len(journal)
    BY <1>1, <2>1
  <2>3. \A p \in PastReadings : journal[p] \in EntryType
    BY <2>1, <2>2
  <2> QED BY <2>1, <2>3 DEF EntryType
<1> HIDE DEF n, e
<1>11. Counted'
  <2>1. IsFiniteSet(Past("check")) /\ n \notin Past("check") /\ Cardinality(Past("check")) \in Nat
    <3>1. n - 1 \in Int
      BY <1>1
    <3>2. IsFiniteSet(1 .. (n - 1))
      <4>1. 1 \in Int
        OBVIOUS
      <4> QED BY <3>1, <4>1, FS_Interval, Zenon
    <3>3. Past("check") \subseteq 1 .. (n - 1)
      BY DEF Past, n
    <3> QED BY <1>1, <3>2, <3>3, FS_Subset, FS_CardinalityType
  <2>2. e.kind = "check" <=> l.pc = "check"
    BY <1>1, <1>5 DEF KindOf
  <2>3. CASE l.pc = "check"
    <3>1. Cardinality(Past("check")') = Cardinality(Past("check")) + 1
      <4>1. Past("check")' = Past("check") \cup {n}
        BY <1>8, <2>2, <2>3
      <4> QED BY <2>1, <4>1, FS_AddElement
    <3>2. ASSUME Limited
          PROVE  /\ poller.maxAttempts \in Nat
                 /\ Cardinality(Past("check")) + l.left = poller.maxAttempts
      BY <1>1, <3>2, PollerFields DEF Ledger, Counted, l
    <3> DEFINE c == Cardinality(Past("check"))
    <3>3. ASSUME Limited
          PROVE  /\ c + 1 <= poller.maxAttempts
                 /\ m.pc # "ended" => c + 1 + m.left = poller.maxAttempts
                 /\ m.outcome = "AttemptsExhausted" => c + 1 = poller.maxAttempts
      <4>1. c \in Nat /\ l.left \in Nat /\ l.left >= 1 /\ poller.maxAttempts \in Nat
        BY <1>5, <2>1, <3>2, <3>3 DEF LocalType
      <4>2. c + l.left = poller.maxAttempts
        BY <3>2, <3>3
      <4>3. /\ m.pc # "ended" => m.left = l.left - 1
            /\ m.outcome = "AttemptsExhausted" => l.left = 1
        BY <1>4, <2>3, <3>3
      <4> HIDE DEF c
      <4>4. c + 1 <= poller.maxAttempts
        BY ONLY <4>1, <4>2
      <4>5. ASSUME m.left = l.left - 1 PROVE c + 1 + m.left = poller.maxAttempts
        BY ONLY <4>1, <4>2, <4>5
      <4>6. ASSUME l.left = 1 PROVE c + 1 = poller.maxAttempts
        BY ONLY <4>1, <4>2, <4>6
      <4> QED BY ONLY <4>3, <4>4, <4>5, <4>6
    <3> HIDE DEF c
    <3>4. Cardinality(Past("check"))' = c + 1
      BY <3>1 DEF c
    <3> QED BY <1>3, <1>6, <3>3, <3>4 DEF Counted
  <2>4. CASE l.pc # "check"
    <3>1. Past("check")' = Past("check")
      BY <1>8, <2>2, <2>4
    <3> QED BY <1>1, <1>3, <1>4, <1>6, <2>4, <3>1 DEF Ledger, Counted, l
  <2> QED BY <2>3, <2>4
<1>12. ASSUME Timed, NEW q \in PastReadings
       PROVE  /\ l.pc # "start" /\ l.at = DeadlineAt
              /\ journal[q].time <= l.latest /\ journal[q].time < DeadlineAt
  <2>1. n > 1
    BY <1>1, <1>10
  <2> QED BY <1>1, <1>12, <2>1 DEF Ledger, Bounded, n, l
<1>13. Timed /\ n > 1 => l.pc # "start" /\ l.at = DeadlineAt
  BY <1>1 DEF Ledger, Bounded, n, l
<1>14. Timed /\ n = 1 => l.pc = "start" /\ e.time + poller.timeout = DeadlineAt
  BY <1>1 DEF Fresh, DeadlineAt, e
<1>15. e.kind = "clock" <=> l.pc \in {"start", "remaining", "wake"}
  BY <1>1, <1>5 DEF KindOf, LocalType
<1>16. Bounded'
  <2> SUFFICES ASSUME Timed
               PROVE  /\ m.pc # "start"
                      /\ m.pc # "ended" => m.at = DeadlineAt
                      /\ \A q \in PastReadings' :
                           /\ journal[q].time <= m.latest
                           /\ journal[q].time < DeadlineAt \/ (m.pc = "ended" /\ q = n)
    BY <1>1, <1>3, <1>6 DEF Bounded
  <2>1. m.pc # "ended" => m.at = DeadlineAt
    BY <1>1, <1>4, <1>13, <1>14
  <2>2. ASSUME NEW q \in PastReadings
        PROVE  journal[q].time <= m.latest /\ journal[q].time < DeadlineAt
    BY <1>4, <1>5, <1>10, <1>12, SMTT(40) DEF LocalType
  <2>3. ASSUME newReading # {}
        PROVE  /\ journal[n].time <= m.latest
               /\ journal[n].time < DeadlineAt \/ m.pc = "ended"
    <3>1. l.pc \in {"remaining", "wake"} /\ e.status = "completed" /\ l.at = DeadlineAt
      BY <1>13, <1>15, <2>3
    <3> QED BY <1>4, <1>5, <3>1 DEF e, LocalType
  <2> QED BY <1>4, <1>9, <2>1, <2>2, <2>3
<1>17. Short'
  BY <1>1, <1>3, <1>4, <1>6 DEF Short, n
<1>18. Slept'
  <2>1. ASSUME NEW p \in Past("sleep")
        PROVE  /\ p < n /\ 1 <= journal[p].delay /\ journal[p].delay <= poller.interval
               /\ Timed => \A q \in PastReadings : q < p => journal[q].time + journal[p].delay <= DeadlineAt
    BY <1>1 DEF Ledger, Slept, Past, n
  <2>2. ASSUME e.kind = "sleep"
        PROVE  /\ 1 <= e.delay /\ e.delay <= poller.interval
               /\ Timed => \A q \in PastReadings : journal[q].time + e.delay <= DeadlineAt
    <3>1. l.pc = "sleep"
      BY <1>1, <1>5, <2>2 DEF KindOf, LocalType
    <3>2. /\ e.delay = l.delay /\ 1 <= l.delay /\ l.delay <= poller.interval
          /\ Timed => l.latest + l.delay <= l.at
      BY <3>1 DEF Ledger, Short, e, l, n
    <3>3. ASSUME Timed, NEW q \in PastReadings
          PROVE  journal[q].time + e.delay <= DeadlineAt
      <4>1. /\ journal[q].time \in Nat /\ l.latest \in Nat /\ l.delay \in Nat
        BY <1>5, <1>10, <3>3 DEF LocalType
      <4>2. journal[q].time <= l.latest /\ l.at = DeadlineAt
        BY <1>12, <3>3
      <4>3. l.latest + l.delay <= DeadlineAt /\ DeadlineAt \in Nat /\ e.delay = l.delay
        BY <1>5, <3>2, <3>3, <4>2 DEF LocalType
      <4> QED BY <4>1, <4>2, <4>3
    <3> QED BY <3>2, <3>3
  <2>3. \A q \in PastReadings' : q \in PastReadings \/ q = n
    BY <1>9
  <2>4. \A p \in Past("sleep")' : p \in Past("sleep") \/ (p = n /\ e.kind = "sleep")
    BY <1>8
  <2>5. ASSUME NEW p \in Past("sleep")'
        PROVE  /\ p <= n /\ 1 <= journal[p].delay /\ journal[p].delay <= poller.interval
               /\ Timed => \A q \in PastReadings : q < p => journal[q].time + journal[p].delay <= DeadlineAt
    <3>1. CASE p \in Past("sleep")
      BY <1>1, <2>1, <3>1 DEF Past, n
    <3>2. CASE p = n /\ e.kind = "sleep"
      BY <1>1, <2>2, <3>2 DEF e
    <3> QED BY <2>4, <3>1, <3>2
  <2> QED BY <1>1, <1>6, <2>3, <2>5 DEF Slept, Past
<1> QED BY <1>11, <1>16, <1>17, <1>18 DEF Ledger

LEMMA LedgerInit == Init => Ledger
<1> SUFFICES ASSUME Init PROVE Ledger
  OBVIOUS
<1>1. Len(trail) = 1 /\ Furthest = Fresh /\ Len(journal) = 0
  BY DEF Init, Furthest
<1>2. \A kind : Past(kind) = {}
  BY <1>1 DEF Past
<1>3. PastReadings = {} /\ Cardinality(Past("check")) = 0
  BY <1>2, FS_EmptySet DEF PastReadings
<1>4. Limited => poller.maxAttempts \in Nat
  BY ReplayInit, PollerFields DEF Replay
<1>5. Counted
  BY <1>1, <1>3, <1>4 DEF Counted, Fresh
<1>6. Bounded
  BY <1>1, <1>3 DEF Bounded
<1>7. Short
  BY <1>1 DEF Short, Fresh
<1>8. Slept
  BY <1>2 DEF Slept
<1> QED BY <1>5, <1>6, <1>7, <1>8 DEF Ledger

(* A result changes neither the awaited part nor what a timer sleeps. *)
LEMMA LedgerCompletes ==
  ASSUME Replay, Ledger, NEW entry, LastIssued, Complete(entry),
         entry.delay = journal[Len(journal)].delay,
         UNCHANGED <<poller, trail>>
  PROVE  Ledger'
<1>1. Len(journal) = Len(trail) /\ Len(trail) \in Nat \ {0}
  BY Standing
<1>2. journal \in Seq(EntryType)
  BY DEF Replay, Shape
<1>3. \A p \in 1 .. (Len(trail) - 1) : journal'[p] = journal[p]
  BY <1>1, <1>2 DEF Complete
<1>4. journal'[Len(trail)] = entry
  BY <1>1, <1>2 DEF Complete
<1>5. Furthest.pc = "sleep" => journal'[Len(trail)].delay = Furthest.delay
  BY <1>1, <1>4 DEF Ledger, Short
<1> QED BY <1>3, <1>5, LedgerPrefix

LEMMA LedgerIssues ==
  ASSUME Replay, Ledger, NEW kind, NEW time, NEW delay, Issue(kind, time, delay),
         kind = "sleep" => delay = local.delay
  PROVE  Ledger'
<1>1. /\ Len(journal) = Len(trail) - 1 /\ local = Furthest /\ Len(trail) \in Nat \ {0}
      /\ Len(journal) \in Nat
  BY Standing DEF Issue
<1>2. journal' = Append(journal, Entry(kind, time, delay)) /\ UNCHANGED <<poller, trail>>
      /\ kind = KindOf(local.pc)
  BY DEF Issue
<1>3. \A p \in 1 .. (Len(trail) - 1) : journal'[p] = journal[p]
  BY <1>1, <1>2 DEF Replay, Shape
<1>4. journal'[Len(trail)].delay = delay
  BY <1>1, <1>2 DEF Entry
<1>5. Furthest.pc = "sleep" => kind = "sleep"
  BY <1>1, <1>2 DEF KindOf
<1> QED BY <1>1, <1>2, <1>3, <1>4, <1>5, LedgerPrefix

LEMMA LedgerAwaits ==
  ASSUME Replay, Ledger, NEW pc, NEW next, Await(pc, next),
         journal[pos + 1].status # "cancelled" => next = StepOf(local, journal[pos + 1], pos + 1)
  PROVE  Ledger'
<1>1. /\ poller' = poller /\ journal' = journal /\ pos \in Nat /\ pos < Len(journal)
      /\ Len(trail) \in Nat \ {0} /\ Len(journal) \in Nat
      /\ local = trail[pos + 1] /\ journal[pos + 1].status # "issued"
      /\ pos + 1 < Len(trail) \/ pos + 1 = Len(trail)
      /\ trail' = IF pos + 1 = Len(trail) THEN Append(trail, local') ELSE trail
  BY Standing DEF Await, Replay, Scalars
<1>2. local' = StepOf(local, journal[pos + 1], pos + 1)
  BY DEF Await, StepOf
<1>3. CASE pos + 1 = Len(trail)
  <2>1. Len(journal) = Len(trail) /\ local = Furthest
    BY <1>1, <1>3 DEF Replay, Shape, Furthest
  <2>2. trail' = Append(trail, StepOf(Furthest, journal[Len(trail)], Len(trail)))
    BY <1>1, <1>2, <1>3, <2>1
  <2> QED BY <1>1, <1>3, <2>1, <2>2, LedgerGrows
<1>4. CASE pos + 1 # Len(trail)
  <2>1. UNCHANGED <<poller, trail, journal>>
    BY <1>1, <1>4
  <2> QED BY <2>1, LedgerPrefix DEF Ledger, Short
<1> QED BY <1>3, <1>4

LEMMA LedgerNext == Replay /\ Ledger /\ [Next]_vars => Ledger'
<1> SUFFICES ASSUME Replay, Ledger, [Next]_vars PROVE Ledger'
  OBVIOUS
<1>1. CASE IssueClock
  BY <1>1, LedgerIssues DEF IssueClock
<1>2. CASE IssueCheck
  BY <1>2, LedgerIssues DEF IssueCheck
<1>3. CASE IssueSleep
  BY <1>3, LedgerIssues DEF IssueSleep
<1>last. LastIssued => journal[Len(journal)] \in EntryType
  BY Standing DEF LastIssued, Replay, Shape
<1>4. CASE CompleteClock
  <2> DEFINE e == [journal[Len(journal)] EXCEPT !.status = "completed", !.time = clock]
  <2>1. LastIssued /\ Complete(e) /\ UNCHANGED <<poller, trail>>
    BY <1>4 DEF CompleteClock, Executing
  <2>2. e.delay = journal[Len(journal)].delay
    BY <1>last, <2>1 DEF EntryType
  <2> QED BY <2>1, <2>2, LedgerCompletes
<1>5. CASE CompleteCheck
  <2>1. PICK verdict \in {"continue", "break", "error"} :
          Complete([journal[Len(journal)] EXCEPT !.status = "completed", !.verdict = verdict])
    BY <1>5 DEF CompleteCheck
  <2> DEFINE e == [journal[Len(journal)] EXCEPT !.status = "completed", !.verdict = verdict]
  <2>2. LastIssued /\ Complete(e) /\ UNCHANGED <<poller, trail>>
    BY <1>5, <2>1 DEF CompleteCheck, Executing
  <2>3. e.delay = journal[Len(journal)].delay
    BY <1>last, <2>2 DEF EntryType
  <2> QED BY <2>2, <2>3, LedgerCompletes
<1>6. CASE FireTimer
  <2> DEFINE e == [journal[Len(journal)] EXCEPT !.status = "completed"]
  <2>1. LastIssued /\ Complete(e) /\ UNCHANGED <<poller, trail>>
    BY <1>6 DEF FireTimer
  <2>2. e.delay = journal[Len(journal)].delay
    BY <1>last, <2>1 DEF EntryType
  <2> QED BY <2>1, <2>2, LedgerCompletes
<1>7. CASE Cancel
  <2> DEFINE e == [journal[Len(journal)] EXCEPT !.status = "cancelled"]
  <2>1. LastIssued /\ Complete(e) /\ UNCHANGED <<poller, trail>>
    BY <1>7 DEF Cancel
  <2>2. e.delay = journal[Len(journal)].delay
    BY <1>last, <2>1 DEF EntryType
  <2> QED BY <2>1, <2>2, LedgerCompletes
<1>8. CASE AwaitStart
  <2>1. local.pc = "start"
    BY <1>8 DEF AwaitStart, Await
  <2> QED BY <1>8, <2>1, LedgerAwaits DEF AwaitStart, StepOf
<1>9. CASE AwaitCheck
  <2>1. local.pc = "check"
    BY <1>9 DEF AwaitCheck, Await
  <2> QED BY <1>9, <2>1, LedgerAwaits DEF AwaitCheck, StepOf
<1>10. CASE AwaitRemaining
  <2>1. local.pc = "remaining"
    BY <1>10 DEF AwaitRemaining, Await
  <2> QED BY <1>10, <2>1, LedgerAwaits DEF AwaitRemaining, StepOf
<1>11. CASE AwaitSleep
  <2>1. local.pc = "sleep"
    BY <1>11 DEF AwaitSleep, Await
  <2> QED BY <1>11, <2>1, LedgerAwaits DEF AwaitSleep, StepOf
<1>12. CASE AwaitWake
  <2>1. local.pc = "wake"
    BY <1>12 DEF AwaitWake, Await
  <2> QED BY <1>12, <2>1, LedgerAwaits DEF AwaitWake, StepOf
<1>13. CASE UNCHANGED <<poller, trail, journal>>
  BY <1>13, LedgerPrefix DEF Ledger, Short
<1>14. Return \/ Crash \/ Tick \/ StepBack \/ UNCHANGED vars => UNCHANGED <<poller, trail, journal>>
  BY DEF Return, Crash, Tick, StepBack, vars
<1> QED
  BY <1>1, <1>2, <1>3, <1>4, <1>5, <1>6, <1>7, <1>8, <1>9, <1>10, <1>11, <1>12,
     <1>13, <1>14 DEF Next

(* Only the start refuses a deadline, one no timer can carry, and goes on     *)
(* with no such one.                                                          *)
LEMMA StepRefuses ==
  ASSUME PollerType, NEW l, GoodLocal(l), l.pc # "ended",
         NEW e \in EntryType, NEW p \in Nat, NEW m, m = StepOf(l, e, p)
  PROVE  /\ m.outcome = "BadDeadline" => l.pc = "start" /\ e.time + poller.timeout > TimerMax
         /\ l.pc = "start" /\ m.pc # "ended" => e.time + poller.timeout <= TimerMax
<1>0. e.time \in Nat /\ (Timed => poller.timeout \in Nat) /\ TimerMax \in Nat
  BY PollerFields, PollerAssumption DEF EntryType
<1>1. l \in LocalType /\ l.outcome = "none" /\ (~Timed => l.pc # "start")
  BY DEF GoodLocal, PcOK, TimedPc
<1> USE <1>0, <1>1 DEF LocalType
<1>2. CASE e.status = "cancelled"
  BY <1>2 DEF StepOf, Ended
<1>3. CASE e.status # "cancelled" /\ l.pc = "start"
  BY <1>3 DEF StepOf, OnStart, Ended
<1>4. CASE e.status # "cancelled" /\ l.pc = "check"
  BY <1>4 DEF StepOf, OnCheck, OnContinue, Ended
<1>5. CASE e.status # "cancelled" /\ l.pc = "remaining"
  BY <1>5 DEF StepOf, OnRemaining, Observed, Ended
<1>6. CASE e.status # "cancelled" /\ l.pc = "sleep"
  BY <1>6 DEF StepOf, OnSlept
<1>7. CASE e.status # "cancelled" /\ l.pc = "wake"
  BY <1>7 DEF StepOf, OnWake, Observed, Ended
<1> QED BY <1>2, <1>3, <1>4, <1>5, <1>6, <1>7

(* A deadline no timer can carry is refused at the first reading, by every    *)
(* execution, and no other one is.                                            *)
LEMMA RefusedAtOnce ==
  ASSUME Replay
  PROVE  DeadlineFits
<1> SUFFICES ASSUME Timed
             PROVE  /\ Len(journal) > 1 => DeadlineAt <= TimerMax
                    /\ local.outcome = "BadDeadline" => DeadlineAt > TimerMax
  BY DEF DeadlineFits
<1> DEFINE n == Len(trail)
<1>1. /\ n \in Nat \ {0} /\ journal \in Seq(EntryType)
      /\ Len(journal) = n \/ Len(journal) = n - 1
      /\ trail[1] = Fresh /\ PollerType
      /\ Len(journal) = n => Furthest.pc # "ended"
      /\ \A p \in 1 .. n : GoodLocal(trail[p])
      /\ \A p \in 1 .. (n - 1) : Explained(p)
  BY DEF Replay, Shape
<1>2. ASSUME NEW p \in 1 .. (n - 1)
      PROVE  /\ journal[p] \in EntryType /\ trail[p].pc # "ended" /\ GoodLocal(trail[p])
             /\ trail[p + 1] = StepOf(trail[p], journal[p], p)
  BY <1>1 DEF Explained
<1>3. ASSUME Len(journal) > 1 PROVE DeadlineAt <= TimerMax
  <2>1. 1 \in 1 .. (n - 1) /\ trail[2].pc # "ended"
    <3>0. /\ n \in Nat \ {0} /\ Len(journal) \in Nat
          /\ Len(journal) = n \/ Len(journal) = n - 1
          /\ Len(journal) = n => trail[n].pc # "ended"
      BY <1>1 DEF Furthest
    <3> HIDE DEF n
    <3>1. CASE n > 2
      <4>1. 1 \in 1 .. (n - 1) /\ 2 \in 1 .. (n - 1)
        BY <3>0, <3>1
      <4> QED BY <1>2, <4>1
    <3>2. CASE n = 2
      <4>1. Len(journal) = n
        BY <1>3, <3>0, <3>2
      <4> QED BY <3>0, <3>2, <4>1
    <3>3. n >= 2
      BY <1>3, <3>0
    <3> QED BY <3>0, <3>1, <3>2, <3>3
  <2>2. trail[2] = StepOf(trail[1], journal[1], 1) /\ trail[1].pc = "start"
    BY <1>1, <1>2, <2>1 DEF Fresh
  <2>3. journal[1] \in EntryType /\ GoodLocal(trail[1]) /\ trail[1].pc # "ended"
    BY <1>2, <2>1
  <2>4. journal[1].time + poller.timeout <= TimerMax
    BY <1>1, <2>1, <2>2, <2>3, StepRefuses
  <2> QED BY <2>4 DEF DeadlineAt
<1>4. ASSUME local.outcome = "BadDeadline" PROVE DeadlineAt > TimerMax
  <2>1. local = trail[pos + 1] /\ pos \in Nat /\ pos < n
    BY <1>1 DEF Replay, ReplayRebuilds, Scalars
  <2>2. pos # 0
    BY <1>1, <1>4, <2>1 DEF Fresh
  <2>3. pos \in 1 .. (n - 1)
    BY <1>1, <2>1, <2>2
  <2>4. trail[pos].pc = "start" /\ journal[pos].time + poller.timeout > TimerMax
    <3>1. /\ journal[pos] \in EntryType /\ trail[pos].pc # "ended" /\ GoodLocal(trail[pos])
          /\ local = StepOf(trail[pos], journal[pos], pos)
      BY <1>2, <2>1, <2>3
    <3> QED BY <1>1, <1>4, <2>1, <3>1, StepRefuses
  <2>5. pos = 1
    <3> SUFFICES ASSUME pos # 1 PROVE FALSE
      OBVIOUS
    <3>1. pos - 1 \in 1 .. (n - 1) /\ (pos - 1) + 1 = pos
      BY <2>3
    <3>2. trail[pos] = StepOf(trail[pos - 1], journal[pos - 1], pos - 1)
      BY <1>2, <3>1
    <3>3. /\ journal[pos - 1] \in EntryType /\ trail[pos - 1].pc # "ended" /\ GoodLocal(trail[pos - 1])
          /\ pos - 1 \in Nat
      BY <1>2, <3>1
    <3>4. trail[pos].pc # "start"
      BY <1>1, <3>2, <3>3, StepAccounts
    <3> QED BY <2>4, <3>4
  <2> QED BY <2>4, <2>5 DEF DeadlineAt
<1> QED BY <1>3, <1>4

(* The limits hold over all attempts together: no more checks than allowed, *)
(* no entry after an observed expiry, no sleep beyond the interval or what  *)
(* is left after any earlier reading.                                       *)
THEOREM LimitsAreHeld == Spec => []LimitsHold
<1>1. ASSUME Replay, Ledger PROVE AttemptsBounded
  <2> SUFFICES ASSUME Limited
               PROVE  /\ Cardinality(Checks) <= poller.maxAttempts
                      /\ local.outcome = "AttemptsExhausted" => Cardinality(Checks) = poller.maxAttempts
    BY DEF AttemptsBounded
  <2> DEFINE n == Len(trail)
             past == Past("check")
  <2>1. /\ n \in Nat /\ n >= 1 /\ (Len(journal) = n \/ Len(journal) = n - 1)
        /\ GoodLocal(Furthest) /\ journal \in Seq(EntryType)
        /\ Len(journal) = n => Furthest.pc # "ended"
        /\ poller.maxAttempts \in Nat
    BY <1>1, PollerFields, Standing DEF Replay, Shape, Furthest
  <2>2. /\ Cardinality(past) <= poller.maxAttempts
        /\ Furthest.pc # "ended" => Cardinality(past) + Furthest.left = poller.maxAttempts /\ Furthest.left >= 1
        /\ Furthest.outcome = "AttemptsExhausted" => Cardinality(past) = poller.maxAttempts
        /\ Furthest.left \in Nat
    BY <1>1, <2>1 DEF Ledger, Counted, GoodLocal, LeftOK, LocalType
  <2>3. IsFiniteSet(past) /\ Cardinality(past) \in Nat /\ n \notin past
    <3>1. n - 1 \in Int
      BY <2>1
    <3>2. IsFiniteSet(1 .. (n - 1))
      BY <3>1, FS_Interval
    <3>3. past \subseteq 1 .. (n - 1)
      BY DEF Past
    <3> QED BY <2>1, <3>2, <3>3, FS_Subset, FS_CardinalityType
  <2>4. CASE Len(journal) = n - 1
    <3>1. Checks = past
      BY <2>1, <2>4 DEF Checks, Positions, Past
    <3>2. local.outcome = "AttemptsExhausted" => local = Furthest
      <4>1. CASE pos + 1 = n
        BY <1>1, <4>1, Standing DEF Furthest
      <4>2. CASE pos + 1 # n
        <5>1. pos < Len(journal) /\ pos + 1 < n
          BY <1>1, <2>1, <2>4, <4>2 DEF Replay, Scalars, ReplayRebuilds
        <5> QED BY <1>1, <5>1, Standing DEF Explained, GoodLocal, PcOK
      <4> QED BY <4>1, <4>2
    <3> QED BY <2>2, <3>1, <3>2
  <2>5. CASE Len(journal) = n
    <3>1. Checks = past \/ Checks = past \cup {n}
      BY <2>1, <2>5 DEF Checks, Positions, Past
    <3>2. Cardinality(Checks) <= Cardinality(past) + 1 /\ Cardinality(Checks) \in Nat
      <4> HIDE DEF past
      <4>1. Cardinality(past \cup {n}) = Cardinality(past) + 1
        BY <2>3, FS_AddElement
      <4>2. Cardinality(Checks) = Cardinality(past) \/ Cardinality(Checks) = Cardinality(past) + 1
        BY <3>1, <4>1
      <4> QED BY <2>3, <4>2
    <3>3. local.outcome # "AttemptsExhausted"
      <4>1. local.pc # "ended"
        <5>1. CASE pos + 1 = n
          BY <1>1, <2>1, <2>5, <5>1, Standing DEF Furthest
        <5>2. CASE pos + 1 # n
          <6>1. pos < Len(journal) /\ pos + 1 < n
            BY <1>1, <2>1, <2>5, <5>2 DEF Replay, Scalars, ReplayRebuilds
          <6> QED BY <1>1, <6>1, Standing DEF Explained
        <5> QED BY <5>1, <5>2
      <4> QED BY <1>1, <4>1, Standing DEF GoodLocal, PcOK
    <3> QED BY <2>1, <2>2, <2>3, <2>5, <3>2, <3>3
  <2> QED BY <2>1, <2>4, <2>5
<1>2. ASSUME Replay, Ledger PROVE ExpiryEndsPoll /\ SleepFits
  <2> DEFINE n == Len(trail)
  <2>1. /\ n \in Nat /\ n >= 1 /\ (Len(journal) = n \/ Len(journal) = n - 1)
        /\ journal \in Seq(EntryType) /\ (Len(journal) = n => Furthest.pc # "ended")
        /\ Len(journal) = n => journal[n].kind = KindOf(Furthest.pc)
        /\ GoodLocal(Furthest)
    BY <1>2, Standing DEF Replay, Shape, Furthest
  <2>2. \A q \in Readings : q \in PastReadings \/ (q = n /\ n = Len(journal))
    BY <2>1 DEF Readings, Positions, PastReadings, Past
  <2>3. \A p \in Positions("sleep") : p \in Past("sleep") \/ (p = n /\ n = Len(journal) /\ journal[n].kind = "sleep")
    BY <2>1 DEF Positions, Past
  <2>4. ASSUME Timed, NEW q \in PastReadings
        PROVE  /\ q < n /\ n > 1 /\ journal[q].time <= Furthest.latest /\ journal[q].time \in Nat
               /\ journal[q].time < DeadlineAt \/ (Furthest.pc = "ended" /\ q = n - 1)
               /\ Furthest.pc # "ended" => Furthest.at = DeadlineAt
    <3>1. q \in 1 .. (n - 1)
      BY DEF PastReadings, Past
    <3>2. journal[q] \in EntryType
      BY <2>1, <3>1
    <3> QED BY <1>2, <2>1, <2>4, <3>1, <3>2 DEF Ledger, Bounded, EntryType
  <2>5. DeadlineAt \in Int \/ ~Timed \/ PastReadings = {}
    <3> SUFFICES ASSUME Timed, NEW q \in PastReadings PROVE DeadlineAt \in Int
      OBVIOUS
    <3>1. n > 1
      BY <2>4
    <3>2. journal[1] \in EntryType
      BY <2>1, <3>1
    <3>3. poller.timeout \in Nat
      BY <1>2, PollerFields DEF Replay
    <3> QED BY <3>2, <3>3 DEF DeadlineAt, EntryType
  <2>6. ExpiryEndsPoll
    <3> SUFFICES ASSUME Timed, NEW q \in Readings, journal[q].time >= DeadlineAt
                 PROVE  q = Len(journal)
      BY DEF ExpiryEndsPoll
    <3>1. CASE q \in PastReadings
      <4>1. ~(journal[q].time < DeadlineAt)
        BY <2>4, <2>5, <3>1
      <4>2. Furthest.pc = "ended" /\ q = n - 1
        BY <2>4, <3>1, <4>1
      <4> QED BY <2>1, <4>2
    <3> QED BY <2>2, <3>1
  <2>7. SleepFits
    <3> SUFFICES ASSUME NEW p \in Positions("sleep")
                 PROVE  /\ 1 <= journal[p].delay /\ journal[p].delay <= poller.interval
                        /\ Timed => \A q \in Readings :
                             q < p => journal[q].time + journal[p].delay <= DeadlineAt
      BY DEF SleepFits
    <3>1. CASE p \in Past("sleep")
      <4>1. p < n
        BY <2>1, <3>1 DEF Past
      <4>2. \A q \in Readings : q < p => q \in PastReadings
        BY <2>1, <2>2, <4>1 DEF Readings, Positions
      <4> QED BY <1>2, <3>1, <4>2 DEF Ledger, Slept
    <3>2. CASE p = n /\ n = Len(journal) /\ journal[n].kind = "sleep"
      <4>1. Furthest.pc = "sleep"
        BY <2>1, <3>2 DEF KindOf, GoodLocal, LocalType
      <4>2. /\ journal[p].delay = Furthest.delay
            /\ 1 <= Furthest.delay /\ Furthest.delay <= poller.interval
            /\ Timed => Furthest.latest + Furthest.delay <= Furthest.at
        BY <1>2, <3>2, <4>1 DEF Ledger, Short
      <4>3. \A q \in Readings : q < p => q \in PastReadings
        BY <2>1, <2>2, <3>2 DEF Readings, Positions
      <4>4. ASSUME Timed, NEW q \in PastReadings
            PROVE  journal[q].time + journal[p].delay <= DeadlineAt
        <5>1. /\ journal[q].time \in Nat /\ Furthest.latest \in Nat /\ Furthest.delay \in Nat
              /\ Furthest.at \in Nat
          BY <2>1, <2>4, <4>4 DEF GoodLocal, LocalType
        <5>2. journal[q].time <= Furthest.latest /\ Furthest.at = DeadlineAt
          BY <2>4, <4>1, <4>4
        <5> QED BY <4>2, <4>4, <5>1, <5>2
      <4> QED BY <4>2, <4>3, <4>4
    <3> QED BY <2>3, <3>1, <3>2
  <2> QED BY <2>6, <2>7
<1>3. Replay /\ Ledger => LimitsHold
  BY <1>1, <1>2, RefusedAtOnce DEF LimitsHold
<1> QED BY <1>3, AlwaysReplay, LedgerInit, LedgerNext, PTL DEF Spec
-----------------------------------------------------------------------------
(* The spacing of the checks. Where a check is due, a full interval is past:  *)
(* the sleep before it lasted that long, or it was shortened to the deadline, *)
(* and then the reading that follows a sleep does not let the poll go on.     *)

(* The entry the furthest point waits for is in the journal. *)
Pending == Len(journal) = Len(trail)

LongEnough(t) ==
  \/ t >= MaxTime
  \/ /\ t >= checkedAt + Furthest.delay
     /\ Furthest.delay = poller.interval \/ t >= Furthest.at

Chosen ==
  Furthest.pc = "sleep" =>
    \/ Furthest.delay = poller.interval
    \/ Timed /\ Furthest.latest + Furthest.delay = Furthest.at

(* Nothing the poll has seen is ahead of a clock that never stepped back. *)
Clocked ==
  /\ checkedAt <= clock /\ Furthest.latest <= clock
  /\ Pending /\ journal[Len(trail)].kind = "clock" => journal[Len(trail)].time <= clock

Timer ==
  Furthest.pc = "sleep" /\ Pending =>
    /\ journal[Len(trail)].time >= checkedAt + Furthest.delay
    /\ Furthest.delay = poller.interval \/ journal[Len(trail)].time >= Furthest.at
    /\ journal[Len(trail)].status = "completed" =>
         clock >= journal[Len(trail)].time \/ clock >= MaxTime

Awake ==
  Furthest.pc = "wake" =>
    /\ LongEnough(clock)
    /\ Pending /\ journal[Len(trail)].status = "completed" => LongEnough(journal[Len(trail)].time)

Due ==
  Furthest.pc = "check" /\ ~Pending /\ Past("check") # {} =>
    clock >= checkedAt + poller.interval \/ clock >= MaxTime

Spaced == Chosen /\ (backward = 0 => Clocked /\ Timer /\ Awake /\ Due)

(* What one entry does to the locals, as far as the spacing is concerned. *)
LEMMA StepSpaces ==
  ASSUME PollerType, NEW l, GoodLocal(l), l.pc # "ended",
         NEW e \in EntryType, NEW p \in Nat, NEW m, m = StepOf(l, e, p)
  PROVE  /\ m.pc = "sleep" =>
              m.delay = poller.interval \/ (Timed /\ m.latest + m.delay = m.at)
         /\ m.pc = "wake" =>
              l.pc = "sleep" /\ e.status # "cancelled" /\ m.delay = l.delay /\ m.at = l.at
         /\ m.pc = "check" =>
              /\ e.status # "cancelled"
              /\ l.pc = "start" \/ (l.pc = "sleep" /\ ~Timed) \/ (l.pc = "wake" /\ e.time < l.at)
         /\ m.latest = l.latest \/ (m.latest = e.time /\ KindOf(l.pc) = "clock")
<1>0. e.time \in Nat /\ e.verdict \in {"none", "continue", "break", "error"}
  BY DEF EntryType
<1>1. /\ poller.interval \in Nat \ {0}
      /\ Timed => poller.timeout \in Nat
      /\ Limited => poller.maxAttempts \in Nat \ {0}
  BY PollerFields
<1>2. /\ l \in LocalType
      /\ ~Timed => l.pc \notin {"start", "remaining", "wake"}
  BY DEF GoodLocal, TimedPc
<1> USE <1>1, <1>2 DEF LocalType
<1>3. CASE e.status = "cancelled"
  BY <1>3 DEF StepOf, Ended
<1>4. CASE e.status # "cancelled" /\ l.pc = "start"
  BY <1>0, <1>4 DEF StepOf, OnStart, Ended, KindOf
<1>5. CASE e.status # "cancelled" /\ l.pc = "check"
  BY <1>0, <1>5 DEF StepOf, OnCheck, OnContinue, Ended
<1>6. CASE e.status # "cancelled" /\ l.pc = "remaining"
  BY <1>0, <1>6 DEF StepOf, OnRemaining, Observed, Remaining, Later, Earlier, Ended, KindOf
<1>7. CASE e.status # "cancelled" /\ l.pc = "sleep"
  BY <1>7 DEF StepOf, OnSlept
<1>8. CASE e.status # "cancelled" /\ l.pc = "wake"
  BY <1>0, <1>8 DEF StepOf, OnWake, Observed, Remaining, Later, Ended, KindOf
<1> QED BY <1>3, <1>4, <1>5, <1>6, <1>7, <1>8

(* What the spacing is counted in. *)
LEMMA SpacedTypes ==
  ASSUME Replay
  PROVE  /\ clock \in Nat /\ checkedAt \in Nat /\ backward \in Nat /\ MaxTime \in Nat
         /\ Len(trail) \in Nat /\ Len(trail) >= 1 /\ Len(journal) \in Nat
         /\ poller.interval \in Nat /\ GoodLocal(Furthest) /\ Furthest \in LocalType
         /\ Furthest.delay \in Nat /\ Furthest.at \in Nat /\ Furthest.latest \in Nat
         /\ \A p \in 1 .. Len(journal) : journal[p] \in EntryType /\ journal[p].time \in Nat
         /\ Pending => /\ journal[Len(trail)] \in EntryType /\ journal[Len(trail)].time \in Nat
                       /\ journal[Len(trail)].kind = KindOf(Furthest.pc)
                       /\ Furthest.pc # "ended"
<1>1. /\ clock \in Nat /\ checkedAt \in Nat /\ backward \in Nat /\ MaxTime \in Nat
      /\ Len(trail) \in Nat /\ Len(trail) >= 1 /\ Len(journal) \in Nat
      /\ poller.interval \in Nat /\ GoodLocal(Furthest)
  BY Standing, PollerFields, PollerAssumption DEF Replay, Scalars, Shape, Furthest
<1>2. /\ Furthest \in LocalType
      /\ Furthest.delay \in Nat /\ Furthest.at \in Nat /\ Furthest.latest \in Nat
  BY <1>1 DEF GoodLocal, LocalType
<1>3. \A p \in 1 .. Len(journal) : journal[p] \in EntryType /\ journal[p].time \in Nat
  <2>1. \A p \in 1 .. Len(journal) : journal[p] \in EntryType
    BY DEF Replay, Shape
  <2>2. \A e \in EntryType : e.time \in Nat
    BY DEF EntryType
  <2> QED BY <2>1, <2>2
<1>4. Pending => /\ Len(trail) \in 1 .. Len(journal)
                 /\ journal[Len(trail)].kind = KindOf(Furthest.pc)
                 /\ Furthest.pc # "ended"
  BY <1>1 DEF Pending, Replay, Shape
<1> QED BY <1>1, <1>2, <1>3, <1>4

LEMMA SpacedInit == Init => Spaced
<1> SUFFICES ASSUME Init PROVE Spaced
  OBVIOUS
<1>1. Len(trail) = 1 /\ Furthest = Fresh /\ Len(journal) = 0 /\ checkedAt = 0 /\ clock \in Nat
  BY PollerAssumption DEF Init, Furthest
<1>2. Past("check") = {}
  BY <1>1 DEF Past
<1> QED BY <1>1, <1>2 DEF Spaced, Chosen, Clocked, Timer, Awake, Due, Fresh, Pending

(* Time passing, a crash, a replayed entry: nothing that was long enough ago *)
(* is less so.                                                               *)
LEMMA SpacedStays ==
  ASSUME Replay, Spaced, UNCHANGED <<poller, trail, journal, checkedAt>>,
         clock' \in Nat, backward' = 0 => backward = 0 /\ clock' >= clock
  PROVE  Spaced'
<1>1. /\ Furthest' = Furthest /\ Timed' = Timed /\ Pending' = Pending
      /\ Past("check")' = Past("check")
  BY DEF Furthest, Timed, Pending, Past
<1>2. Chosen'
  BY <1>1 DEF Spaced, Chosen
<1>3. ASSUME backward' = 0
      PROVE  Clocked' /\ Timer' /\ Awake' /\ Due'
  <2>1. Clocked /\ Timer /\ Awake /\ Due /\ clock' >= clock
    BY <1>3 DEF Spaced
  <2>2. Clocked'
    BY <1>1, <2>1, SpacedTypes DEF Clocked
  <2>3. Timer'
    <3>1. \A t \in Nat : clock >= t => clock' >= t
      BY <2>1, SpacedTypes
    <3>2. Pending => journal[Len(trail)].time \in Nat
      BY SpacedTypes
    <3>3. MaxTime \in Nat
      BY SpacedTypes
    <3> QED BY <1>1, <2>1, <3>1, <3>2, <3>3 DEF Timer
  <2>4. Awake'
    BY <1>1, <2>1, SpacedTypes DEF Awake, LongEnough
  <2>5. Due'
    BY <1>1, <2>1, SpacedTypes DEF Due
  <2> QED BY <2>2, <2>3, <2>4, <2>5
<1> QED BY <1>2, <1>3 DEF Spaced

(* A timer is set no earlier than the last check ended, nor than the clock  *)
(* last read.                                                               *)
LEMMA SpacedIssues ==
  ASSUME Replay, Spaced, NEW kind, NEW time \in Nat, NEW delay, Issue(kind, time, delay),
         kind = "clock" => time = 0,
         kind = "sleep" => time = clock + local.delay
  PROVE  Spaced'
<1>1. /\ Len(journal) = Len(trail) - 1 /\ local = Furthest /\ Len(trail) \in Nat \ {0}
      /\ Len(journal) \in Nat
  BY Standing DEF Issue
<1>2. /\ journal' = Append(journal, Entry(kind, time, delay)) /\ UNCHANGED <<poller, trail, clock, checkedAt, backward>>
      /\ kind = KindOf(local.pc)
  BY DEF Issue
<1>3. journal'[Len(trail)] = Entry(kind, time, delay) /\ Len(journal') = Len(trail)
  BY <1>1, <1>2 DEF Replay, Shape
<1>4. /\ journal'[Len(trail)].kind = kind /\ journal'[Len(trail)].time = time
      /\ journal'[Len(trail)].status = "issued"
  BY <1>3 DEF Entry
<1>5. Furthest' = Furthest /\ Timed' = Timed /\ Pending'
  BY <1>2, <1>3 DEF Furthest, Timed, Pending
<1>6. Chosen'
  BY <1>2, <1>5 DEF Spaced, Chosen
<1>7. ASSUME backward' = 0
      PROVE  Clocked' /\ Timer' /\ Awake' /\ Due'
  <2>1. Clocked /\ Awake /\ Chosen
    BY <1>2, <1>7 DEF Spaced
  <2>2. Clocked'
    <3>1. checkedAt <= clock /\ Furthest.latest <= clock
      BY <2>1 DEF Clocked
    <3>2. kind = "clock" => time <= clock
      BY SpacedTypes
    <3> QED BY <1>2, <1>4, <1>5, <3>1, <3>2 DEF Clocked
  <2>3. Timer'
    <3> SUFFICES ASSUME Furthest.pc = "sleep"
                 PROVE  /\ time >= checkedAt + Furthest.delay
                        /\ Furthest.delay = poller.interval \/ time >= Furthest.at
      BY <1>2, <1>4, <1>5 DEF Timer
    <3>1. time = clock + Furthest.delay
      BY <1>1, <1>2 DEF KindOf
    <3>2. checkedAt <= clock /\ Furthest.latest <= clock
      BY <2>1 DEF Clocked
    <3> QED BY <2>1, <3>1, <3>2, SpacedTypes, SMTT(40) DEF Chosen
  <2>4. Awake'
    BY <1>2, <1>4, <1>5, <2>1 DEF Awake, LongEnough
  <2>5. Due'
    BY <1>5 DEF Due
  <2> QED BY <2>2, <2>3, <2>4, <2>5
<1> QED BY <1>6, <1>7 DEF Spaced

(* A result: a reading is of the clock, a timer fires when it is time, and  *)
(* a check's end is when the next interval begins.                          *)
LEMMA SpacedCompletes ==
  ASSUME Replay, Spaced, NEW entry, LastIssued, Complete(entry),
         UNCHANGED <<poller, trail, clock, backward>>,
         entry.kind = journal[Len(journal)].kind,
         \/ checkedAt' = checkedAt
         \/ entry.kind = "check" /\ checkedAt' = clock,
         \/ entry.time = journal[Len(journal)].time
         \/ entry.kind = "clock" /\ entry.time = clock,
         entry.status = "completed" /\ entry.kind = "clock" => entry.time = clock,
         entry.status = "completed" /\ entry.kind = "sleep" =>
           clock >= journal[Len(journal)].time \/ clock >= MaxTime
  PROVE  Spaced'
<1>1. Len(journal) = Len(trail) /\ Len(trail) \in Nat \ {0}
  BY Standing
<1>2. journal'[Len(trail)] = entry /\ Len(journal') = Len(trail)
  BY <1>1 DEF Complete, Replay, Shape
<1>3. Furthest' = Furthest /\ Timed' = Timed /\ Pending' /\ Pending
  BY <1>1, <1>2 DEF Furthest, Timed, Pending
<1>4. Chosen'
  BY <1>3 DEF Spaced, Chosen
<1>5. entry.kind = KindOf(Furthest.pc)
  BY <1>1, <1>3, SpacedTypes
<1>6. ASSUME backward' = 0
      PROVE  Clocked' /\ Timer' /\ Awake' /\ Due'
  <2>1. Clocked /\ Timer /\ Awake
    BY <1>6 DEF Spaced
  <2>2. Clocked'
    BY <1>1, <1>2, <1>3, <2>1, SpacedTypes DEF Clocked
  <2>3. Timer'
    <3> SUFFICES ASSUME Furthest.pc = "sleep"
                 PROVE  /\ entry.time >= checkedAt' + Furthest.delay
                        /\ Furthest.delay = poller.interval \/ entry.time >= Furthest.at
                        /\ entry.status = "completed" => clock >= entry.time \/ clock >= MaxTime
      BY <1>2, <1>3 DEF Timer
    <3>1. entry.kind = "sleep"
      BY <1>5 DEF KindOf
    <3> QED BY <1>1, <1>3, <2>1, <3>1 DEF Timer
  <2>4. Awake'
    <3> SUFFICES ASSUME Furthest.pc = "wake"
                 PROVE  LongEnough(clock)' /\ (entry.status = "completed" => LongEnough(entry.time)')
      BY <1>2, <1>3 DEF Awake, LongEnough
    <3>1. entry.kind = "clock" /\ checkedAt' = checkedAt
      BY <1>5 DEF KindOf
    <3>2. LongEnough(clock)
      BY <2>1 DEF Awake
    <3>3. LongEnough(clock)'
      BY <1>3, <3>1, <3>2 DEF LongEnough
    <3>4. entry.status = "completed" => entry.time = clock
      BY <3>1
    <3> QED BY <1>3, <3>1, <3>2, <3>3, <3>4 DEF LongEnough
  <2>5. Due'
    BY <1>3 DEF Due
  <2> QED BY <2>2, <2>3, <2>4, <2>5
<1> QED BY <1>4, <1>6 DEF Spaced

(* The furthest point moves on. *)
LEMMA SpacedGrows ==
  ASSUME Replay, Ledger, Spaced, UNCHANGED <<poller, journal, clock, checkedAt, backward>>,
         Len(journal) = Len(trail), journal[Len(trail)].status # "issued",
         trail' = Append(trail, StepOf(Furthest, journal[Len(trail)], Len(trail)))
  PROVE  Spaced'
<1> DEFINE n == Len(trail)
           l == Furthest
           e == journal[n]
           m == StepOf(l, e, n)
<1>1. /\ n \in Nat /\ n >= 1 /\ l = trail[n] /\ trail \in Seq(LocalType)
      /\ PollerType /\ GoodLocal(l) /\ l.pc # "ended" /\ e \in EntryType
      /\ e.kind = KindOf(l.pc)
  BY Standing DEF Replay, Shape, Furthest
<1>2. m \in LocalType
  BY <1>1, StepGood DEF GoodLocal
<1>3. Furthest' = m /\ Len(trail') = n + 1
  <2> HIDE DEF m, l, e
  <2> QED BY <1>1, <1>2 DEF Furthest, l, e, m
<1>4. /\ m.pc = "sleep" =>
           m.delay = poller.interval \/ (Timed /\ m.latest + m.delay = m.at)
      /\ m.pc = "wake" =>
           l.pc = "sleep" /\ e.status # "cancelled" /\ m.delay = l.delay /\ m.at = l.at
      /\ m.pc = "check" =>
           /\ e.status # "cancelled"
           /\ l.pc = "start" \/ (l.pc = "sleep" /\ ~Timed) \/ (l.pc = "wake" /\ e.time < l.at)
      /\ m.latest = l.latest \/ (m.latest = e.time /\ KindOf(l.pc) = "clock")
  BY <1>1, StepSpaces
<1>5. /\ clock \in Nat /\ checkedAt \in Nat /\ MaxTime \in Nat /\ poller.interval \in Nat
      /\ l.delay \in Nat /\ l.at \in Nat /\ l.latest \in Nat /\ e.time \in Nat
  BY <1>1, SpacedTypes DEF EntryType
<1>6. Timed' = Timed /\ ~Pending' /\ Pending /\ e.status \in {"completed", "cancelled"}
  BY <1>1, <1>3 DEF Timed, Pending, EntryType
<1> HIDE DEF l, m, e
<1>7. Chosen'
  BY <1>3, <1>4, <1>6 DEF Chosen
<1>8. ASSUME backward' = 0
      PROVE  Clocked' /\ Timer' /\ Awake' /\ Due'
  <2>1. Clocked /\ Timer /\ Awake /\ Due /\ Chosen
    BY <1>8 DEF Spaced
  <2>2. checkedAt <= clock /\ l.latest <= clock /\ (KindOf(l.pc) = "clock" => e.time <= clock)
    BY <1>1, <1>6, <2>1 DEF Clocked, l, e
  <2>3. Clocked'
    BY <1>3, <1>4, <1>6, <2>2 DEF Clocked
  <2>4. ASSUME l.pc = "sleep", e.status = "completed"
        PROVE  /\ clock >= MaxTime \/ clock >= checkedAt + l.delay
               /\ clock >= MaxTime \/ l.delay = poller.interval \/ clock >= l.at
    <3>1. /\ e.time >= checkedAt + l.delay
          /\ l.delay = poller.interval \/ e.time >= l.at
          /\ clock >= e.time \/ clock >= MaxTime
      BY <1>6, <2>1, <2>4 DEF Timer, l, e
    <3> QED BY <1>5, <3>1
  <2>5. Timer'
    BY <1>6 DEF Timer
  <2>6. Awake'
    <3> SUFFICES ASSUME m.pc = "wake" PROVE LongEnough(clock)'
      BY <1>3, <1>6 DEF Awake, LongEnough
    <3> QED BY <1>3, <1>4, <1>6, <2>4 DEF LongEnough
  <2>7. Due'
    <3> SUFFICES ASSUME m.pc = "check", Past("check")' # {}
                 PROVE  clock >= checkedAt + poller.interval \/ clock >= MaxTime
      BY <1>3 DEF Due
    <3>1. l.pc # "start"
      <4> SUFFICES ASSUME l.pc = "start" PROVE FALSE
        OBVIOUS
      <4>1. Timed
        BY <1>1 DEF GoodLocal, TimedPc
      <4>2. n = 1
        BY <4>1 DEF Ledger, Bounded, l
      <4>3. journal[1].kind = "clock"
        BY <1>1, <4>2 DEF KindOf, e
      <4>4. Past("check")' = {}
        BY <1>3, <4>2, <4>3 DEF Past
      <4> QED BY <4>4
    <3>2. CASE l.pc = "sleep" /\ ~Timed
      <4>1. l.delay = poller.interval
        BY <2>1, <3>2 DEF Chosen, l
      <4> QED BY <1>4, <1>6, <2>4, <3>2, <4>1
    <3>3. CASE l.pc = "wake" /\ e.time < l.at
      <4>1. LongEnough(e.time) /\ e.time <= clock
        BY <1>4, <1>6, <2>1, <2>2, <3>3 DEF Awake, KindOf, l, e
      <4>2. e.time >= MaxTime \/ e.time >= checkedAt + poller.interval
        BY <1>5, <3>3, <4>1 DEF LongEnough, l
      <4> QED BY <1>5, <4>1, <4>2
    <3> QED BY <1>4, <3>1, <3>2, <3>3
  <2> QED BY <2>3, <2>5, <2>6, <2>7
<1> QED BY <1>7, <1>8 DEF Spaced

LEMMA SpacedAwaits ==
  ASSUME Replay, Ledger, Spaced, NEW pc, NEW next, Await(pc, next),
         journal[pos + 1].status # "cancelled" => next = StepOf(local, journal[pos + 1], pos + 1)
  PROVE  Spaced'
<1>1. /\ poller' = poller /\ journal' = journal /\ pos \in Nat /\ pos < Len(journal)
      /\ Len(trail) \in Nat \ {0} /\ Len(journal) \in Nat
      /\ local = trail[pos + 1] /\ journal[pos + 1].status # "issued"
      /\ pos + 1 < Len(trail) \/ pos + 1 = Len(trail)
      /\ trail' = IF pos + 1 = Len(trail) THEN Append(trail, local') ELSE trail
      /\ UNCHANGED <<clock, checkedAt, backward>>
  BY Standing DEF Await, Replay, Scalars
<1>2. local' = StepOf(local, journal[pos + 1], pos + 1)
  BY DEF Await, StepOf
<1>3. CASE pos + 1 = Len(trail)
  <2>1. Len(journal) = Len(trail) /\ local = Furthest
    BY <1>1, <1>3 DEF Replay, Shape, Furthest
  <2>2. trail' = Append(trail, StepOf(Furthest, journal[Len(trail)], Len(trail)))
    BY <1>1, <1>2, <1>3, <2>1
  <2> QED BY <1>1, <1>3, <2>1, <2>2, SpacedGrows
<1>4. CASE pos + 1 # Len(trail)
  <2>1. UNCHANGED <<poller, trail, journal, checkedAt, clock, backward>> /\ clock \in Nat
    BY <1>1, <1>4, SpacedTypes
  <2> QED BY <2>1, SpacedStays
<1> QED BY <1>3, <1>4

LEMMA SpacedNext == Replay /\ Ledger /\ Spaced /\ [Next]_vars => Spaced'
<1> SUFFICES ASSUME Replay, Ledger, Spaced, [Next]_vars PROVE Spaced'
  OBVIOUS
<1>0. /\ clock \in Nat /\ local.delay \in Nat /\ backward \in Nat
      /\ LastIssued => journal[Len(journal)] \in EntryType
  <2>1. local \in LocalType
    BY Standing
  <2>2. local.delay \in Nat
    BY <2>1 DEF LocalType
  <2>3. LastIssued => journal[Len(journal)] \in EntryType
    BY Standing, SpacedTypes DEF LastIssued
  <2> QED BY <2>2, <2>3, SpacedTypes
<1>1. CASE IssueClock
  BY <1>1, SpacedIssues DEF IssueClock
<1>2. CASE IssueCheck
  BY <1>2, SpacedIssues DEF IssueCheck
<1>3. CASE IssueSleep
  <2>1. clock + local.delay \in Nat
    BY <1>0
  <2> QED BY <1>3, <2>1, SpacedIssues DEF IssueSleep
<1>4. CASE CompleteClock
  <2> DEFINE e == [journal[Len(journal)] EXCEPT !.status = "completed", !.time = clock]
  <2>1. /\ LastIssued /\ Complete(e) /\ UNCHANGED <<poller, trail, clock, backward, checkedAt>>
        /\ journal[Len(journal)].kind = "clock"
    BY <1>4, Standing DEF CompleteClock, Executing
  <2>2. e.kind = "clock" /\ e.time = clock
    BY <1>0, <2>1 DEF EntryType
  <2> HIDE DEF e
  <2> QED BY <2>1, <2>2, SpacedCompletes
<1>5. CASE CompleteCheck
  <2>1. PICK verdict \in {"continue", "break", "error"} :
          Complete([journal[Len(journal)] EXCEPT !.status = "completed", !.verdict = verdict])
    BY <1>5 DEF CompleteCheck
  <2> DEFINE e == [journal[Len(journal)] EXCEPT !.status = "completed", !.verdict = verdict]
  <2>2. /\ LastIssued /\ Complete(e) /\ UNCHANGED <<poller, trail, clock, backward>>
        /\ checkedAt' = clock /\ journal[Len(journal)].kind = "check"
    BY <1>5, <2>1 DEF CompleteCheck, Executing
  <2>3. e.kind = "check" /\ e.time = journal[Len(journal)].time
    BY <1>0, <2>2 DEF EntryType
  <2> HIDE DEF e
  <2> QED BY <2>2, <2>3, SpacedCompletes
<1>6. CASE FireTimer
  <2> DEFINE e == [journal[Len(journal)] EXCEPT !.status = "completed"]
  <2>1. /\ LastIssued /\ Complete(e) /\ UNCHANGED <<poller, trail, clock, backward, checkedAt>>
        /\ journal[Len(journal)].kind = "sleep"
        /\ clock >= journal[Len(journal)].time \/ clock >= MaxTime
    BY <1>6 DEF FireTimer
  <2>2. e.kind = "sleep" /\ e.time = journal[Len(journal)].time
    BY <1>0, <2>1 DEF EntryType
  <2> HIDE DEF e
  <2> QED BY <2>1, <2>2, SpacedCompletes
<1>7. CASE Cancel
  <2> DEFINE e == [journal[Len(journal)] EXCEPT !.status = "cancelled"]
  <2>1. LastIssued /\ Complete(e) /\ UNCHANGED <<poller, trail, clock, backward, checkedAt>>
    BY <1>7 DEF Cancel
  <2>2. /\ e.kind = journal[Len(journal)].kind /\ e.time = journal[Len(journal)].time
        /\ e.status = "cancelled"
    BY <1>0, <2>1 DEF EntryType
  <2> HIDE DEF e
  <2> QED BY <2>1, <2>2, SpacedCompletes
<1>8. CASE AwaitStart
  BY <1>8, SpacedAwaits DEF AwaitStart, Await, StepOf
<1>9. CASE AwaitCheck
  BY <1>9, SpacedAwaits DEF AwaitCheck, Await, StepOf
<1>10. CASE AwaitRemaining
  BY <1>10, SpacedAwaits DEF AwaitRemaining, Await, StepOf
<1>11. CASE AwaitSleep
  BY <1>11, SpacedAwaits DEF AwaitSleep, Await, StepOf
<1>12. CASE AwaitWake
  BY <1>12, SpacedAwaits DEF AwaitWake, Await, StepOf
<1>13. CASE Return \/ Crash \/ Tick \/ UNCHANGED vars
  <2>1. /\ UNCHANGED <<poller, trail, journal, checkedAt, backward>>
        /\ clock' \in Nat /\ clock' >= clock
    BY <1>0, <1>13 DEF Return, Crash, Tick, vars
  <2> QED BY <2>1, SpacedStays
<1>14. CASE StepBack
  <2>1. UNCHANGED <<poller, trail, journal, checkedAt>> /\ clock' \in Nat /\ backward' # 0
    BY <1>0, <1>14 DEF StepBack
  <2> QED BY <2>1, SpacedStays
<1> QED
  BY <1>1, <1>2, <1>3, <1>4, <1>5, <1>6, <1>7, <1>8, <1>9, <1>10, <1>11, <1>12,
     <1>13, <1>14 DEF Next

(* Only the issue of a check adds one to the journal. *)
LEMMA ChecksGrow ==
  ASSUME Replay, [Next]_vars, Checks' # Checks
  PROVE  IssueCheck
<1>1. journal \in Seq(EntryType) /\ Len(journal) \in Nat
  BY Standing DEF Replay, Shape
<1>2. ASSUME NEW kind \in {"clock", "sleep"}, NEW time, NEW delay, Issue(kind, time, delay)
      PROVE  Checks' = Checks
  <2>1. journal' = Append(journal, Entry(kind, time, delay)) /\ Entry(kind, time, delay).kind = kind
    BY <1>2 DEF Issue, Entry
  <2>2. /\ DOMAIN journal = 1 .. Len(journal) /\ DOMAIN journal' = 1 .. (Len(journal) + 1)
        /\ \A p \in 1 .. Len(journal) : journal'[p] = journal[p]
        /\ journal'[Len(journal) + 1].kind = kind
    BY <1>1, <2>1
  <2> QED BY <1>1, <2>2 DEF Checks, Positions
<1>3. ASSUME NEW entry, LastIssued, Complete(entry), entry.kind = journal[Len(journal)].kind
      PROVE  Checks' = Checks
  <2>1. DOMAIN journal' = DOMAIN journal /\ \A p \in DOMAIN journal : journal'[p].kind = journal[p].kind
    BY <1>1, <1>3 DEF Complete
  <2> QED BY <2>1 DEF Checks, Positions
<1>4. LastIssued => journal[Len(journal)] \in EntryType
  BY <1>1 DEF LastIssued
<1>5. ~(CompleteClock \/ CompleteCheck \/ FireTimer \/ Cancel)
  BY <1>3, <1>4 DEF CompleteClock, CompleteCheck, FireTimer, Cancel, Executing, EntryType
<1>6. ~(IssueClock \/ IssueSleep)
  BY <1>2 DEF IssueClock, IssueSleep
<1>7. journal' # journal
  BY DEF Checks, Positions
<1> QED BY <1>5, <1>6, <1>7
  DEF Next, AwaitStart, AwaitCheck, AwaitRemaining, AwaitSleep, AwaitWake, Await, Return,
      Crash, Tick, StepBack, vars

(* poll.rs:41, "each later check waits this long after the previous check   *)
(* finishes": over any crashes and replays, with or without limits, a check *)
(* is begun a full interval after the one before it ended, unless the clock *)
(* stepped back; no sleep cut short by the deadline is followed by one.     *)
THEOREM ChecksAreSpaced == Spec => ChecksSpaced
<1>1. ASSUME Replay, Ledger, Spaced, [Next]_vars
      PROVE  [Cardinality(Checks') > Cardinality(Checks) /\ Checks # {} /\ backward = 0 =>
                clock >= checkedAt + poller.interval \/ clock >= MaxTime]_vars
  <2> SUFFICES ASSUME Cardinality(Checks') > Cardinality(Checks), Checks # {}, backward = 0
               PROVE  clock >= checkedAt + poller.interval \/ clock >= MaxTime
    OBVIOUS
  <2>1. Checks' # Checks
    <3>1. Checks \subseteq 1 .. Len(journal)
      BY <1>1 DEF Replay, Shape, Checks, Positions
    <3>2. IsFiniteSet(1 .. Len(journal))
      <4>1. 1 \in Int /\ Len(journal) \in Int
        BY <1>1, Standing
      <4> QED BY <4>1, FS_Interval, Zenon
    <3>3. Cardinality(Checks) \in Nat
      BY <3>1, <3>2, FS_Subset, FS_CardinalityType
    <3> QED BY <3>3
  <2>2. IssueCheck
    BY <1>1, <2>1, ChecksGrow
  <2>3. Len(journal) = Len(trail) - 1 /\ Furthest.pc = "check"
    <3>1. local = Furthest /\ Len(journal) = Len(trail) - 1 /\ local \in LocalType
      BY <1>1, <2>2, Standing DEF IssueCheck, Issue
    <3>2. KindOf(local.pc) = "check"
      BY <2>2 DEF IssueCheck, Issue
    <3> QED BY <3>1, <3>2 DEF KindOf
  <2>4. Checks = Past("check") /\ ~Pending
    BY <1>1, <2>3, SpacedTypes DEF Checks, Positions, Past, Pending, Replay, Shape
  <2> QED BY <1>1, <2>3, <2>4 DEF Spaced, Due
<1> QED BY <1>1, AlwaysReplay, LedgerInit, LedgerNext, SpacedInit, SpacedNext, PTL DEF Spec, ChecksSpaced
-----------------------------------------------------------------------------
(* The refinement: what one more entry does to the furthest point reached  *)
(* is a step of the poll that never crashes, or nothing it can see.        *)
LEMMA FrontierStep ==
  ASSUME Replay, poller' = poller,
         Furthest.pc # "ended", NEW e \in EntryType, NEW p \in Nat,
         Furthest' = StepOf(Furthest, e, p)
  PROVE  [Promised!Next]_(Promised!pollVars)
<1> DEFINE l == Furthest
           m == Furthest'
<1>1. /\ l \in LocalType /\ l.outcome = "none" /\ l.pc # "ended"
      /\ Limited => l.left >= 1
      /\ ~Timed => l.pc \notin {"start", "remaining", "wake"}
  BY DEF Replay, Shape, Furthest, GoodLocal, LeftOK, PcOK, TimedPc
<1>2. /\ m = StepOf(l, e, p) /\ poller' = poller /\ e.time \in Nat
      /\ poller.interval \in Nat \ {0} /\ (Timed => poller.timeout \in Nat)
  BY PollerFields DEF Replay, EntryType
<1> HIDE DEF l, m
<1> USE DEF LocalType, Outcomes, StageOf
<1>3. CASE e.status = "cancelled"
  <2>1. m = [l EXCEPT !.pc = "ended", !.outcome = "Cancelled"]
    BY <1>2, <1>3 DEF StepOf, Ended
  <2> QED BY <1>1, <1>2, <2>1 DEF Promised!Next, Promised!Refuse, l, m
<1>4. CASE e.status # "cancelled" /\ l.pc = "start"
  <2>1. m = IF e.time + poller.timeout > TimerMax THEN [l EXCEPT !.pc = "ended", !.outcome = "BadDeadline"]
            ELSE [l EXCEPT !.pc = "check", !.at = e.time + poller.timeout, !.latest = e.time]
    BY <1>2, <1>4 DEF StepOf, OnStart, Ended
  <2> QED BY <1>1, <1>2, <1>4, <2>1 DEF Promised!Next, Promised!Refuse, Promised!Start, l, m
<1>5. CASE e.status # "cancelled" /\ l.pc = "check"
  <2>1. m = OnCheck(l, e.verdict, p)
    BY <1>2, <1>5 DEF StepOf
  <2>2. CASE e.verdict \in {"break", "error"}
    <3>1. m.pc = "ended" /\ m.outcome \in {"Finished", "CheckFailed"} /\ m.left = l.left /\ m.at = l.at /\ m.latest = l.latest
      BY <1>1, <2>1, <2>2 DEF OnCheck, Ended
    <3> QED BY <1>1, <1>2, <1>5, <3>1 DEF Promised!Next, Promised!Decide, l, m
  <2>3. CASE e.verdict \notin {"break", "error"}
    <3> DEFINE n == IF Limited THEN l.left - 1 ELSE l.left
    <3>1. m = OnContinue(l, p) /\ n \in Nat
      BY <1>1, <2>1, <2>3 DEF OnCheck
    <3>2. /\ m.left = n /\ m.at = l.at /\ m.latest = l.latest
          /\ IF Limited /\ n = 0 THEN m.pc = "ended" /\ m.outcome = "AttemptsExhausted"
             ELSE IF poller.timeout = 0 THEN m.pc = "ended" /\ m.outcome = "TimedOut"
             ELSE m.pc \in {"remaining", "sleep"} /\ m.outcome = l.outcome
      BY <1>1, <3>1 DEF OnContinue, Ended
    <3>3. CASE Limited /\ n = 0
      BY <1>1, <1>2, <1>5, <3>2, <3>3 DEF Promised!Next, Promised!Exhaust, Limited, l, m
    <3>4. CASE ~(Limited /\ n = 0)
      <4>1. Promised!SpendAttempt
        BY <1>1, <3>2, <3>4 DEF Promised!SpendAttempt, Limited, l, m
      <4>2. CASE poller.timeout = 0
        BY <1>1, <1>2, <1>5, <3>2, <3>4, <4>1, <4>2 DEF Promised!Next, Promised!CheckOnce, l, m
      <4>3. CASE poller.timeout # 0
        BY <1>1, <1>2, <1>5, <3>2, <3>4, <4>1, <4>3 DEF Promised!Next, Promised!GoOn, l, m
      <4> QED BY <4>2, <4>3
    <3> QED BY <3>3, <3>4
  <2> QED BY <2>2, <2>3
<1>6. CASE e.status # "cancelled" /\ l.pc \in {"remaining", "wake"}
  <2>1. Timed /\ poller.timeout \in Nat
    BY <1>1, <1>2, <1>6
  <2>2. /\ m.left = l.left /\ m.at = l.at
        /\ m.latest \in Nat /\ m.latest >= l.latest
        /\ IF m.latest < m.at THEN m.outcome = l.outcome /\ m.pc = IF l.pc = "wake" THEN "check" ELSE "sleep"
           ELSE m.outcome = "TimedOut" /\ m.pc = "ended"
    BY <1>1, <1>2, <1>6 DEF StepOf, OnRemaining, OnWake, Observed, Remaining, Later, Ended
  <2>3. CASE m.latest < m.at /\ l.pc = "wake"
    BY <1>1, <1>2, <2>1, <2>2, <2>3 DEF Promised!Next, Promised!Recheck, Timed, l, m
  <2>4. CASE m.latest < m.at /\ l.pc = "remaining"
    BY <1>1, <1>2, <2>1, <2>2, <2>4 DEF Promised!Next, Promised!Observe, Timed, l, m
  <2>5. CASE ~(m.latest < m.at)
    <3>1. m.latest >= m.at
      BY <1>1, <2>2, <2>5
    <3> QED BY <1>1, <1>2, <1>6, <2>1, <2>2, <2>5, <3>1 DEF Promised!Next, Promised!Expire, Timed, l, m
  <2> QED BY <1>6, <2>3, <2>4, <2>5
<1>7. CASE e.status # "cancelled" /\ l.pc = "sleep"
  <2>1. m = [l EXCEPT !.pc = IF Timed THEN "wake" ELSE "check"]
    BY <1>2, <1>7 DEF StepOf, OnSlept
  <2>2. CASE Timed
    BY <1>1, <1>2, <1>7, <2>1, <2>2 DEF Promised!pollVars, l, m
  <2>3. CASE ~Timed
    BY <1>1, <1>2, <1>7, <2>1, <2>3 DEF Promised!Next, Promised!Recheck, Timed, l, m
  <2> QED BY <2>2, <2>3
<1> QED BY <1>1, <1>3, <1>4, <1>5, <1>6, <1>7

(* A step that leaves the trail alone is not seen. *)
LEMMA UnseenStep ==
  ASSUME UNCHANGED <<poller, trail>>
  PROVE  UNCHANGED Promised!pollVars
  BY DEF Promised!pollVars, Furthest, StageOf

(* An await takes a replayed entry, which is not seen, or the first new one. *)
LEMMA AwaitStep ==
  ASSUME Replay, Replay', NEW pc, NEW next, Await(pc, next),
         journal[pos + 1].status # "cancelled" => next = StepOf(local, journal[pos + 1], pos + 1)
  PROVE  [Promised!Next]_(Promised!pollVars)
<1>1. /\ poller' = poller /\ pos \in Nat /\ pos < Len(journal) /\ local.pc # "ended"
      /\ local = trail[pos + 1] /\ Len(trail) \in Nat \ {0}
  BY Standing DEF Await, Running, Replay, Scalars
<1>2. local' = StepOf(local, journal[pos + 1], pos + 1)
  BY DEF Await, StepOf
<1>3. CASE pos + 1 = Len(trail)
  <2>1. trail' = Append(trail, local') /\ trail \in Seq(LocalType) /\ journal[pos + 1] \in EntryType
    BY <1>1, <1>3 DEF Await, Replay, Shape
  <2>2. Furthest = local /\ Furthest' = local'
    BY <1>1, <1>3, <2>1 DEF Furthest
  <2> QED BY <1>1, <1>2, <2>1, <2>2, FrontierStep
<1>4. CASE pos + 1 # Len(trail)
  BY <1>1, <1>4, UnseenStep DEF Await
<1> QED BY <1>3, <1>4

(* Every step of the poller is one of the poll, or is not seen. *)
LEMMA PromisedStep ==
  ASSUME Replay, Replay', [Next]_vars
  PROVE  [Promised!Next]_(Promised!pollVars)
<1>1. CASE AwaitStart
  BY <1>1, AwaitStep DEF AwaitStart, Await, StepOf
<1>2. CASE AwaitCheck
  BY <1>2, AwaitStep DEF AwaitCheck, Await, StepOf
<1>3. CASE AwaitRemaining
  BY <1>3, AwaitStep DEF AwaitRemaining, Await, StepOf
<1>4. CASE AwaitSleep
  BY <1>4, AwaitStep DEF AwaitSleep, Await, StepOf
<1>5. CASE AwaitWake
  BY <1>5, AwaitStep DEF AwaitWake, Await, StepOf
<1>6. CASE UNCHANGED <<poller, trail>>
  BY <1>6, UnseenStep
<1>7. CASE IssueClock \/ IssueCheck \/ IssueSleep
  BY <1>6, <1>7 DEF IssueClock, IssueCheck, IssueSleep, Issue
<1>8. CASE CompleteClock \/ CompleteCheck \/ FireTimer \/ Cancel
  BY <1>6, <1>8 DEF CompleteClock, CompleteCheck, FireTimer, Cancel
<1>9. CASE Return \/ Crash \/ Tick \/ StepBack \/ UNCHANGED vars
  BY <1>6, <1>9 DEF Return, Crash, Tick, StepBack, vars
<1> QED BY <1>1, <1>2, <1>3, <1>4, <1>5, <1>7, <1>8, <1>9 DEF Next

(* The durable loop implements the poll its documentation describes:       *)
(* whatever is lost and replayed, and whatever the clock does, the         *)
(* furthest point any attempt reached moves as a poll without crashes does. *)
THEOREM PromiseIsKept == Spec => KeepsPromise
<1>1. Init => Promised!Init
  BY DEF Init, Promised!Init, Furthest, Fresh, StageOf, Timed, Limited
<1>2. Replay /\ Replay' /\ [Next]_vars => [Promised!Next]_(Promised!pollVars)
  BY PromisedStep
<1> QED BY <1>1, <1>2, AlwaysReplay, PTL DEF Spec, KeepsPromise, Promised!Spec

-----------------------------------------------------------------------------
(* The counter's wait, for any threshold, amounts and bounds: it answers     *)
(* what the counter held. Every step of the counter is a step of its poller  *)
(* or a stutter, so that the replay invariant holds of it too.               *)

(* The checks whose verdict is durable. *)
Told == {p \in 1 .. Len(journal) : journal[p].kind = "check" /\ journal[p].status = "completed"}

(* The counter only grows, by what was added to it. *)
Sums == value \in Nat /\ value \in sums /\ sums \subseteq Nat /\ \A s \in sums : s <= value

(* The key is held from the read to the write. *)
Adds ==
  adding # None =>
    /\ adding \in [amount : Nat, step : {"get", "set", "return"}, got : Nat]
    /\ adding.step = "set" => adding.got = value

Reads ==
  /\ seen = [p \in DOMAIN seen |-> seen[p]]
  /\ DOMAIN seen = Told
  /\ \A p \in Told :
       /\ seen[p] \in sums
       /\ journal[p].verdict = IF seen[p] >= Threshold THEN "break" ELSE "continue"

(* A read that comes once the counter has reached the threshold sees it. *)
Reached ==
  /\ looked = None => value < Threshold
  /\ looked # None =>
       /\ looked \in Nat /\ value >= Threshold /\ looked <= Cardinality(DOMAIN seen)
       /\ looked < Cardinality(DOMAIN seen) => \E p \in DOMAIN seen : seen[p] >= Threshold

(* The check the loop remembers as its last is one of them. *)
Remembered ==
  /\ Furthest.last # 0 =>
       /\ Furthest.last \in 1 .. (Len(trail) - 1)
       /\ journal[Furthest.last].kind = "check" /\ journal[Furthest.last].status = "completed"
  /\ Furthest.pc \in {"remaining", "sleep", "wake"} \/ Furthest.outcome = "TimedOut" =>
       Furthest.last # 0

Spoken ==
  answer # None =>
    /\ result # "none"
    /\ answer.value \in sums
    /\ answer.code = 200 => answer.value >= Threshold
    /\ answer.code = 408 => answer.value < Threshold /\ \A p \in DOMAIN seen : seen[p] < Threshold

Tally == Sums /\ Adds /\ Reads /\ Reached /\ Remembered /\ Spoken
-----------------------------------------------------------------------------
(* The poll inside the counter is the poller. *)
LEMMA PollsStep == [CounterNext]_counterVars => [Next]_vars
<1>1. Polls \/ Check \/ Answer => Next
  BY DEF Polls, Check, Answer, Next
<1>2. (\E amount \in Amounts : Enter(amount)) \/ Get \/ LoseRead \/ Set \/ Leave => UNCHANGED vars
  BY DEF Enter, Get, LoseRead, Set, Leave
<1>3. UNCHANGED counterVars => UNCHANGED vars
  BY DEF counterVars
<1> QED BY <1>1, <1>2, <1>3 DEF CounterNext

(* ... from its first state on. *)
LEMMA PollsInit == CounterInit => Replay
  BY ReplayInit DEF CounterInit

(* The trail stays while what was awaited does, or it grows by one entry. *)
LEMMA TrailStep ==
  ASSUME Replay, [Next]_vars
  PROVE  \/ /\ trail' = trail
            /\ \A p \in 1 .. (Len(trail) - 1) : journal'[p] = journal[p]
         \/ /\ journal' = journal /\ Len(journal) = Len(trail)
            /\ journal[Len(trail)].status # "issued"
            /\ trail' = Append(trail, StepOf(Furthest, journal[Len(trail)], Len(trail)))
<1> DEFINE stays == /\ trail' = trail
                    /\ \A p \in 1 .. (Len(trail) - 1) : journal'[p] = journal[p]
           grows == /\ journal' = journal /\ Len(journal) = Len(trail)
                    /\ journal[Len(trail)].status # "issued"
                    /\ trail' = Append(trail, StepOf(Furthest, journal[Len(trail)], Len(trail)))
<1>0. /\ Len(journal) \in Nat /\ Len(trail) \in Nat \ {0} /\ pos \in Nat
      /\ journal \in Seq(EntryType)
      /\ Len(journal) = Len(trail) \/ Len(journal) = Len(trail) - 1
  BY Standing DEF Replay, Scalars, Shape
<1>1. ASSUME NEW kind, NEW time, NEW delay, Issue(kind, time, delay) PROVE stays
  <2>1. journal' = Append(journal, Entry(kind, time, delay)) /\ trail' = trail
    BY <1>1 DEF Issue
  <2>2. Len(journal) = Len(trail) - 1
    BY <1>1, Standing DEF Issue
  <2> QED BY <1>0, <2>1, <2>2
<1>2. ASSUME NEW entry, LastIssued, Complete(entry), trail' = trail PROVE stays
  <2>1. Len(journal) = Len(trail)
    BY <1>2, Standing
  <2> QED BY <1>0, <1>2, <2>1 DEF Complete
<1>3. ASSUME NEW pc, NEW next, Await(pc, next),
             journal[pos + 1].status # "cancelled" => next = StepOf(local, journal[pos + 1], pos + 1)
      PROVE  stays \/ grows
  <2>1. /\ journal' = journal /\ pos < Len(journal) /\ journal[pos + 1].status # "issued"
        /\ trail' = IF pos + 1 = Len(trail) THEN Append(trail, local') ELSE trail
    BY <1>3 DEF Await
  <2>2. local' = StepOf(local, journal[pos + 1], pos + 1) /\ local = trail[pos + 1]
    BY <1>3, Standing DEF Await, StepOf
  <2>3. CASE pos + 1 = Len(trail)
    <3>1. Len(journal) = Len(trail) /\ local = Furthest
      BY <1>0, <2>1, <2>2, <2>3 DEF Furthest
    <3> QED BY <2>1, <2>2, <2>3, <3>1
  <2>4. CASE pos + 1 # Len(trail)
    BY <2>1, <2>4
  <2> QED BY <2>3, <2>4
<1>4. CASE IssueClock \/ IssueCheck \/ IssueSleep
  <2> HIDE DEF stays, grows
  <2> QED BY <1>1, <1>4 DEF IssueClock, IssueCheck, IssueSleep, stays, grows
<1>5. CASE CompleteClock \/ CompleteCheck \/ FireTimer \/ Cancel
  <2>1. LastIssued /\ trail' = trail /\ \E entry : Complete(entry)
    BY <1>5 DEF CompleteClock, CompleteCheck, FireTimer, Cancel, Executing
  <2> QED BY <1>2, <2>1
<1>6. CASE AwaitStart \/ AwaitCheck \/ AwaitRemaining \/ AwaitSleep \/ AwaitWake
  <2>1. PICK pc, next : /\ Await(pc, next)
                        /\ journal[pos + 1].status # "cancelled" =>
                             next = StepOf(local, journal[pos + 1], pos + 1)
    BY <1>6 DEF AwaitStart, AwaitCheck, AwaitRemaining, AwaitSleep, AwaitWake, Await, StepOf
  <2> QED BY <1>3, <2>1
<1>7. CASE Return \/ Crash \/ Tick \/ StepBack \/ UNCHANGED vars
  BY <1>7 DEF Return, Crash, Tick, StepBack, vars
<1> QED BY <1>4, <1>5, <1>6, <1>7 DEF Next

(* The remembered check stays with the trail, and with each further entry. *)
LEMMA RememberedStep ==
  ASSUME Replay, Remembered, [Next]_vars
  PROVE  Remembered'
<1>0. /\ Len(trail) \in Nat \ {0} /\ trail \in Seq(LocalType) /\ GoodLocal(Furthest)
      /\ PollerType /\ journal \in Seq(EntryType)
  BY Standing DEF Replay, Shape, Furthest
<1>1. CASE /\ trail' = trail
           /\ \A p \in 1 .. (Len(trail) - 1) : journal'[p] = journal[p]
  BY <1>1 DEF Remembered, Furthest
<1>2. CASE /\ journal' = journal /\ Len(journal) = Len(trail)
           /\ journal[Len(trail)].status # "issued"
           /\ trail' = Append(trail, StepOf(Furthest, journal[Len(trail)], Len(trail)))
  <2> DEFINE n == Len(trail)
             l == Furthest
             e == journal[n]
             m == StepOf(l, e, n)
  <2>1. e \in EntryType /\ e.kind = KindOf(l.pc) /\ l.pc # "ended" /\ e.status # "issued" /\ n \in Nat /\ n # 0
    BY <1>0, <1>2 DEF Replay, Shape, Furthest
  <2>2. GoodLocal(m) /\ m \in LocalType
    BY <1>0, <2>1, StepGood DEF GoodLocal
  <2>3. Furthest' = m /\ Len(trail') = n + 1
    <3> HIDE DEF m, l, e
    <3> QED BY <1>0, <1>2, <2>2 DEF Furthest, l, e, m
  <2>4. /\ l \in LocalType /\ l.outcome = "none"
    BY <1>0, <2>1 DEF GoodLocal, PcOK
  <2>5. \/ /\ m.last = l.last
           /\ m.pc \in {"remaining", "sleep", "wake"} \/ m.outcome = "TimedOut" =>
                l.pc \in {"remaining", "sleep", "wake"}
        \/ m.last = n /\ l.pc = "check" /\ e.status = "completed"
    <3>1. e.status = "cancelled" \/ e.status = "completed"
      BY <2>1 DEF EntryType
    <3>2. CASE e.status = "cancelled"
      BY <2>4, <3>2 DEF StepOf, Ended, LocalType
    <3>3. CASE e.status = "completed" /\ l.pc = "start"
      BY <2>4, <3>3 DEF StepOf, OnStart, Ended, LocalType
    <3>4. CASE e.status = "completed" /\ l.pc = "check"
      BY <2>4, <3>4 DEF StepOf, OnCheck, OnContinue, Ended, LocalType
    <3>5. CASE e.status = "completed" /\ l.pc = "remaining"
      BY <2>4, <3>5 DEF StepOf, OnRemaining, Observed, Ended, LocalType
    <3>6. CASE e.status = "completed" /\ l.pc = "sleep"
      BY <2>4, <3>6 DEF StepOf, OnSlept, LocalType
    <3>7. CASE e.status = "completed" /\ l.pc = "wake"
      BY <2>4, <3>7 DEF StepOf, OnWake, Observed, Ended, LocalType
    <3> QED BY <2>1, <2>4, <3>1, <3>2, <3>3, <3>4, <3>5, <3>6, <3>7 DEF LocalType
  <2> HIDE DEF m
  <2>6. CASE m.last = n /\ l.pc = "check" /\ e.status = "completed"
    BY <1>2, <2>1, <2>3, <2>6 DEF Remembered, KindOf
  <2>7. CASE /\ m.last = l.last
             /\ m.pc \in {"remaining", "sleep", "wake"} \/ m.outcome = "TimedOut" =>
                  l.pc \in {"remaining", "sleep", "wake"}
    BY <1>2, <2>1, <2>3, <2>7 DEF Remembered
  <2> QED BY <2>5, <2>6, <2>7
<1> QED BY <1>1, <1>2, TrailStep
-----------------------------------------------------------------------------
(* Before the wait: nothing read, one amount. *)
LEMMA TallyInit == CounterInit => Tally
<1> SUFFICES ASSUME CounterInit PROVE Tally
  OBVIOUS
<1>1. journal = <<>> /\ trail = <<Fresh>> /\ Furthest = Fresh /\ Len(journal) = 0
  BY DEF CounterInit, Init, Furthest
<1>2. DOMAIN seen = {} /\ Told = {} /\ seen = [p \in DOMAIN seen |-> seen[p]]
  BY <1>1 DEF CounterInit, Told
<1>3. Sums /\ value \in Nat
  BY CounterAssumption DEF CounterInit, Sums
<1>4. Adds /\ Spoken
  BY DEF CounterInit, Adds, Spoken
<1>5. Reads
  BY <1>2 DEF Reads
<1>6. Reached
  <2>1. Cardinality(DOMAIN seen) = 0
    BY <1>2, FS_EmptySet
  <2> QED BY <1>3, <2>1, CounterAssumption, PollerAssumption DEF CounterInit, Reached
<1>7. Remembered
  BY <1>1 DEF Remembered, Fresh
<1> QED BY <1>3, <1>4, <1>5, <1>6, <1>7 DEF Tally

(* The largest of the sums is the value. *)
LEMMA SumIsValue ==
  ASSUME Sums
  PROVE  Sum = value
<1>1. \E s \in sums : \A other \in sums : other <= s
  BY DEF Sums
<1>2. Sum \in sums /\ \A other \in sums : other <= Sum
  BY <1>1 DEF Sum
<1> QED BY <1>2 DEF Sums

(* What the wait read is as many values as it has durable checks. *)
LEMMA SeenFinite ==
  ASSUME Replay, Reads
  PROVE  IsFiniteSet(DOMAIN seen) /\ Cardinality(DOMAIN seen) \in Nat
<1>1. IsFiniteSet(1 .. Len(journal))
  BY Standing, FS_Interval
<1>2. DOMAIN seen \subseteq 1 .. Len(journal)
  BY DEF Reads, Told
<1> QED BY <1>1, <1>2, FS_Subset, FS_CardinalityType

(* An addition moves the value, its sums and the mark of the threshold. *)
LEMMA AddingStep ==
  ASSUME Replay, Tally, (\E amount \in Amounts : Enter(amount)) \/ Get \/ LoseRead \/ Set \/ Leave
  PROVE  Sums' /\ Adds' /\ Reads' /\ Reached' /\ Spoken'
<1>0. /\ Sums /\ Adds /\ Reads /\ Reached /\ Spoken
      /\ UNCHANGED <<journal, result, seen, answer>>
  BY DEF Tally, Enter, Get, LoseRead, Set, Leave, vars
<1>1. Told' = Told
  BY <1>0 DEF Told
<1>2. sums \subseteq sums'
  BY DEF Enter, Get, LoseRead, Set, Leave
<1>3. Reads' /\ Spoken'
  BY <1>0, <1>1, <1>2 DEF Reads, Spoken
<1>4. CASE ~ Set
  <2>1. UNCHANGED <<value, sums, looked>>
    BY <1>4 DEF Enter, Get, LoseRead, Set, Leave
  <2>2. Sums' /\ Reached'
    BY <1>0, <2>1 DEF Sums, Reached
  <2>3. CASE \E amount \in Amounts : Enter(amount)
    <3>1. PICK amount \in Amounts : adding' = [amount |-> amount, step |-> "get", got |-> 0]
      BY <2>3 DEF Enter
    <3>2. amount \in Nat
      BY CounterAssumption
    <3>3. adding' \in [amount : Nat, step : {"get", "set", "return"}, got : Nat] /\ adding'.step # "set"
      BY <3>1, <3>2
    <3> QED BY <1>3, <2>2, <3>3 DEF Adds
  <2>4. CASE Get
    <3>1. /\ adding \in [amount : Nat, step : {"get", "set", "return"}, got : Nat] /\ value \in Nat
          /\ adding' = [adding EXCEPT !.step = "set", !.got = value] /\ value' = value
      BY <1>0, <2>4 DEF Get, Adds, Sums
    <3>2. adding' \in [amount : Nat, step : {"get", "set", "return"}, got : Nat] /\ adding'.got = value'
      BY <3>1
    <3> QED BY <1>3, <2>2, <3>2 DEF Adds
  <2>5. CASE LoseRead
    <3>1. /\ adding \in [amount : Nat, step : {"get", "set", "return"}, got : Nat]
          /\ adding' = [adding EXCEPT !.step = "get", !.got = 0]
      BY <1>0, <2>5 DEF LoseRead, Adds
    <3>2. adding' \in [amount : Nat, step : {"get", "set", "return"}, got : Nat] /\ adding'.step = "get"
      BY <3>1
    <3> QED BY <1>3, <2>2, <3>2 DEF Adds
  <2>6. CASE Leave
    BY <1>3, <2>2, <2>6 DEF Leave, Adds
  <2> QED BY <1>3, <1>4, <2>2, <2>3, <2>4, <2>5, <2>6
<1>5. CASE Set
  <2> DEFINE total == adding.got + adding.amount
  <2>1. /\ adding.got = value /\ adding.amount \in Nat /\ Sum = value /\ value \in Nat
        /\ total \in Nat /\ total = Sum + adding.amount /\ total >= value
    BY <1>0, <1>5, SumIsValue DEF Set, Adds, Sums
  <2>2. Adds'
    BY <1>0, <1>5 DEF Set, Adds
  <2>3. CASE total > Widest
    <3>1. UNCHANGED <<value, sums, looked>>
      BY <1>5, <2>3 DEF Set
    <3> QED BY <1>0, <1>3, <2>2, <3>1 DEF Sums, Reached
  <2>4. CASE ~ (total > Widest)
    <3>1. /\ value' = total /\ sums' = sums \cup {total}
          /\ looked' = IF looked = None /\ total >= Threshold THEN Cardinality(DOMAIN seen) ELSE looked
      BY <1>5, <2>1, <2>4 DEF Set
    <3> HIDE DEF total
    <3>2. Sums'
      <4>1. \A s \in sums' : s <= value' /\ s \in Nat
        <5>1. \A s \in sums : s \in Nat /\ s <= value
          BY <1>0 DEF Sums
        <5>2. \A s \in sums : s <= total
          BY <2>1, <5>1
        <5> QED BY <2>1, <3>1, <5>1, <5>2
      <4> QED BY <2>1, <3>1, <4>1 DEF Sums
    <3>3. Cardinality(DOMAIN seen) \in Nat /\ Threshold \in Nat /\ None \notin Nat
      BY <1>0, SeenFinite, CounterAssumption, PollerAssumption
    <3>4. Reached'
      BY <1>0, <2>1, <3>1, <3>3 DEF Reached
    <3> QED BY <1>3, <2>2, <3>2, <3>4
  <2> QED BY <2>3, <2>4
<1> QED BY <1>4, <1>5

(* No other step of the poll makes a check durable. *)
LEMMA PollsTold ==
  ASSUME Replay, Polls
  PROVE  Told' = Told /\ \A p \in Told : journal'[p] = journal[p]
<1>0. journal \in Seq(EntryType) /\ Len(journal) \in Nat
  BY Standing DEF Replay, Shape
<1>1. ASSUME NEW kind, NEW time, NEW delay, Issue(kind, time, delay)
      PROVE  Told' = Told /\ \A p \in Told : journal'[p] = journal[p]
  <2>1. journal' = Append(journal, Entry(kind, time, delay))
    BY <1>1 DEF Issue
  <2>2. Len(journal') = Len(journal) + 1 /\ journal'[Len(journal) + 1].status = "issued"
        /\ \A p \in 1 .. Len(journal) : journal'[p] = journal[p]
    BY <1>0, <2>1 DEF Entry
  <2> QED BY <1>0, <2>2 DEF Told
<1>2. ASSUME NEW entry, Complete(entry), LastIssued, entry.kind # "check" \/ entry.status # "completed"
      PROVE  Told' = Told /\ \A p \in Told : journal'[p] = journal[p]
  <2>1. /\ Len(journal') = Len(journal) /\ Len(journal) >= 1 /\ journal'[Len(journal)] = entry
        /\ \A p \in 1 .. Len(journal) : p # Len(journal) => journal'[p] = journal[p]
        /\ journal[Len(journal)].status = "issued"
    BY <1>0, <1>2 DEF Complete, LastIssued
  <2> QED BY <1>0, <1>2, <2>1 DEF Told
<1>3. CASE IssueClock \/ IssueCheck \/ IssueSleep
  BY <1>1, <1>3 DEF IssueClock, IssueCheck, IssueSleep
<1>4. CASE CompleteClock \/ FireTimer
  <2> DEFINE last == journal[Len(journal)]
  <2>1. LastIssued /\ last \in EntryType /\ last.kind # "check"
    BY <1>0, <1>4 DEF CompleteClock, FireTimer, Executing, LastIssued
  <2>2. \E entry : Complete(entry) /\ entry.kind = last.kind
    <3>1. CASE CompleteClock
      <4> DEFINE entry == [last EXCEPT !.status = "completed", !.time = clock]
      <4>1. Complete(entry)
        BY <3>1 DEF CompleteClock
      <4>2. entry.kind = last.kind
        BY <2>1 DEF EntryType
      <4> QED BY <4>1, <4>2
    <3>2. CASE FireTimer
      <4> DEFINE entry == [last EXCEPT !.status = "completed"]
      <4>1. Complete(entry)
        BY <3>2 DEF FireTimer
      <4>2. entry.kind = last.kind
        BY <2>1 DEF EntryType
      <4> QED BY <4>1, <4>2
    <3> QED BY <1>4, <3>1, <3>2
  <2> QED BY <1>2, <2>1, <2>2
<1>5. CASE Cancel
  <2> DEFINE entry == [journal[Len(journal)] EXCEPT !.status = "cancelled"]
  <2>1. LastIssued /\ Complete(entry)
    BY <1>5 DEF Cancel
  <2>2. journal[Len(journal)] \in EntryType
    BY <1>0, <2>1 DEF LastIssued
  <2>3. entry.status # "completed"
    BY <2>2 DEF EntryType
  <2> HIDE DEF entry
  <2> QED BY <1>2, <2>1, <2>3
<1>6. CASE \/ AwaitStart \/ AwaitCheck \/ AwaitRemaining \/ AwaitSleep \/ AwaitWake
           \/ Crash \/ Tick \/ StepBack
  <2>1. journal' = journal
    BY <1>6 DEF AwaitStart, AwaitCheck, AwaitRemaining, AwaitSleep, AwaitWake, Await, Crash, Tick, StepBack
  <2> QED BY <2>1 DEF Told
<1> QED BY <1>3, <1>4, <1>5, <1>6 DEF Polls

(* A step of the poll alone leaves what it read and said. *)
LEMMA PollsTally ==
  ASSUME Replay, Tally, Polls \/ UNCHANGED counterVars
  PROVE  Sums' /\ Adds' /\ Reads' /\ Reached' /\ Spoken'
<1>0. /\ Sums /\ Adds /\ Reads /\ Reached /\ Spoken
      /\ UNCHANGED <<value, adding, sums, looked, seen, answer>>
  BY DEF Tally, Polls, counterVars, counter
<1>1. Told' = Told /\ \A p \in Told : journal'[p] = journal[p]
  BY PollsTold DEF Told, counterVars, vars
<1>2. result' = result
  <2>1. CASE Polls
    BY <2>1 DEF Polls, IssueClock, IssueCheck, IssueSleep, Issue, CompleteClock, FireTimer, Cancel,
         AwaitStart, AwaitCheck, AwaitRemaining, AwaitSleep, AwaitWake, Await, Crash, Tick, StepBack
  <2> QED BY <2>1 DEF counterVars, vars
<1>3. Reads'
  BY <1>0, <1>1 DEF Reads
<1>4. Sums' /\ Adds' /\ Reached'
  BY <1>0 DEF Sums, Adds, Reached
<1>5. Spoken'
  BY <1>0, <1>2 DEF Spoken
<1> QED BY <1>3, <1>4, <1>5

(* A check reads the value, and is the first to see it where it is new. *)
LEMMA CheckTally ==
  ASSUME Replay, Tally, Check
  PROVE  Sums' /\ Adds' /\ Reads' /\ Reached' /\ Spoken'
<1> DEFINE n == Len(journal)
           last == journal[n]
<1>0. /\ Sums /\ Adds /\ Reads /\ Reached /\ Spoken
      /\ UNCHANGED <<value, adding, sums, looked, answer>>
  BY DEF Tally, Check, counter
<1>1. /\ journal \in Seq(EntryType) /\ n \in Nat /\ n >= 1
      /\ result = "none" /\ last.status = "issued" /\ last.kind = "check"
  BY Standing DEF Check, CompleteCheck, Executing, Running, LastIssued, Replay, Shape
<1>2. last \in EntryType
  BY <1>1
<1>3. PICK verdict \in {"continue", "break", "error"} :
        Complete([last EXCEPT !.status = "completed", !.verdict = verdict])
  BY DEF Check, CompleteCheck
<1>4. /\ Len(journal') = n /\ \A p \in 1 .. n : p # n => journal'[p] = journal[p]
      /\ journal'[n].kind = "check" /\ journal'[n].status = "completed"
  <2> DEFINE entry == [last EXCEPT !.status = "completed", !.verdict = verdict]
  <2>1. entry.kind = "check" /\ entry.status = "completed"
    BY <1>1, <1>2 DEF EntryType
  <2>2. journal' = [journal EXCEPT ![n] = entry]
    BY <1>3 DEF Complete
  <2> HIDE DEF entry
  <2> QED BY <1>1, <2>1, <2>2
<1>5. Told' = Told \cup {n} /\ n \notin Told
  BY <1>1, <1>4 DEF Told
<1>6. /\ seen' = [p \in DOMAIN seen \cup {n} |-> IF p = n THEN value ELSE seen[p]]
      /\ journal'[n].verdict = IF value >= Threshold THEN "break" ELSE "continue"
  BY DEF Check, Look
<1> HIDE DEF n, last
<1>7. /\ DOMAIN seen' = DOMAIN seen \cup {n} /\ n \notin DOMAIN seen
      /\ seen'[n] = value /\ \A p \in DOMAIN seen : seen'[p] = seen[p]
      /\ seen' = [p \in DOMAIN seen' |-> seen'[p]]
  BY <1>0, <1>5, <1>6 DEF Reads
<1>8. Reads'
  <2>1. \A p \in Told : journal'[p] = journal[p]
    BY <1>4, <1>5 DEF Told, n
  <2>2. value \in sums
    BY <1>0 DEF Sums
  <2> QED BY <1>0, <1>5, <1>6, <1>7, <2>1, <2>2 DEF Reads
<1>9. Reached'
  <2>1. /\ Cardinality(DOMAIN seen) \in Nat
        /\ Cardinality(DOMAIN seen') = Cardinality(DOMAIN seen) + 1
    BY <1>0, <1>7, SeenFinite, FS_AddElement
  <2>2. n \in DOMAIN seen'
    BY <1>7
  <2>3. value' = value /\ looked' = looked
    BY <1>0
  <2> QED BY <1>0, <1>7, <2>1, <2>2, <2>3 DEF Reached
<1>10. Spoken' /\ Sums' /\ Adds'
  BY <1>0, <1>1 DEF Spoken, Sums, Adds
<1> QED BY <1>8, <1>9, <1>10

(* An ended loop is where the furthest attempt got, and its journal is awaited. *)
LEMMA EndedStanding ==
  ASSUME Replay, local.pc = "ended"
  PROVE  /\ local = Furthest /\ Len(trail) = Len(journal) + 1
         /\ \A p \in 1 .. Len(journal) : Explained(p)
<1>1. /\ Len(journal) \in Nat /\ Len(trail) \in Nat \ {0} /\ pos \in Nat /\ pos < Len(trail)
      /\ Len(journal) = Len(trail) \/ Len(journal) = Len(trail) - 1
      /\ Len(journal) = Len(trail) => Furthest.pc # "ended"
      /\ \A p \in 1 .. (Len(trail) - 1) : Explained(p)
  BY Standing DEF Replay, Scalars, Shape, ReplayRebuilds
<1>2. CASE pos + 1 = Len(trail)
  BY <1>1, <1>2, Standing DEF Furthest
<1>3. CASE pos + 1 # Len(trail)
  BY <1>1, <1>3, Standing DEF Explained
<1> QED BY <1>2, <1>3
(* An answer is the last check's reading, or the one remembered. *)
LEMMA AnswerTally ==
  ASSUME Replay, Tally, Answer
  PROVE  Sums' /\ Adds' /\ Reads' /\ Reached' /\ Spoken'
<1>0. /\ Sums /\ Adds /\ Reads /\ Reached /\ Remembered
      /\ UNCHANGED <<value, adding, sums, looked, seen, journal>>
  BY DEF Tally, Answer, Return, counter
<1>1. Sums' /\ Adds' /\ Reads' /\ Reached'
  BY <1>0 DEF Sums, Adds, Reads, Reached, Told
<1>2. /\ local.pc = "ended" /\ result' = local.outcome /\ answer' = Answered(local.outcome)
      /\ local \in LocalType /\ GoodLocal(local) /\ journal \in Seq(EntryType)
      /\ Len(journal) \in Nat /\ trail[1] = Fresh
  BY Standing DEF Answer, Return, Replay, Shape
<1>3. /\ local = Furthest /\ Len(trail) = Len(journal) + 1
      /\ \A p \in 1 .. Len(journal) : Explained(p) /\ GoodLocal(trail[p])
  BY <1>2, EndedStanding DEF Replay, Shape
<1>4. \A p \in DOMAIN seen : /\ p \in 1 .. Len(journal) /\ journal[p].kind = "check" /\ journal[p].status = "completed"
                            /\ seen[p] \in sums /\ seen[p] \in Nat
                            /\ journal[p].verdict = IF seen[p] >= Threshold THEN "break" ELSE "continue"
  BY <1>0 DEF Reads, Told, Sums
(* A check that broke is the last entry: the loop ended there. *)
<1>5. ASSUME NEW p \in DOMAIN seen, seen[p] >= Threshold
      PROVE  p = Len(journal) /\ local.outcome = "Finished"
  <2>1. /\ trail[p].pc = "check" /\ journal[p].verdict = "break" /\ journal[p].status = "completed"
        /\ trail[p + 1] = StepOf(trail[p], journal[p], p) /\ trail[p] \in LocalType
    BY <1>3, <1>4, <1>5 DEF Explained, KindOf, GoodLocal, LocalType
  <2>2. trail[p + 1].pc = "ended" /\ trail[p + 1].outcome = "Finished"
    BY <2>1 DEF StepOf, OnCheck, Ended, LocalType
  <2>3. p = Len(journal)
    <3>1. p + 1 \in 1 .. Len(journal) => trail[p + 1].pc # "ended"
      BY <1>3 DEF Explained
    <3> QED BY <1>2, <1>4, <2>2, <3>1
  <2> QED BY <1>3, <2>2, <2>3 DEF Furthest
<1>6. CASE local.outcome = "Finished"
  <2> DEFINE n == Len(journal)
  <2>1. n >= 1 /\ n \in Nat
    BY <1>2, <1>3, <1>6 DEF Furthest, Fresh
  <2>2. /\ GoodLocal(trail[n]) /\ trail[n].pc # "ended" /\ Furthest = StepOf(trail[n], journal[n], n)
        /\ journal[n] \in EntryType /\ journal[n].status # "issued" /\ journal[n].kind = KindOf(trail[n].pc)
    BY <1>2, <1>3, <2>1 DEF Explained, Furthest
  <2>3. /\ trail[n].pc = "check" /\ journal[n].status = "completed" /\ journal[n].verdict = "break"
    <3> DEFINE l == trail[n]
               e == journal[n]
    <3>1. l \in LocalType /\ l.outcome = "none" /\ StepOf(l, e, n).outcome = "Finished"
      BY <1>3, <1>6, <2>2 DEF GoodLocal, PcOK
    <3>2. e.status = "completed"
      BY <2>2, <3>1 DEF StepOf, Ended, EntryType, LocalType
    <3> HIDE DEF l, e
    <3>3. l.pc = "check"
      BY <2>2, <3>1, <3>2
         DEF StepOf, OnStart, OnRemaining, OnSlept, OnWake, Observed, Ended, LocalType
    <3>4. e.verdict = "break"
      BY <2>2, <3>1, <3>2, <3>3 DEF StepOf, OnCheck, OnContinue, Ended, LocalType
    <3> QED BY <3>2, <3>3, <3>4 DEF l, e
  <2>4. n \in DOMAIN seen
    BY <1>0, <2>1, <2>2, <2>3 DEF Reads, Told, KindOf
  <2>5. LastCheck = n
    <3>1. n \in Checks /\ \A p \in Checks : p \in 1 .. n
      BY <1>2, <2>1, <2>2, <2>3 DEF Checks, Positions, KindOf
    <3>2. \E p \in Checks : \A q \in Checks : q <= p
      BY <2>1, <3>1
    <3>3. LastCheck \in Checks /\ \A q \in Checks : q <= LastCheck
      BY <3>2 DEF LastCheck
    <3> HIDE DEF n
    <3> QED BY <2>1, <3>1, <3>3
  <2>6. seen[n] >= Threshold
    BY <1>4, <2>3, <2>4
  <2>7. answer' = [code |-> 200, value |-> seen[n]]
    BY <1>2, <1>6, <2>5 DEF Answered
  <2> HIDE DEF n
  <2>8. answer'.code = 200 /\ answer'.value = seen[n]
    BY <2>7
  <2> QED BY <1>0, <1>1, <1>2, <1>4, <1>6, <2>4, <2>6, <2>8 DEF Spoken
<1>7. CASE local.outcome = "TimedOut"
  <2>1. /\ local.last \in Told
    BY <1>0, <1>3, <1>7 DEF Remembered, Told
  <2>2. /\ local.last \in DOMAIN seen
    BY <1>0, <2>1 DEF Reads
  <2>3. \A p \in DOMAIN seen : seen[p] < Threshold
    BY <1>4, <1>5, <1>7, CounterAssumption
  <2>4. answer' = [code |-> 408, value |-> seen[local.last]]
    BY <1>2, <1>7 DEF Answered
  <2>5. answer'.code = 408 /\ answer'.value = seen[local.last]
    BY <2>4
  <2> QED BY <1>0, <1>1, <1>2, <1>4, <1>7, <2>2, <2>3, <2>5 DEF Spoken
<1>8. CASE local.outcome \notin {"Finished", "TimedOut"}
  BY <1>1, <1>2, <1>8 DEF Answered, Spoken
<1> QED BY <1>6, <1>7, <1>8

(* The tally is kept by every step. *)
LEMMA TallyNext == Replay /\ Tally /\ [CounterNext]_counterVars => Tally'
<1> SUFFICES ASSUME Replay, Tally, [CounterNext]_counterVars PROVE Tally'
  OBVIOUS
<1>1. Remembered'
  BY PollsStep, RememberedStep DEF Tally
<1>2. Sums' /\ Adds' /\ Reads' /\ Reached' /\ Spoken'
  BY AddingStep, PollsTally, CheckTally, AnswerTally DEF CounterNext
<1> QED BY <1>1, <1>2 DEF Tally

(* For every poller, threshold and history of additions, attempts and      *)
(* clocks: a wait answers an amount the counter held, at the threshold or  *)
(* past it, and reports a timeout only if no read came once it was there.  *)
THEOREM WaitsAreTrue == CounterSpec => []WaitIsTrue
<1>1. Replay /\ Tally => WaitIsTrue
  <2> SUFFICES ASSUME Replay, Tally, answer # None
               PROVE  /\ answer.value \in sums
                      /\ answer.code = 200 => answer.value >= Threshold
                      /\ answer.code = 408 => answer.value < Threshold /\ looked \in {None, Cardinality(DOMAIN seen)}
    BY DEF WaitIsTrue
  <2>1. answer.code = 408 => looked \in {None, Cardinality(DOMAIN seen)}
    <3> SUFFICES ASSUME answer.code = 408, looked # None PROVE looked = Cardinality(DOMAIN seen)
      OBVIOUS
    <3>1. \A p \in DOMAIN seen : seen[p] < Threshold /\ seen[p] \in Nat
      BY DEF Tally, Spoken, Reads, Sums
    <3>2. ~ (looked < Cardinality(DOMAIN seen))
      BY <3>1, CounterAssumption DEF Tally, Reached
    <3>3. looked \in Nat /\ looked <= Cardinality(DOMAIN seen) /\ Cardinality(DOMAIN seen) \in Nat
      BY SeenFinite DEF Tally, Reached
    <3> QED BY <3>2, <3>3
  <2> QED BY <2>1 DEF Tally, Spoken
<1>2. CounterInit => Replay /\ Tally
  BY PollsInit, TallyInit
<1>3. Replay /\ Tally /\ [CounterNext]_counterVars => (Replay /\ Tally)'
  BY PollsStep, ReplayNext, TallyNext
<1> QED BY <1>1, <1>2, <1>3, PTL DEF CounterSpec
=============================================================================
