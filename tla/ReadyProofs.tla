---------------------------- MODULE ReadyProofs ----------------------------
(***************************************************************************)
(* Readiness for every deadline, every interval and every lateness: the    *)
(* exit of the child shows, and the deadline is fair. The invariant says   *)
(* how late anything is acted upon, that a retry's sleep ends halfway to   *)
(* the deadline, and what a server that is up has left of its time.        *)
(***************************************************************************)
EXTENDS Ready, TLAPS

(* poll_until sleeps no longer than remains, and near the deadline half of it. *)
LEMMA RetryDelayBounds ==
  ASSUME NEW interval \in Nat, NEW r \in Nat
  PROVE  /\ RetryDelay(interval, r) \in Nat /\ RetryDelay(interval, r) <= r
         /\ 2 * RetryDelay(interval, r) <= r + 1 \/ RetryDelay(interval, r) <= 1
  <1>1. (r + 1) \div 2 \in Nat /\ 2 * ((r + 1) \div 2) <= r + 1
    OBVIOUS
  <1> QED BY <1>1 DEF RetryDelay, Lesser, Greater

(* What is due has been due for no longer than Late. *)
OnTime ==
  Pending =>
    /\ now <= Deadline + Late /\ now <= tick + Late
    /\ probe = "sleeping" => answer = None /\ now <= wake + Late
    /\ answer # None => now <= since + Late

(* The first tick after an exit tells of it. *)
Watched ==
  /\ Exited <=> lostAt # None
  /\ lostAt # None => stage # "ready" /\ (Pending => tick <= lostAt + Inspect)

(* A sleep that began by now. *)
Halfway(t) == 2 * wake <= Deadline + 1 + t \/ wake <= t + 1

(* What the answers still to come may take to be acted upon. *)
Left == IF stage = "health" THEN 3 * Late ELSE IF stage = "sql" THEN 2 * Late ELSE Late

(* The server came up in time, and answers at once. *)
Deserves == upSince # None /\ ~faltered /\ Deadline - upSince > 9 * Late + 1

InTime ==
  IF probe = "sleeping" THEN wake + Late + Left < Deadline
  ELSE IF answer = None THEN now + Left < Deadline
  ELSE IF answer = "refused" THEN since <= upSince
  ELSE since + Left < Deadline

Fair ==
  /\ Pending /\ probe = "sleeping" => Halfway(now)
  /\ Pending /\ Deserves => InTime
  /\ stage = "expired" => ~Deserves

Inv == TypeOK /\ OnTime /\ Watched /\ Fair

-----------------------------------------------------------------------------
(* The numbers among the state. *)
LEMMA Numbers ==
  ASSUME TypeOK
  PROVE  /\ now \in Nat /\ since \in Nat /\ wake \in Nat /\ tick \in Nat
         /\ Deadline \in Nat /\ Late \in Nat /\ Inspect \in Nat
         /\ upSince # None => upSince \in Nat /\ upSince <= now
         /\ lostAt # None => lostAt \in Nat /\ lostAt <= now
         /\ since <= now /\ Left \in Nat /\ Left <= 3 * Late
  BY ReadyAssumption DEF TypeOK, Left

(* A sleep that ends halfway to the deadline leaves time enough after it. *)
LEMMA HalfwayLeaves ==
  ASSUME NEW ends \in Nat, NEW up \in Nat, NEW left \in Nat,
         2 * ends <= Deadline + 1 + up + Late \/ ends <= up + Late + 1,
         Deadline - up > 9 * Late + 1, left <= 3 * Late
  PROVE  ends + Late + left < Deadline
  BY ReadyAssumption

LEMMA InvInit == Init => Inv
<1> USE ReadyAssumption
<1>1. ASSUME Init PROVE TypeOK
  <2>1. now \in 0 .. MaxTime /\ since \in 0 .. now /\ wake \in 0 .. Deadline /\ tick \in 0 .. (now + Inspect)
    BY <1>1 DEF Init
  <2>2. /\ child \in {"none", "starting", "up", "exited"} /\ port \in {"nobody", "child", "other"}
        /\ stage \in Stages /\ probe \in {"asking", "sleeping"} /\ answer = None
        /\ lostAt = None /\ upSince = None /\ faltered \in BOOLEAN
    BY <1>1 DEF Init, Stages, Retried
  <2> QED BY <2>1, <2>2 DEF TypeOK
<1>2. ASSUME Init PROVE OnTime /\ Watched /\ Fair
  BY <1>2 DEF Init, OnTime, Watched, Fair, Pending, Exited, Deserves, Stages, Retried
<1> QED BY <1>1, <1>2 DEF Inv

(* The processes of the host: an exit is seen by the next tick, and what is  *)
(* under way when the server comes up was begun by then.                     *)
LEMMA InvHost == ASSUME Inv, Host PROVE Inv'
<1> USE ReadyAssumption DEF Inv, OnlyServer, probing, Pending
<1>1. CASE Bind
  BY <1>1 DEF Bind, TypeOK, OnTime, Watched, Fair, Exited, Deserves, Halfway, InTime, Left, Stages, Retried
<1>2. CASE Provision
  <2>1. /\ TypeOK' /\ OnTime' /\ Watched'
    BY <1>2 DEF Provision, TypeOK, OnTime, Watched, Exited, Stages, Retried
  <2>2. ASSUME Deserves' PROVE InTime'
    <3>1. /\ upSince' = now /\ UNCHANGED <<now, stage, probe, answer, since, wake>>
          /\ Deadline - now > 9 * Late + 1 /\ now \in Nat /\ since \in Nat /\ since <= now /\ wake \in Nat
          /\ Late \in Nat /\ Deadline \in Nat
      BY <1>2, <2>2 DEF Provision, Deserves, TypeOK
    <3>2. Left \in Nat /\ Left <= 3 * Late /\ Left' = Left
      BY <3>1 DEF Left
    <3>3. probe = "sleeping" => 2 * wake <= Deadline + 1 + now \/ wake <= now + 1
      BY <1>2 DEF Provision, Fair, Halfway
    <3>4. probe = "sleeping" => wake + Late + Left < Deadline
      BY <3>1, <3>2, <3>3, HalfwayLeaves
    <3> QED BY <3>1, <3>2, <3>4 DEF InTime
  <2> QED BY <1>2, <2>1, <2>2 DEF Provision, Fair, Halfway, Stages, Retried
<1>3. CASE Exit
  BY <1>3 DEF Exit, TypeOK, OnTime, Watched, Fair, Exited, Deserves, Halfway, Stages, Retried
<1>4. CASE Other
  BY <1>4 DEF Other, TypeOK, OnTime, Watched, Fair, Exited, Deserves, Halfway, InTime, Left, Stages, Retried
<1>5. CASE Answer
  <2>1. Possible \subseteq {"ok", "refused", "wrong"}
    BY DEF Possible
  <2>2. /\ answer' \in {"ok", "refused", "wrong"} /\ since' = now /\ probe = "asking" /\ answer = None
        /\ UNCHANGED <<child, port, lostAt, upSince, now, stage, probe, wake, tick>>
        /\ faltered' \in BOOLEAN /\ (faltered => faltered') /\ (upSince # None /\ answer' = "refused" => faltered')
    BY <1>5, <2>1 DEF Answer, TypeOK, server
  <2>3. TypeOK'
    BY <2>2, Numbers DEF TypeOK
  <2>4. OnTime' /\ Watched'
    BY <2>2, Numbers DEF OnTime, Watched, Exited
  <2>5. ASSUME Deserves', Pending PROVE InTime'
    <3>1. Deserves /\ now + Left < Deadline /\ Left' = Left /\ answer' # "refused"
      BY <2>2, <2>5 DEF Deserves, Fair, InTime, Left
    <3> QED BY <2>2, <3>1, ReadyAssumption DEF InTime
  <2>6. stage' # "expired"
    BY <1>5, <2>2 DEF Answer, Stages, Retried
  <2>7. Fair'
    BY <2>2, <2>5, <2>6 DEF Fair
  <2> QED BY <2>3, <2>4, <2>7
<1> QED BY <1>1, <1>2, <1>3, <1>4, <1>5 DEF Host

(* The supervised stages. *)
LEMMA InvSupervise == ASSUME Inv, Supervise PROVE Inv'
<1> USE ReadyAssumption DEF Inv, server, Pending
<1>1. ASSUME NEW how \in {"expired", "exited", "refused"}, Ends(how), how = "expired" => ~Deserves
      PROVE Inv'
  BY <1>1 DEF Ends, probing, TypeOK, OnTime, Watched, Fair, Exited, Deserves, Stages, Retried
<1>2. CASE Expire
  <2>1. ASSUME Deserves PROVE FALSE
    <3>1. Pending /\ now >= Deadline /\ InTime
      BY <1>2, <2>1 DEF Expire, Fair
    <3>2. /\ now <= Deadline + Late
          /\ probe = "sleeping" => now <= wake + Late
          /\ answer # None => now <= since + Late
      BY <3>1 DEF OnTime
    <3>3. upSince \in Nat /\ Deadline - upSince > 9 * Late + 1
      BY <2>1, Numbers DEF Deserves
    <3>4. /\ now \in Nat /\ since \in Nat /\ wake \in Nat /\ Left \in Nat
          /\ Deadline \in Nat /\ Late \in Nat
      BY Numbers
    <3>5. CASE probe = "sleeping"
      BY <3>1, <3>2, <3>4, <3>5 DEF InTime
    <3>6. CASE probe # "sleeping" /\ answer = None
      BY <3>1, <3>4, <3>6 DEF InTime
    <3>7. CASE probe # "sleeping" /\ answer = "refused" /\ answer # None
      BY <3>1, <3>2, <3>3, <3>4, <3>7 DEF InTime
    <3>8. CASE probe # "sleeping" /\ answer \notin {None, "refused"}
      <4>1. since + Left < Deadline /\ now <= since + Late
        BY <3>1, <3>2, <3>8 DEF InTime
      <4>2. Late <= Left
        BY <3>4 DEF Left
      <4> QED BY <3>1, <3>4, <4>1, <4>2
    <3> QED BY <3>5, <3>6, <3>7, <3>8
  <2>2. ~Deserves
    BY <2>1
  <2> QED BY <1>1, <1>2, <2>2 DEF Expire
<1>3. CASE InspectAlive
  BY <1>3 DEF InspectAlive, Inspection, probing, TypeOK, OnTime, Watched, Fair, Exited, Deserves,
              Halfway, InTime, Left, Stages, Retried
<1>4. CASE InspectExited \/ AnsweredExited \/ VersionRefused
  BY <1>1, <1>4 DEF InspectExited, AnsweredExited, VersionRefused
<1>5. CASE Advance
  <2>1. stage' \in {"sql", "version", "ready"} /\ (stage = "health" => stage' = "sql")
        /\ (stage = "sql" => stage' = "version") /\ (stage = "version" => stage' = "ready")
        /\ stage \in {"health", "sql", "version"}
    BY <1>5 DEF Advance, Polled, Following, Stages, Retried
  <2>2. TypeOK' /\ OnTime' /\ Watched'
    BY <1>5, <2>1 DEF Advance, Asks, Polled, TypeOK, OnTime, Watched, Exited, Stages, Retried
  <2>3. ASSUME Deserves', stage' \in Stages PROVE InTime'
    <3>1. Deserves /\ since + Left < Deadline /\ now <= since + Late
      BY <1>5, <2>3 DEF Advance, Asks, Polled, Deserves, Fair, InTime, OnTime, TypeOK
    <3>2. Left' + Late = Left
      BY <2>1, <2>3 DEF Left, Stages, Retried
    <3>3. Left' \in Nat
      BY DEF Left
    <3>4. now + Left' < Deadline
      BY <3>1, <3>2, <3>3, Numbers
    <3> QED BY <1>5, <3>4 DEF Advance, Asks, InTime
  <2> QED BY <1>5, <2>1, <2>2, <2>3 DEF Advance, Asks, Fair
<1>6. CASE Refuse
  <2> DEFINE r == Deadline - now
             d == RetryDelay(Interval[stage], r)
  <2>1. r \in Nat /\ Interval[stage] \in Nat /\ now \in Nat
    BY <1>6 DEF Refuse, Polled, TypeOK, Retried
  <2>2. d \in Nat /\ d <= r /\ (2 * d <= r + 1 \/ d <= 1)
    BY <2>1, RetryDelayBounds
  <2>3. /\ probe' = "sleeping" /\ wake' = now + d /\ answer' = None /\ since' = 0 /\ answer = "refused"
        /\ UNCHANGED <<child, port, lostAt, upSince, now, stage, tick, faltered>>
    BY <1>6 DEF Refuse
  <2> HIDE DEF d
  <2>4. TypeOK' /\ OnTime' /\ Watched'
    BY <2>1, <2>2, <2>3 DEF TypeOK, OnTime, Watched, Exited, Stages, Retried
  <2>5. Halfway(now)'
    BY <2>1, <2>2, <2>3 DEF Halfway, TypeOK
  <2>6. ASSUME Deserves' PROVE InTime'
    <3>1. /\ since <= upSince /\ now <= since + Late /\ Deadline - upSince > 9 * Late + 1
          /\ upSince \in Nat /\ since \in Nat /\ probe = "asking"
      BY <1>6, <2>3, <2>6 DEF Refuse, Polled, Fair, Deserves, InTime, OnTime, TypeOK
    <3>2. Left' \in Nat /\ Left' <= 3 * Late
      BY DEF Left
    <3>3. /\ now + d \in Nat /\ now <= upSince + Late
          /\ 2 * (now + d) <= Deadline + 1 + now \/ now + d <= now + 1
      BY <2>1, <2>2, <3>1
    <3>4. 2 * (now + d) <= Deadline + 1 + upSince + Late \/ now + d <= upSince + Late + 1
      BY <2>1, <3>1, <3>3
    <3>5. now + d + Late + Left' < Deadline
      BY <3>1, <3>2, <3>3, <3>4, HalfwayLeaves
    <3> QED BY <2>3, <3>5 DEF InTime
  <2> QED BY <1>6, <2>3, <2>4, <2>5, <2>6 DEF Fair, Refuse, Polled, Stages, Retried
<1>7. CASE Wake
  <2>1. TypeOK' /\ OnTime' /\ Watched'
    BY <1>7 DEF Wake, Asks, Polled, TypeOK, OnTime, Watched, Exited, Stages, Retried
  <2>2. Fair'
    BY <1>7 DEF Wake, Asks, Polled, TypeOK, OnTime, Fair, Deserves, InTime, Left, Stages, Retried
  <2> QED BY <2>1, <2>2
<1> QED BY <1>2, <1>3, <1>4, <1>5, <1>6, <1>7 DEF Supervise

(* Time passes: nothing that is due waits beyond Late, and a server that is  *)
(* up lets no request wait.                                                  *)
LEMMA InvTick == ASSUME Inv, Tick PROVE Inv'
<1> USE ReadyAssumption DEF Inv, server, probing, Pending
<1>1. TypeOK'
  BY DEF Tick, TypeOK, Stages, Retried
<1>2. /\ now < Deadline + Late /\ now < tick + Late
      /\ probe = "sleeping" => now < wake + Late
      /\ probe = "asking" /\ answer # None => now < since + Late
  BY DEF Tick, Due, Lesser, TypeOK
<1>3. OnTime' /\ Watched'
  BY <1>2 DEF Tick, TypeOK, OnTime, Watched, Exited, Stages, Retried
<1>4. ASSUME Deserves' PROVE InTime'
  <2>1. /\ Pending /\ Deserves /\ InTime /\ ~(probe = "asking" /\ answer = None)
        /\ UNCHANGED <<stage, probe, answer, since, wake, upSince>> /\ Left' = Left
    BY <1>4 DEF Tick, Fair, Deserves, Left
  <2> QED BY <2>1 DEF InTime, TypeOK
<1>5. Pending /\ probe = "sleeping" => Halfway(now)'
  <2>1. now' = now + 1 /\ UNCHANGED <<probe, wake>>
    BY DEF Tick
  <2> QED BY <2>1, Numbers DEF Tick, Fair, Halfway
<1>6. Fair'
  BY <1>4, <1>5 DEF Tick, Fair, Stages, Retried
<1> QED BY <1>1, <1>3, <1>6

LEMMA InvNext == Inv /\ [Next]_vars => Inv'
<1>1. ASSUME Inv, UNCHANGED vars PROVE Inv'
  BY <1>1 DEF vars, server, probing, Inv, TypeOK, OnTime, Watched, Fair, Pending, Exited, Deserves,
              Halfway, InTime, Left
<1> QED BY <1>1, InvHost, InvSupervise, InvTick DEF Next

THEOREM ReadyInvariant == Spec => []Inv
<1> QED BY InvInit, InvNext, PTL DEF Spec

(* Every state has its type: no timer is set past the deadline. *)
THEOREM ReadyTyped == Spec => []TypeOK
<1>1. Inv => TypeOK
  BY DEF Inv
<1> QED BY <1>1, ReadyInvariant, PTL

(* An exit of the child is never hidden, and shows within an interval of the *)
(* inspection, whatever the intervals and however late the runtime.          *)
THEOREM NoExitIsHidden == Spec => []ExitShows
<1>1. ASSUME Inv PROVE ExitShows
  BY <1>1, ReadyAssumption DEF Inv, TypeOK, OnTime, Watched, ExitShows
<1> QED BY <1>1, ReadyInvariant, PTL

(* The deadline ends readiness on time, and never that of a server which was *)
(* up with nine times the runtime's lateness to go, and answered at once.    *)
THEOREM DeadlineIsFair == Spec => []DeadlineFair
<1>1. ASSUME Inv PROVE DeadlineFair
  BY <1>1, ReadyAssumption DEF Inv, TypeOK, OnTime, Fair, Deserves, DeadlineFair
<1> QED BY <1>1, ReadyInvariant, PTL
=============================================================================
