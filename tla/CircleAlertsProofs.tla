------------------------- MODULE CircleAlertsProofs -------------------------
(***************************************************************************)
(* Proofs about CircleAlerts for any alerts and handlers.  Deadlines and the *)
(* lease are respected whatever happens; an alert is shown once as long as    *)
(* wishes change and deadlines pass only between two flushes (Drift = FALSE). *)
(***************************************************************************)
EXTENDS CircleAlerts, TLAPS

\* What a handler sorts into singles, and into a digest.
Digested(h) == job[h].digest \cup job[h].kept
Held(h) == job[h].singles \cup Digested(h)

\* Which alert a handler deals with, and that it resolved to deliver it.
JobsKnow ==
  \A h \in Handlers :
    /\ job[h].pc \in {"resolved", "instant", "decided"} => job[h].alert \in Alerts
    /\ job[h].pc = "resolved" => job[h].decision \in Modes

EmptyHands == \A h \in Handlers : job[h].pc \notin {"flush", "decided"} => Held(h) = {}
HeldWereDue == \A h \in Handlers : \A a \in Held(h) : row[a].status \in {"DEFERRED", "DELIVERED", "SUPPRESSED"}

\* While handlers hold it, an alert that is still due keeps its kind.
KindIsMode ==
  \A h \in Handlers : \A a \in Held(h) : row[a].status = "DEFERRED" /\ row[a].due =>
    (row[a].mode = "DAILY_DIGEST" <=> a \in Digested(h))
OneKind == \A g, h \in Handlers : job[g].singles \cap Digested(h) = {}

\* What was done to an alert some handler holds is what its member wishes.
Shows(h, a) == IF a \in job[h].singles THEN {"INSTANT"} ELSE {"INSTANT", "DAILY_DIGEST"}
DoneAsWished ==
  \A h \in Handlers : \A a \in Held(h) :
    /\ row[a].status = "DELIVERED" => Decision(a) \in Shows(h, a)
    /\ row[a].status = "SUPPRESSED" => Decision(a) = "OFF"
DecidedAsWished ==
  \A h \in Handlers :
    /\ job[h].pc = "decided" => /\ job[h].alert \in job[h].singles \cup job[h].digest
                                /\ job[h].decision = Decision(job[h].alert)
    /\ \A a \in job[h].kept : Decision(a) \in {"INSTANT", "DAILY_DIGEST"}

AlertInv ==
  /\ TypeOK /\ JobsKnow /\ ShownOnce /\ EmptyHands /\ HeldWereDue /\ KindIsMode /\ OneKind
  /\ DoneAsWished /\ DecidedAsWished

-----------------------------------------------------------------------------
\* The records handlers become.
LEMMA IdleJob == Idle \in Jobs
BY AlertAssumption DEF Idle, Jobs, Decisions, Modes

LEMMA Deciding ==
  ASSUME NEW a \in Alerts, wish \in Decisions
  PROVE  Decision(a) \in Decisions
BY DEF Decision, Decisions, Modes

LEMMA Recording ==
  ASSUME NEW d \in Modes
  PROVE  Recorded(d) \in Rows
BY DEF Recorded, Rows, Modes, Statuses

LEMMA DoneJob ==
  ASSUME NEW h \in Handlers, TypeOK
  PROVE  /\ Done(h) \in Jobs
         /\ Done(h).pc = "flush" /\ Done(h).alert = None
         /\ Done(h).singles = job[h].singles \ {job[h].alert}
         /\ Done(h).digest = job[h].digest \ {job[h].alert}
         /\ Done(h).kept = job[h].kept
BY DEF Done, TypeOK, Jobs, Decisions

\* One handler becomes r.
LEMMA JobStep ==
  ASSUME job \in [Handlers -> Jobs], NEW h \in Handlers, NEW r \in Jobs,
         job' = [job EXCEPT ![h] = r]
  PROVE  job' \in [Handlers -> Jobs] /\ job'[h] = r /\ \A g \in Handlers : g # h => job'[g] = job[g]
OBVIOUS

LEMMA RowStep ==
  ASSUME row \in [Alerts -> Rows], NEW a \in Alerts, NEW r \in Rows,
         row' = [row EXCEPT ![a] = r]
  PROVE  row' \in [Alerts -> Rows] /\ row'[a] = r /\ \A b \in Alerts : b # a => row'[b] = row[b]
OBVIOUS

\* A notification for the alerts taken, and their rows.
LEMMA ShowStep ==
  ASSUME TypeOK, NEW taken \in SUBSET Alerts, Show(taken)
  PROVE  /\ row' \in [Alerts -> Rows] /\ notices' \in [Alerts -> Nat]
         /\ \A a \in Alerts : IF a \in taken THEN /\ row'[a] = [row[a] EXCEPT !.status = "DELIVERED"]
                                                  /\ row'[a].status = "DELIVERED"
                                                  /\ row'[a].due = row[a].due /\ row'[a].mode = row[a].mode
                                                  /\ notices'[a] = notices[a] + 1
                              ELSE row'[a] = row[a] /\ notices'[a] = notices[a]
<1>1. ASSUME NEW a \in Alerts
      PROVE  /\ [row[a] EXCEPT !.status = "DELIVERED"] \in Rows
             /\ [row[a] EXCEPT !.status = "DELIVERED"].status = "DELIVERED"
             /\ [row[a] EXCEPT !.status = "DELIVERED"].due = row[a].due
             /\ [row[a] EXCEPT !.status = "DELIVERED"].mode = row[a].mode
  BY DEF TypeOK, Rows, Statuses
<1>2. \A a \in Alerts : row'[a] = IF a \in taken THEN [row[a] EXCEPT !.status = "DELIVERED"] ELSE row[a]
  BY DEF Show
<1>3. \A a \in Alerts : notices'[a] = IF a \in taken THEN notices[a] + 1 ELSE notices[a]
  BY DEF Show
<1>4. row' \in [Alerts -> Rows]
  BY <1>1, <1>2 DEF Show, TypeOK
<1>5. notices' \in [Alerts -> Nat]
  <2>1. \A a \in Alerts : notices[a] + 1 \in Nat /\ notices[a] \in Nat
    BY DEF TypeOK
  <2> QED BY <2>1 DEF Show
<1> QED BY <1>1, <1>2, <1>3, <1>4, <1>5

-----------------------------------------------------------------------------
(* What holds whatever wishes and clocks do.                                  *)
LEMMA TypeInit == Init => TypeOK /\ JobsKnow
<1>1. NoRow \in Rows
  BY DEF NoRow, Rows, Statuses, Modes
<1>2. Init => TypeOK
  <2> SUFFICES ASSUME Init PROVE TypeOK
    OBVIOUS
  <2>1. row \in [Alerts -> Rows] /\ notices \in [Alerts -> Nat] /\ job \in [Handlers -> Jobs]
    BY <1>1, IdleJob DEF Init
  <2>2. Free \in [holder : Handlers \cup {None}, expired : BOOLEAN]
    BY DEF Free
  <2> QED BY <2>1, <2>2 DEF Init, TypeOK
<1>3. Init => JobsKnow
  BY DEF Init, JobsKnow, Idle
<1> QED BY <1>2, <1>3

LEMMA TypeStep == TypeOK /\ JobsKnow /\ [Next]_vars => TypeOK'
<1> SUFFICES ASSUME TypeOK, JobsKnow, [Next]_vars PROVE TypeOK'
  OBVIOUS
<1> USE DEF TypeOK
<1>1. CASE UNCHANGED vars
  BY <1>1 DEF vars
<1>2. CASE ChangeWish
  BY <1>2 DEF ChangeWish
<1>3. CASE ExpireLease
  BY <1>3 DEF ExpireLease
<1>4. CASE GrowCalm
  BY <1>4 DEF GrowCalm
<1>5. ASSUME NEW a \in Alerts, FallDue(a) PROVE TypeOK'
  <2>1. [row[a] EXCEPT !.due = TRUE] \in Rows /\ row' = [row EXCEPT ![a] = [row[a] EXCEPT !.due = TRUE]]
    BY <1>5 DEF FallDue, Rows
  <2>2. row' \in [Alerts -> Rows]
    BY <2>1, RowStep
  <2> QED BY <1>5, <2>2 DEF FallDue
<1>6. ASSUME NEW h \in Handlers, NEW a \in Alerts, Dispatch(h, a) PROVE TypeOK'
  <2> DEFINE r == [Idle EXCEPT !.pc = "resolved", !.alert = a, !.decision = Decision(a)]
  <2>1. r \in Jobs
    BY Deciding DEF Idle, Jobs
  <2>2. job' \in [Handlers -> Jobs]
    BY <1>6, <2>1 DEF Dispatch
  <2> QED BY <1>6, <2>2 DEF Dispatch
<1>7. ASSUME NEW h \in Handlers, Record(h) PROVE TypeOK'
  <2> DEFINE a == job[h].alert
             d == job[h].decision
  <2>1. row' = IF row[a].status = "NONE" THEN [row EXCEPT ![a] = Recorded(d)] ELSE row
    BY <1>7 DEF Record
  <2>2. job' = [job EXCEPT ![h] = IF d = "INSTANT" THEN [@ EXCEPT !.pc = "instant"] ELSE Idle]
    BY <1>7 DEF Record
  <2>3. [job[h] EXCEPT !.pc = "instant"] \in Jobs
    BY DEF Jobs
  <2>4. job' \in [Handlers -> Jobs]
    BY <2>2, <2>3, IdleJob
  <2>5. Recorded(d) \in Rows
    <3>1. d \in Modes
      BY <1>7 DEF Record, At, JobsKnow
    <3> QED BY <3>1, Recording
  <2>6. row' \in [Alerts -> Rows]
    BY <2>1, <2>5
  <2> QED BY <1>7, <2>4, <2>6 DEF Record
<1>8. ASSUME NEW h \in Handlers, DeliverInstant(h) PROVE TypeOK'
  <2>1. job[h].alert \in Alerts /\ Show({a \in {job[h].alert} : Claimable(a, {"PENDING"})})
    BY <1>8 DEF DeliverInstant, At, JobsKnow
  <2>2. row' \in [Alerts -> Rows] /\ notices' \in [Alerts -> Nat]
    BY <2>1, ShowStep
  <2> QED BY <1>8, <2>2, IdleJob DEF DeliverInstant
<1>9. ASSUME NEW h \in Handlers, Acquire(h) PROVE TypeOK'
  <2>1. [Idle EXCEPT !.pc = "leased"] \in Jobs
    BY IdleJob DEF Idle, Jobs
  <2>2. job' \in [Handlers -> Jobs]
    BY <1>9, <2>1 DEF Acquire
  <2> QED BY <1>9, <2>2 DEF Acquire
<1>10. ASSUME NEW h \in Handlers, ReadDue(h) PROVE TypeOK'
  <2> DEFINE due == {a \in Alerts : IsDue(a)}
             digest == {a \in due : row[a].mode = "DAILY_DIGEST"}
             r == [Idle EXCEPT !.pc = "flush", !.singles = due \ digest, !.digest = digest]
  <2>1. r \in Jobs
    BY IdleJob DEF Idle, Jobs
  <2>2. job' = [job EXCEPT ![h] = r]
    BY <1>10 DEF ReadDue
  <2>3. job' \in [Handlers -> Jobs]
    BY <2>1, <2>2, JobStep
  <2> QED BY <1>10, <2>3 DEF ReadDue
<1>11. ASSUME NEW h \in Handlers, NEW a \in Alerts, Decide(h, a) PROVE TypeOK'
  <2> DEFINE r == [job[h] EXCEPT !.pc = "decided", !.alert = a, !.decision = Decision(a)]
  <2>1. r \in Jobs
    BY Deciding DEF Jobs
  <2>2. job' = [job EXCEPT ![h] = r]
    BY <1>11 DEF Decide
  <2>3. job' \in [Handlers -> Jobs]
    BY <2>1, <2>2, JobStep
  <2> QED BY <1>11, <2>3 DEF Decide
<1>12. ASSUME NEW h \in Handlers, Suppress(h) \/ Reschedule(h) \/ DeliverSingle(h) PROVE TypeOK'
  <2>1. job' \in [Handlers -> Jobs] /\ UNCHANGED <<wish, lease, calm>>
    BY <1>12, DoneJob DEF Suppress, Reschedule, DeliverSingle
  <2>2. row' \in [Alerts -> Rows] /\ notices' \in [Alerts -> Nat]
    <3>1. CASE Suppress(h)
      <4>1. row' = [row EXCEPT ![job[h].alert].status = "SUPPRESSED"] /\ notices' = notices
        BY <3>1 DEF Suppress
      <4> QED BY <4>1 DEF Rows, Statuses
    <3>2. CASE Reschedule(h)
      <4>1. Recorded(job[h].decision) \in Rows
        BY <3>2 DEF Reschedule, PutsOff, Recorded, Rows, Modes, Statuses
      <4> QED BY <3>2, <4>1 DEF Reschedule
    <3>3. CASE DeliverSingle(h)
      <4>1. Show({a \in {job[h].alert} : Claimable(a, {"DEFERRED"})}) /\ job[h].alert \in Alerts
        BY <3>3 DEF DeliverSingle, Single, Jobs
      <4> QED BY <4>1, ShowStep
    <3> QED BY <1>12, <3>1, <3>2, <3>3
  <2> QED BY <2>1, <2>2
<1>13. ASSUME NEW h \in Handlers, Keep(h) PROVE TypeOK'
  <2> DEFINE r == [Done(h) EXCEPT !.kept = @ \cup {job[h].alert}]
  <2>1. job[h].alert \in Alerts
    BY <1>13 DEF Keep, At, JobsKnow
  <2>2. r \in Jobs
    BY <2>1, DoneJob DEF Jobs
  <2>3. job' \in [Handlers -> Jobs]
    BY <1>13, <2>2, DoneJob DEF Keep
  <2> QED BY <1>13, <2>3 DEF Keep
<1>14. ASSUME NEW h \in Handlers, DeliverDigest(h) PROVE TypeOK'
  <2>1. row' \in [Alerts -> Rows] /\ notices' \in [Alerts -> Nat]
    BY <1>14, ShowStep DEF DeliverDigest, Jobs
  <2>2. [job[h] EXCEPT !.kept = {}] \in Jobs
    BY DEF Jobs
  <2> QED BY <1>14, <2>1, <2>2 DEF DeliverDigest
<1>15. ASSUME NEW h \in Handlers, Finish(h) PROVE TypeOK'
  BY <1>15, IdleJob DEF Finish, Released, Free
<1>16. ASSUME NEW h \in Handlers, Fail(h) PROVE TypeOK'
  <2>1. [Idle EXCEPT !.pc = "flush"] \in Jobs
    BY IdleJob DEF Idle, Jobs
  <2>2. Released(h) \in [holder : Handlers \cup {None}, expired : BOOLEAN]
    BY DEF Released, Free
  <2>3. CASE FailSingle(h)
    BY <2>3, DoneJob DEF FailSingle
  <2>4. CASE FailDigest(h)
    BY <2>4, <2>1 DEF FailDigest
  <2>5. CASE FailTick(h)
    BY <2>5, <2>2, IdleJob DEF FailTick
  <2>6. CASE Crash(h)
    BY <2>6, IdleJob DEF Crash
  <2> QED BY <1>16, <2>3, <2>4, <2>5, <2>6 DEF Fail
<1> QED BY <1>1, <1>2, <1>3, <1>4, <1>5, <1>6, <1>7, <1>8, <1>9, <1>10, <1>11, <1>12, <1>13, <1>14, <1>15, <1>16
        DEF Next, Deliver, Flush

LEMMA KnowStep == TypeOK /\ JobsKnow /\ [Next]_vars => JobsKnow'
<1> SUFFICES ASSUME TypeOK, JobsKnow, [Next]_vars PROVE JobsKnow'
  OBVIOUS
<1> DEFINE Knows(r) == /\ r.pc \in {"resolved", "instant", "decided"} => r.alert \in Alerts
                       /\ r.pc = "resolved" => r.decision \in Modes
<1>0. ASSUME NEW h \in Handlers, NEW r, Knows(r), job' = [job EXCEPT ![h] = r] PROVE JobsKnow'
  BY <1>0 DEF JobsKnow, TypeOK
<1>1. CASE job' = job
  BY <1>1 DEF JobsKnow
<1> USE DEF Idle
<1>2. ASSUME NEW h \in Handlers, NEW a \in Alerts, Dispatch(h, a) PROVE JobsKnow'
  <2> DEFINE r == [Idle EXCEPT !.pc = "resolved", !.alert = a, !.decision = Decision(a)]
  <2>1. Decision(a) \in Modes
    BY <1>2, Deciding DEF Dispatch, Decisions, TypeOK
  <2> QED BY <1>2, <2>1, <1>0 DEF Dispatch
<1>3. ASSUME NEW h \in Handlers, Record(h) PROVE JobsKnow'
  <2>1. Knows([job[h] EXCEPT !.pc = "instant"])
    BY <1>3 DEF Record, At, JobsKnow, TypeOK, Jobs
  <2> QED BY <1>3, <2>1, <1>0 DEF Record
<1>4. ASSUME NEW h \in Handlers, DeliverInstant(h) \/ Finish(h) \/ FailTick(h) \/ Crash(h) PROVE JobsKnow'
  BY <1>4, <1>0 DEF DeliverInstant, Finish, FailTick, Crash
<1>5. ASSUME NEW h \in Handlers, Acquire(h) \/ ReadDue(h) \/ FailDigest(h) PROVE JobsKnow'
  BY <1>5, <1>0 DEF Acquire, ReadDue, FailDigest
<1>6. ASSUME NEW h \in Handlers, NEW a \in Alerts, Decide(h, a) PROVE JobsKnow'
  <2>1. Knows([job[h] EXCEPT !.pc = "decided", !.alert = a, !.decision = Decision(a)])
    BY DEF TypeOK, Jobs
  <2> QED BY <1>6, <2>1, <1>0 DEF Decide
<1>7. ASSUME NEW h \in Handlers, Suppress(h) \/ Reschedule(h) \/ DeliverSingle(h) \/ FailSingle(h) PROVE JobsKnow'
  BY <1>7, <1>0, DoneJob DEF Suppress, Reschedule, DeliverSingle, FailSingle
<1>8. ASSUME NEW h \in Handlers, Keep(h) PROVE JobsKnow'
  <2>1. Knows([Done(h) EXCEPT !.kept = @ \cup {job[h].alert}])
    BY DoneJob DEF Jobs
  <2> QED BY <1>8, <2>1, <1>0 DEF Keep
<1>9. ASSUME NEW h \in Handlers, DeliverDigest(h) PROVE JobsKnow'
  <2>1. Knows([job[h] EXCEPT !.kept = {}])
    BY DEF JobsKnow, TypeOK, Jobs
  <2> QED BY <1>9, <2>1, <1>0 DEF DeliverDigest
<1>10. CASE UNCHANGED vars \/ ChangeWish \/ ExpireLease \/ GrowCalm \/ \E a \in Alerts : FallDue(a)
  BY <1>10, <1>1 DEF vars, ChangeWish, ExpireLease, GrowCalm, FallDue
<1> QED BY <1>2, <1>3, <1>4, <1>5, <1>6, <1>7, <1>8, <1>9, <1>10 DEF Next, Deliver, Flush, Fail

\* The rows and the handlers keep their types.
THEOREM TypesHold == Spec => [](TypeOK /\ JobsKnow)
<1>1. Init => TypeOK /\ JobsKnow
  BY TypeInit
<1>2. TypeOK /\ JobsKnow /\ [Next]_vars => (TypeOK /\ JobsKnow)'
  BY TypeStep, KnowStep
<1> QED BY <1>1, <1>2, PTL DEF Spec

\* An alert is not shown before its deadline, however late the flush that shows
\* it decided to, and whatever changed meanwhile.
THEOREM DeadlinesAreKept == Spec => NeverEarly
<1>1. TypeOK /\ JobsKnow /\ [Next]_vars => [\A a \in Alerts : notices'[a] # notices[a] => row[a].due]_vars
  <2> SUFFICES ASSUME TypeOK, JobsKnow, Next, NEW a \in Alerts, notices'[a] # notices[a] PROVE row[a].due
    OBVIOUS
  <2>1. PICK h \in Handlers : DeliverInstant(h) \/ DeliverSingle(h) \/ DeliverDigest(h)
    BY DEF Next, ChangeWish, ExpireLease, GrowCalm, FallDue, Dispatch, Deliver, Record, Flush, Acquire, ReadDue,
           Decide, Suppress, Reschedule, Keep, Finish, Fail, FailSingle, FailDigest, FailTick, Crash
  <2>2. \E taken \in SUBSET Alerts : Show(taken) /\ \A b \in taken : row[b].due
    <3>1. CASE DeliverInstant(h)
      BY <3>1 DEF DeliverInstant, At, JobsKnow, Claimable
    <3>2. CASE DeliverSingle(h)
      BY <3>2 DEF DeliverSingle, At, JobsKnow, Claimable
    <3>3. CASE DeliverDigest(h)
      BY <3>3 DEF DeliverDigest, Claimable, TypeOK, Jobs
    <3> QED BY <2>1, <3>1, <3>2, <3>3
  <2> QED BY <2>2, ShowStep
<1> QED BY <1>1, TypesHold, PTL DEF Spec, NeverEarly

\* Nobody takes the lease from a tick that still holds it, and a tick that lost
\* it to another does not release the other's.
THEOREM LeaseIsRespected == Spec => LeaseIsKept
<1>1. TypeOK /\ [Next]_vars
        => [\A h \in Handlers : lease.holder = h /\ ~lease.expired /\ lease'.holder # h => job'[h] = Idle]_vars
  <2> SUFFICES ASSUME TypeOK, Next, NEW h \in Handlers, lease.holder = h, ~lease.expired, lease'.holder # h
               PROVE  job'[h] = Idle
    OBVIOUS
  <2>1. \E g \in Handlers : Acquire(g) \/ Finish(g) \/ FailTick(g)
    BY DEF Next, ChangeWish, ExpireLease, GrowCalm, FallDue, Dispatch, Deliver, Record, DeliverInstant, Flush, ReadDue,
           Decide, Suppress, Reschedule, DeliverSingle, Keep, DeliverDigest, Fail, FailSingle, FailDigest, Crash, TypeOK
  <2>2. PICK g \in Handlers : Acquire(g) \/ Finish(g) \/ FailTick(g)
    BY <2>1
  <2> QED BY <2>2, AlertAssumption DEF Acquire, Finish, FailTick, Released, TypeOK
<1> QED BY <1>1, TypesHold, PTL DEF Spec, LeaseIsKept

-----------------------------------------------------------------------------
(* What holds if wishes change and deadlines pass only between two flushes.   *)

\* What a step of one handler may do to an alert the handlers still hold: put it
\* off, or do as its member wishes.
Fits(h, a) ==
  \/ row'[a] = row[a]
  \/ row'[a].status = "DEFERRED" /\ ~row'[a].due
  \/ row'[a].status = "DELIVERED" /\ Decision(a) \in Shows(h, a)
  \/ row'[a].status = "SUPPRESSED" /\ Decision(a) = "OFF"

\* A step after which no handler holds an alert it did not hold before.
LEMMA Narrowing ==
  ASSUME AlertInv, TypeOK', JobsKnow', wish' = wish,
         \A a \in Alerts : (notices'[a] = notices[a] /\ row'[a] = row[a])
                             \/ notices'[a] = IF row'[a].status = "DELIVERED" THEN 1 ELSE 0,
         \A h \in Handlers : \A a \in Held(h) : Fits(h, a),
         \A h \in Handlers :
           /\ job'[h].singles \subseteq job[h].singles
           /\ Digested(h)' \subseteq Digested(h)
           /\ job'[h].pc \notin {"flush", "decided"} => Held(h)' = {}
           /\ job'[h].pc = "decided" => /\ job'[h].alert \in job'[h].singles \cup job'[h].digest
                                        /\ job'[h].decision = Decision(job'[h].alert)
           /\ \A a \in job'[h].kept : Decision(a) \in {"INSTANT", "DAILY_DIGEST"}
  PROVE  AlertInv'
<1> USE DEF AlertInv
<1>0. \A h \in Handlers : Held(h)' \subseteq Held(h)
  BY DEF Held
<1>1. \A h \in Handlers : \A a \in Held(h)' : a \in Alerts /\ Decision(a)' = Decision(a) /\ Fits(h, a)
  BY <1>0 DEF Held, Digested, TypeOK, Jobs, Decision
<1>2. ShownOnce'
  BY DEF ShownOnce
<1>3. EmptyHands' /\ HeldWereDue'
  BY <1>0, <1>1 DEF EmptyHands, HeldWereDue, Fits
<1>4. OneKind'
  BY DEF OneKind
<1>5. KindIsMode'
  <2> SUFFICES ASSUME NEW h \in Handlers, NEW a \in Held(h)', row'[a].status = "DEFERRED", row'[a].due
               PROVE  row'[a].mode = "DAILY_DIGEST" <=> a \in Digested(h)'
    BY DEF KindIsMode
  <2>0. row'[a] = row[a]
    BY <1>1 DEF Fits
  <2>1. row[a].mode = "DAILY_DIGEST" <=> a \in Digested(h)
    BY <1>0, <2>0 DEF KindIsMode
  <2>2. a \in Digested(h) /\ a \notin Digested(h)' => a \in job[h].singles
    BY DEF Held
  <2>3. a \in Digested(h) => a \notin job[h].singles
    BY DEF OneKind
  <2> QED BY <2>0, <2>1, <2>2, <2>3
<1>6. DoneAsWished'
  <2> SUFFICES ASSUME NEW h \in Handlers, NEW a \in Held(h)'
               PROVE  /\ row'[a].status = "DELIVERED" => Decision(a) \in Shows(h, a)'
                      /\ row'[a].status = "SUPPRESSED" => Decision(a) = "OFF"
    BY <1>1 DEF DoneAsWished
  <2>1. a \in job[h].singles <=> a \in job'[h].singles
    <3>1. a \in job[h].singles => a \notin Digested(h)'
      BY DEF OneKind
    <3> QED BY <3>1 DEF Held
  <2>2. Shows(h, a)' = Shows(h, a)
    BY <2>1 DEF Shows
  <2>3. CASE row'[a] = row[a]
    BY <2>2, <2>3, <1>0 DEF DoneAsWished
  <2>4. CASE row'[a] # row[a]
    BY <2>2, <2>4, <1>1 DEF Fits
  <2> QED BY <2>3, <2>4
<1>7. DecidedAsWished'
  <2>1. \A a : Decision(a)' = Decision(a)
    BY DEF Decision
  <2> QED BY <2>1 DEF DecidedAsWished
<1> QED BY <1>2, <1>3, <1>4, <1>5, <1>6, <1>7

\* The part of Narrowing that is about the handlers who do not move.
Keeps(g) ==
  /\ job'[g].singles \subseteq job[g].singles
  /\ Digested(g)' \subseteq Digested(g)
  /\ job'[g].pc \notin {"flush", "decided"} => Held(g)' = {}
  /\ job'[g].pc = "decided" => /\ job'[g].alert \in job'[g].singles \cup job'[g].digest
                               /\ job'[g].decision = Decision(job'[g].alert)
  /\ \A a \in job'[g].kept : Decision(a) \in {"INSTANT", "DAILY_DIGEST"}

LEMMA OthersKeep ==
  ASSUME AlertInv, NEW g \in Handlers, job'[g] = job[g]
  PROVE  Keeps(g)
BY DEF AlertInv, Keeps, Digested, Held, EmptyHands, DecidedAsWished

\* An alert whose row is new or waits for its dispatch is in nobody's hands.
LEMMA NotHeld ==
  ASSUME AlertInv, NEW a, row[a].status \in {"NONE", "PENDING"}
  PROVE  \A h \in Handlers : a \notin Held(h)
BY DEF AlertInv, HeldWereDue

\* Nobody holds anything between two flushes.
LEMMA Between ==
  ASSUME AlertInv, Still
  PROVE  \A h \in Handlers : Held(h) = {} /\ job[h].pc = "idle" /\ job[h].kept = {}
BY DEF AlertInv, Still, At, EmptyHands, Held, Digested

LEMMA InvInit == Init => AlertInv
<1> SUFFICES ASSUME Init PROVE AlertInv
  OBVIOUS
<1>1. TypeOK /\ JobsKnow
  BY TypeInit
<1>2. \A h \in Handlers : Held(h) = {} /\ job[h].pc = "idle" /\ job[h].kept = {} /\ job[h].singles = {}
  BY DEF Init, Idle, Held, Digested
<1>3. ShownOnce
  BY DEF ShownOnce, Init, NoRow
<1> QED BY <1>1, <1>2, <1>3 DEF AlertInv, EmptyHands, HeldWereDue, KindIsMode, OneKind, DoneAsWished, DecidedAsWished

\* What a handler that decided finds: its alert is in its hands, and what was
\* done to it meanwhile is what it decided.
LEMMA Decided ==
  ASSUME AlertInv, NEW h \in Handlers, job[h].pc = "decided"
  PROVE  /\ job[h].alert \in Alerts /\ job[h].alert \in Held(h)
         /\ job[h].alert \in job[h].singles \cup job[h].digest
         /\ job[h].decision = Decision(job[h].alert)
         /\ row[job[h].alert].status = "DELIVERED" => job[h].decision \in Shows(h, job[h].alert)
         /\ row[job[h].alert].status = "SUPPRESSED" => job[h].decision = "OFF"
         /\ row[job[h].alert].status \in {"DEFERRED", "DELIVERED", "SUPPRESSED"}
BY DEF AlertInv, JobsKnow, DecidedAsWished, DoneAsWished, HeldWereDue, Held, Digested

\* After it has dealt with its alert a handler holds less.
LEMMA DoneKeeps ==
  ASSUME AlertInv, NEW h \in Handlers, job' = [job EXCEPT ![h] = Done(h)]
  PROVE  \A g \in Handlers : Keeps(g)
<1>1. job'[h] = Done(h) /\ \A g \in Handlers : g # h => job'[g] = job[g]
  BY DEF AlertInv, TypeOK
<1>2. Keeps(h)
  BY <1>1, DoneJob DEF AlertInv, Keeps, Digested, Held, DecidedAsWished
<1> QED BY <1>1, <1>2, OthersKeep

\* A handler whose hands are empty.
LEMMA EmptyKeeps ==
  ASSUME AlertInv, NEW h \in Handlers, NEW r, job' = [job EXCEPT ![h] = r],
         r.singles = {}, r.digest = {}, r.kept = {}, r.pc # "decided"
  PROVE  \A g \in Handlers : Keeps(g)
<1>1. job'[h] = r /\ \A g \in Handlers : g # h => job'[g] = job[g]
  BY DEF AlertInv, TypeOK
<1>2. Keeps(h)
  BY <1>1 DEF Keeps, Digested, Held
<1> QED BY <1>1, <1>2, OthersKeep

\* Showing alerts that wait.
LEMMA Showing ==
  ASSUME AlertInv, NEW taken \in SUBSET Alerts, Show(taken),
         \A a \in taken : row[a].status \in {"PENDING", "DEFERRED"}
  PROVE  \A a \in Alerts : (notices'[a] = notices[a] /\ row'[a] = row[a])
                            \/ notices'[a] = IF row'[a].status = "DELIVERED" THEN 1 ELSE 0
<1>1. ASSUME NEW a \in taken PROVE notices'[a] = 1 /\ row'[a].status = "DELIVERED"
  <2>1. a \in Alerts /\ row[a].status # "DELIVERED"
    BY <1>1
  <2>2. notices[a] = 0
    BY <2>1 DEF AlertInv, ShownOnce
  <2>3. notices'[a] = notices[a] + 1 /\ row'[a].status = "DELIVERED"
    BY <1>1, <2>1, ShowStep DEF AlertInv
  <2> QED BY <2>2, <2>3
<1> QED BY <1>1, ShowStep DEF AlertInv

LEMMA Reading ==
  ASSUME AlertInv, TypeOK', JobsKnow', NEW h \in Handlers, ReadDue(h)
  PROVE  AlertInv'
<1> USE DEF AlertInv
<1> DEFINE due == {a \in Alerts : IsDue(a)}
           digest == {a \in due : row[a].mode = "DAILY_DIGEST"}
<1>1. /\ job'[h].pc = "flush" /\ job'[h].singles = due \ digest /\ job'[h].digest = digest /\ job'[h].kept = {}
      /\ \A g \in Handlers : g # h => job'[g] = job[g]
      /\ UNCHANGED <<wish, row, notices>>
  BY DEF ReadDue, TypeOK, Idle
<1>2. /\ Digested(h)' = digest /\ Held(h)' = due
      /\ \A g \in Handlers : g # h => Digested(g)' = Digested(g) /\ Held(g)' = Held(g)
  BY <1>1 DEF Held, Digested
<1>3. \A a \in due : a \in Alerts /\ row[a].status = "DEFERRED" /\ row[a].due
  BY DEF IsDue
<1>4. \A a : Decision(a)' = Decision(a)
  BY <1>1 DEF Decision
<1>5. ShownOnce'
  BY <1>1 DEF ShownOnce
<1>6. EmptyHands' /\ HeldWereDue'
  BY <1>1, <1>2, <1>3 DEF EmptyHands, HeldWereDue
<1>7. KindIsMode'
  BY <1>1, <1>2, <1>3 DEF KindIsMode
<1>8. OneKind'
  <2>1. \A g \in Handlers : job'[g].singles \subseteq Held(g)' /\ Digested(g)' \subseteq Held(g)'
    BY DEF Held
  <2>2. ASSUME NEW f \in Handlers, NEW g \in Handlers, NEW a \in job'[f].singles, a \in Digested(g)' PROVE FALSE
    <3>1. CASE f # h /\ g # h
      BY <2>2, <3>1, <1>1, <1>2 DEF OneKind
    <3>2. CASE f = h \/ g = h
      <4>1. a \in due
        BY <3>2, <2>1, <2>2, <1>2
      <4>2. row'[a].status = "DEFERRED" /\ row'[a].due
        BY <4>1, <1>3, <1>1
      <4>3. row'[a].mode = "DAILY_DIGEST"
        BY <4>2, <2>1, <2>2, <1>7 DEF KindIsMode
      <4>4. f # h
        BY <1>1, <4>1, <4>3, <2>2
      <4>5. a \in job[f].singles /\ a \in Held(f) /\ a \in Digested(f)
        BY <4>2, <4>3, <4>4, <1>1, <2>2 DEF KindIsMode, Held
      <4> QED BY <4>5 DEF OneKind
    <3> QED BY <3>1, <3>2
  <2> QED BY <2>2 DEF OneKind
<1>9. DoneAsWished'
  <2>1. \A g \in Handlers : g # h => \A a : Shows(g, a)' = Shows(g, a)
    BY <1>1 DEF Shows
  <2> QED BY <2>1, <1>1, <1>2, <1>3, <1>4 DEF DoneAsWished
<1>10. DecidedAsWished'
  BY <1>1, <1>4 DEF DecidedAsWished
<1> QED BY <1>5, <1>6, <1>7, <1>8, <1>9, <1>10

LEMMA InvStep == ASSUME Drift = FALSE PROVE AlertInv /\ [Next]_vars => AlertInv'
<1> SUFFICES ASSUME AlertInv, [Next]_vars PROVE AlertInv'
  OBVIOUS
<1>0. TypeOK' /\ JobsKnow'
  BY TypeStep, KnowStep DEF AlertInv
<1>1. CASE UNCHANGED vars \/ ExpireLease \/ GrowCalm
  <2>1. UNCHANGED <<wish, row, notices, job>>
    BY <1>1 DEF vars, ExpireLease, GrowCalm
  <2>2. \A g \in Handlers : Keeps(g)
    BY <2>1, OthersKeep
  <2> QED BY <2>1, <2>2, <1>0, Narrowing DEF Keeps, Fits
<1>2. CASE ChangeWish \/ \E a \in Alerts : FallDue(a)
  <2>1. Still /\ job' = job /\ notices' = notices
    BY <1>2 DEF ChangeWish, FallDue
  <2>2. \A h \in Handlers : Held(h)' = {} /\ Digested(h)' = {} /\ job'[h].pc = "idle" /\ job'[h].kept = {}
                            /\ job'[h].singles = {}
    BY <2>1, Between DEF Held, Digested
  <2>3. \A a \in Alerts : row'[a].status = row[a].status
    BY <1>2 DEF ChangeWish, FallDue, AlertInv, TypeOK, Rows
  <2>4. ShownOnce'
    BY <2>1, <2>3 DEF ShownOnce, AlertInv
  <2> QED BY <1>0, <2>2, <2>4
          DEF AlertInv, EmptyHands, HeldWereDue, KindIsMode, OneKind, DoneAsWished, DecidedAsWished
<1>3. ASSUME NEW h \in Handlers, NEW a \in Alerts, Dispatch(h, a) PROVE AlertInv'
  <2>1. \A g \in Handlers : Keeps(g)
    <3> DEFINE r == [Idle EXCEPT !.pc = "resolved", !.alert = a, !.decision = Decision(a)]
    <3>1. job' = [job EXCEPT ![h] = r]
      BY <1>3 DEF Dispatch
    <3>2. r.singles = {} /\ r.digest = {} /\ r.kept = {} /\ r.pc # "decided"
      BY DEF Idle
    <3> HIDE DEF r
    <3> QED BY <3>1, <3>2, EmptyKeeps
  <2> QED BY <1>0, <1>3, <2>1, Narrowing DEF Dispatch, Keeps, Fits
<1>4. ASSUME NEW h \in Handlers, Record(h) PROVE AlertInv'
  <2> DEFINE a == job[h].alert
             d == job[h].decision
  <2>1. a \in Alerts /\ d \in Modes /\ Held(h) = {} /\ wish' = wish /\ notices' = notices
        /\ job' = [job EXCEPT ![h] = IF d = "INSTANT" THEN [@ EXCEPT !.pc = "instant"] ELSE Idle]
    BY <1>4 DEF Record, At, AlertInv, JobsKnow, EmptyHands
  <2>2. \A g \in Handlers : Keeps(g)
    <3> DEFINE r == IF d = "INSTANT" THEN [job[h] EXCEPT !.pc = "instant"] ELSE Idle
    <3>1. r.singles = {} /\ r.digest = {} /\ r.kept = {} /\ r.pc # "decided"
      BY <2>1 DEF Idle, Held, Digested, AlertInv, TypeOK, Jobs
    <3>2. job' = [job EXCEPT ![h] = r]
      BY <2>1
    <3> HIDE DEF r
    <3> QED BY <3>1, <3>2, EmptyKeeps
  <2>3. CASE row[a].status = "NONE"
    <3>1. row' = [row EXCEPT ![a] = Recorded(d)] /\ Recorded(d).status # "DELIVERED"
      BY <1>4, <2>3 DEF Record, Recorded
    <3>2. \A b \in Alerts : b # a => row'[b] = row[b]
      BY <3>1 DEF AlertInv, TypeOK
    <3>3. row'[a].status # "DELIVERED" /\ notices[a] = 0
      BY <3>1, <2>1, <2>3 DEF AlertInv, TypeOK, ShownOnce
    <3>4. \A g \in Handlers : \A b \in Held(g) : Fits(g, b)
      <4> SUFFICES ASSUME NEW g \in Handlers, NEW b \in Held(g) PROVE Fits(g, b)
        OBVIOUS
      <4>1. b \in Alerts /\ b # a
        BY <2>3, NotHeld DEF Held, Digested, AlertInv, TypeOK, Jobs
      <4> QED BY <4>1, <3>2 DEF Fits
    <3> QED BY <1>0, <2>1, <2>2, <3>2, <3>3, <3>4, Narrowing DEF Keeps
  <2>4. CASE row[a].status # "NONE"
    <3>1. row' = row
      BY <1>4, <2>4 DEF Record
    <3> QED BY <1>0, <2>1, <2>2, <3>1, Narrowing DEF Keeps, Fits
  <2> QED BY <2>3, <2>4
<1>5. ASSUME NEW h \in Handlers, DeliverInstant(h) PROVE AlertInv'
  <2> DEFINE taken == {a \in {job[h].alert} : Claimable(a, {"PENDING"})}
  <2>1. taken \in SUBSET Alerts /\ Show(taken) /\ \A a \in taken : row[a].status = "PENDING"
    BY <1>5 DEF DeliverInstant, Claimable, AlertInv, JobsKnow, At
  <2>2. \A g \in Handlers : Keeps(g)
    <3> DEFINE r == Idle
    <3>1. job' = [job EXCEPT ![h] = r]
      BY <1>5 DEF DeliverInstant
    <3>2. r.singles = {} /\ r.digest = {} /\ r.kept = {} /\ r.pc # "decided"
      BY DEF Idle
    <3> HIDE DEF r
    <3> QED BY <3>1, <3>2, EmptyKeeps
  <2>3. \A g \in Handlers : \A b \in Held(g) : Fits(g, b)
    <3> SUFFICES ASSUME NEW g \in Handlers, NEW b \in Held(g) PROVE Fits(g, b)
      OBVIOUS
    <3>1. b \in Alerts /\ b \notin taken
      BY <2>1, NotHeld DEF Held, Digested, AlertInv, TypeOK, Jobs
    <3> QED BY <3>1, <2>1, ShowStep DEF Fits, AlertInv
  <2>4. \A a \in Alerts : (notices'[a] = notices[a] /\ row'[a] = row[a])
                           \/ notices'[a] = IF row'[a].status = "DELIVERED" THEN 1 ELSE 0
    BY <2>1, Showing
  <2>5. wish' = wish
    BY <1>5 DEF DeliverInstant
  <2> QED BY <1>0, <2>2, <2>3, <2>4, <2>5, Narrowing DEF Keeps
<1>6. ASSUME NEW h \in Handlers, Acquire(h) PROVE AlertInv'
  <2>1. \A g \in Handlers : Keeps(g)
    <3> DEFINE r == [Idle EXCEPT !.pc = "leased"]
    <3>1. job' = [job EXCEPT ![h] = r]
      BY <1>6 DEF Acquire
    <3>2. r.singles = {} /\ r.digest = {} /\ r.kept = {} /\ r.pc # "decided"
      BY DEF Idle
    <3> HIDE DEF r
    <3> QED BY <3>1, <3>2, EmptyKeeps
  <2> QED BY <1>0, <1>6, <2>1, Narrowing DEF Acquire, Keeps, Fits
<1>7. ASSUME NEW h \in Handlers, ReadDue(h) PROVE AlertInv'
  BY <1>0, <1>7, Reading
<1>8. ASSUME NEW h \in Handlers, NEW a \in Alerts, Decide(h, a) PROVE AlertInv'
  <2>1. UNCHANGED <<wish, row, notices>>
    BY <1>8 DEF Decide
  <2>2. /\ job'[h].pc = "decided" /\ job'[h].alert = a /\ job'[h].decision = Decision(a)
        /\ job'[h].singles = job[h].singles /\ job'[h].digest = job[h].digest /\ job'[h].kept = job[h].kept
        /\ \A g \in Handlers : g # h => job'[g] = job[g]
    BY <1>8 DEF Decide, AlertInv, TypeOK, Jobs
  <2>3. a \in job[h].singles \cup job[h].digest
    BY <1>8 DEF Decide
  <2>4. Keeps(h)
    BY <2>2, <2>3 DEF Keeps, Held, Digested, AlertInv, DecidedAsWished
  <2>5. \A g \in Handlers : Keeps(g)
    BY <2>2, <2>4, OthersKeep
  <2> QED BY <1>0, <2>1, <2>5, Narrowing DEF Keeps, Fits
<1>9. ASSUME NEW h \in Handlers, Suppress(h) \/ Reschedule(h) PROVE AlertInv'
  <2> DEFINE a == job[h].alert
  <2>1. job[h].pc = "decided" /\ job' = [job EXCEPT ![h] = Done(h)] /\ wish' = wish /\ notices' = notices
    BY <1>9 DEF Suppress, Reschedule, At
  <2>2. \A g \in Handlers : Keeps(g)
    BY <2>1, DoneKeeps
  <2>3. row[a].status # "DELIVERED"
    BY <1>9, <2>1, Decided DEF Suppress, Reschedule, PutsOff, Single, Shows
  <2>4. /\ \A b \in Alerts : b # a => row'[b] = row[b]
        /\ \/ row'[a].status = "SUPPRESSED" /\ Decision(a) = "OFF"
           \/ row'[a].status = "DEFERRED" /\ ~row'[a].due
    <3>1. CASE Suppress(h)
      BY <3>1, <2>1, Decided DEF Suppress, AlertInv, TypeOK, Rows
    <3>2. CASE Reschedule(h)
      <4>1. Recorded(job[h].decision).status = "DEFERRED" /\ ~Recorded(job[h].decision).due
        BY <3>2 DEF Reschedule, PutsOff, Recorded
      <4> QED BY <3>2, <4>1, <2>1, Decided DEF Reschedule, AlertInv, TypeOK
    <3> QED BY <1>9, <3>1, <3>2
  <2>5. notices[a] = 0 /\ row'[a].status # "DELIVERED" /\ a \in Alerts
    BY <2>1, <2>3, <2>4, Decided DEF AlertInv, ShownOnce
  <2>6. \A g \in Handlers : \A b \in Held(g) : Fits(g, b)
    BY <2>4 DEF Fits, Held, Digested, AlertInv, TypeOK, Jobs
  <2> QED BY <1>0, <2>1, <2>2, <2>4, <2>5, <2>6, Narrowing DEF Keeps
<1>10. ASSUME NEW h \in Handlers, DeliverSingle(h) PROVE AlertInv'
  <2> DEFINE a == job[h].alert
             taken == {b \in {a} : Claimable(b, {"DEFERRED"})}
  <2>1. /\ job[h].pc = "decided" /\ job' = [job EXCEPT ![h] = Done(h)] /\ wish' = wish
        /\ job[h].decision = "INSTANT" /\ Show(taken)
    BY <1>10 DEF DeliverSingle, At
  <2>2. \A g \in Handlers : Keeps(g)
    BY <2>1, DoneKeeps
  <2>3. a \in Alerts /\ Decision(a) = "INSTANT"
    BY <2>1, Decided
  <2>4. taken \in SUBSET Alerts /\ \A b \in taken : b = a /\ row[b].status = "DEFERRED"
    BY <2>3 DEF Claimable
  <2>5. \A b \in Alerts : (notices'[b] = notices[b] /\ row'[b] = row[b])
                           \/ notices'[b] = IF row'[b].status = "DELIVERED" THEN 1 ELSE 0
    BY <2>1, <2>4, Showing
  <2>6. \A g \in Handlers : \A b \in Held(g) : Fits(g, b)
    <3> SUFFICES ASSUME NEW g \in Handlers, NEW b \in Held(g) PROVE Fits(g, b)
      OBVIOUS
    <3>1. b \in Alerts
      BY DEF Held, Digested, AlertInv, TypeOK, Jobs
    <3>2. "INSTANT" \in Shows(g, b)
      BY DEF Shows
    <3>3. CASE b \in taken
      <4>1. row'[b].status = "DELIVERED"
        BY <2>1, <2>4, <3>1, <3>3, ShowStep DEF AlertInv
      <4>2. Decision(b) = "INSTANT"
        BY <2>3, <2>4, <3>3
      <4> QED BY <3>2, <4>1, <4>2 DEF Fits
    <3>4. CASE b \notin taken
      BY <2>1, <2>4, <3>1, <3>4, ShowStep DEF AlertInv, Fits
    <3> QED BY <3>3, <3>4
  <2> QED BY <1>0, <2>1, <2>2, <2>5, <2>6, Narrowing DEF Keeps
<1>11. ASSUME NEW h \in Handlers, Keep(h) PROVE AlertInv'
  <2> DEFINE a == job[h].alert
             r == [Done(h) EXCEPT !.kept = @ \cup {a}]
  <2>1. job[h].pc = "decided" /\ UNCHANGED <<wish, row, notices>> /\ job' = [job EXCEPT ![h] = r]
        /\ a \notin job[h].singles /\ job[h].decision \in {"INSTANT", "DAILY_DIGEST"}
    BY <1>11 DEF Keep, At, Single
  <2>2. a \in job[h].digest /\ Decision(a) \in {"INSTANT", "DAILY_DIGEST"}
    BY <2>1, Decided
  <2>3. /\ r.singles = job[h].singles \ {a} /\ r.digest = job[h].digest \ {a} /\ r.kept = job[h].kept \cup {a}
        /\ r.pc = "flush"
    BY DoneJob DEF AlertInv, Jobs
  <2>4. job'[h] = r /\ \A g \in Handlers : g # h => job'[g] = job[g]
    BY <2>1 DEF AlertInv, TypeOK
  <2>5. Keeps(h)
    BY <2>2, <2>3, <2>4 DEF Keeps, Held, Digested, AlertInv, DecidedAsWished
  <2>6. \A g \in Handlers : Keeps(g)
    BY <2>4, <2>5, OthersKeep
  <2> QED BY <1>0, <2>1, <2>6, Narrowing DEF Keeps, Fits
<1>12. ASSUME NEW h \in Handlers, DeliverDigest(h) PROVE AlertInv'
  <2> DEFINE taken == {a \in job[h].kept : Claimable(a, {"DEFERRED"})}
             r == [job[h] EXCEPT !.kept = {}]
  <2>1. job[h].pc = "flush" /\ job' = [job EXCEPT ![h] = r] /\ wish' = wish /\ Show(taken)
    BY <1>12 DEF DeliverDigest, Sorted, At
  <2>2. r.pc = "flush" /\ r.singles = job[h].singles /\ r.digest = job[h].digest /\ r.kept = {}
    BY <2>1 DEF AlertInv, TypeOK, Jobs
  <2>3. job'[h] = r /\ \A g \in Handlers : g # h => job'[g] = job[g]
    BY <2>1 DEF AlertInv, TypeOK
  <2>4. \A g \in Handlers : Keeps(g)
    <3>1. Keeps(h)
      BY <2>2, <2>3 DEF Keeps, Held, Digested
    <3> QED BY <3>1, <2>3, OthersKeep
  <2>5. taken \in SUBSET Alerts /\ \A a \in taken : row[a].status = "DEFERRED" /\ a \in job[h].kept
    BY DEF Claimable, AlertInv, TypeOK, Jobs
  <2>6. \A a \in Alerts : (notices'[a] = notices[a] /\ row'[a] = row[a])
                           \/ notices'[a] = IF row'[a].status = "DELIVERED" THEN 1 ELSE 0
    BY <2>1, <2>5, Showing
  <2>7. \A g \in Handlers : \A b \in Held(g) : Fits(g, b)
    <3> SUFFICES ASSUME NEW g \in Handlers, NEW b \in Held(g) PROVE Fits(g, b)
      OBVIOUS
    <3>1. b \in Alerts
      BY DEF Held, Digested, AlertInv, TypeOK, Jobs
    <3>2. CASE b \in taken
      <4>1. Decision(b) \in {"INSTANT", "DAILY_DIGEST"} /\ b \in Digested(h)
        BY <2>5, <3>2 DEF AlertInv, DecidedAsWished, Digested
      <4>2. b \notin job[g].singles
        BY <4>1 DEF AlertInv, OneKind
      <4>3. row'[b].status = "DELIVERED"
        BY <2>1, <2>5, <3>1, <3>2, ShowStep DEF AlertInv
      <4> QED BY <4>1, <4>2, <4>3 DEF Fits, Shows
    <3>3. CASE b \notin taken
      BY <2>1, <2>5, <3>1, <3>3, ShowStep DEF AlertInv, Fits
    <3> QED BY <3>2, <3>3
  <2> QED BY <1>0, <2>1, <2>4, <2>6, <2>7, Narrowing DEF Keeps
<1>13. ASSUME NEW h \in Handlers, Finish(h) \/ FailDigest(h) \/ FailTick(h) \/ Crash(h) PROVE AlertInv'
  <2>1. UNCHANGED <<wish, row, notices>>
    BY <1>13 DEF Finish, FailDigest, FailTick, Crash
  <2>2. \A g \in Handlers : Keeps(g)
    BY <1>13, EmptyKeeps DEF Finish, FailDigest, FailTick, Crash, Idle
  <2> QED BY <1>0, <2>1, <2>2, Narrowing DEF Keeps, Fits
<1>14. ASSUME NEW h \in Handlers, FailSingle(h) PROVE AlertInv'
  <2>1. UNCHANGED <<wish, row, notices>>
    BY <1>14 DEF FailSingle
  <2>2. \A g \in Handlers : Keeps(g)
    BY <1>14, DoneKeeps DEF FailSingle
  <2> QED BY <1>0, <2>1, <2>2, Narrowing DEF Keeps, Fits
<1> QED BY <1>1, <1>2, <1>3, <1>4, <1>5, <1>6, <1>7, <1>8, <1>9, <1>10, <1>11, <1>12, <1>13, <1>14
        DEF Next, Deliver, Flush, Fail

LEMMA InvHolds == ASSUME Drift = FALSE PROVE Spec => []AlertInv
<1>1. Init => AlertInv
  BY InvInit
<1>2. AlertInv /\ [Next]_vars => AlertInv'
  BY InvStep
<1> QED BY <1>1, <1>2, PTL DEF Spec

\* However many flushes, ticks whose lease ran out and dispatches meet, fail or
\* stop, an alert is shown once and its row says so.
THEOREM AlertsAreShownOnce == ASSUME Drift = FALSE PROVE Spec => []ShownOnce
<1>1. AlertInv => ShownOnce
  BY DEF AlertInv
<1> QED BY <1>1, InvHolds, PTL

\* An alert that was shown or suppressed stays so, and one that waits is never
\* forgotten by its row.
THEOREM AlertsLiveOnce == ASSUME Drift = FALSE PROVE Spec => ImplementsAlertLifecycle
<1>1. AlertInv /\ [Next]_vars
        => [\A a \in Alerts : Life(a)!Next \/ UNCHANGED Waiting(row[a].status)]_vars
  <2> SUFFICES ASSUME AlertInv, Next, NEW a \in Alerts
               PROVE  Life(a)!Next \/ UNCHANGED Waiting(row[a].status)
    OBVIOUS
  <2> DEFINE s == row[a].status
             t == row'[a].status
  <2>1. \/ t = s
        \/ s = "NONE" /\ t \in {"PENDING", "DEFERRED"}
        \/ s \in {"PENDING", "DEFERRED"} /\ t \in {"PENDING", "DEFERRED", "DELIVERED", "SUPPRESSED"}
    <3>1. CASE row' = row
      BY <3>1
    <3>2. ASSUME NEW b \in Alerts, FallDue(b) PROVE t = s
      BY <3>2 DEF FallDue, AlertInv, TypeOK, Rows
    <3>3. ASSUME NEW h \in Handlers, Record(h), row' # row 
          PROVE  t = s \/ (s = "NONE" /\ t \in {"PENDING", "DEFERRED"})
      <4>1. row[job[h].alert].status = "NONE" /\ row' = [row EXCEPT ![job[h].alert] = Recorded(job[h].decision)]
        BY <3>3 DEF Record
      <4>2. Recorded(job[h].decision).status \in {"PENDING", "DEFERRED"}
        BY DEF Recorded
      <4> HIDE DEF s, t
      <4>3. (a = job[h].alert => row'[a] = Recorded(job[h].decision)) /\ (a # job[h].alert => row'[a] = row[a])
        BY <4>1 DEF AlertInv, TypeOK
      <4> QED BY <4>1, <4>2, <4>3 DEF s, t
    <3>4. ASSUME NEW taken \in SUBSET Alerts, Show(taken), \A b \in taken : row[b].status \in {"PENDING", "DEFERRED"}
          PROVE  t = s \/ (s \in {"PENDING", "DEFERRED"} /\ t = "DELIVERED")
      BY <3>4, ShowStep DEF AlertInv
    <3>5. ASSUME NEW h \in Handlers, DeliverInstant(h) \/ DeliverSingle(h)
          PROVE  t = s \/ (s \in {"PENDING", "DEFERRED"} /\ t = "DELIVERED")
      <4>1. \E taken \in SUBSET Alerts : Show(taken) /\ \A b \in taken : row[b].status \in {"PENDING", "DEFERRED"}
        BY <3>5 DEF DeliverInstant, DeliverSingle, At, AlertInv, JobsKnow, Claimable
      <4> QED BY <3>4, <4>1
    <3>6. ASSUME NEW h \in Handlers, DeliverDigest(h)
          PROVE  t = s \/ (s \in {"PENDING", "DEFERRED"} /\ t = "DELIVERED")
      <4>1. \E taken \in SUBSET Alerts : Show(taken) /\ \A b \in taken : row[b].status \in {"PENDING", "DEFERRED"}
        BY <3>6 DEF DeliverDigest, AlertInv, TypeOK, Jobs, Claimable
      <4> QED BY <3>4, <4>1
    <3>7. ASSUME NEW h \in Handlers, Suppress(h)
          PROVE  t = s \/ (s = "DEFERRED" /\ t = "SUPPRESSED")
      <4>1. row[job[h].alert].status \in {"DEFERRED", "SUPPRESSED"}
        BY <3>7, Decided DEF Suppress, At, Shows
      <4>2. row' = [row EXCEPT ![job[h].alert].status = "SUPPRESSED"]
        BY <3>7 DEF Suppress
      <4>3. a = job[h].alert => t = "SUPPRESSED"
        BY <4>2 DEF AlertInv, TypeOK, Rows
      <4>4. a # job[h].alert => t = s
        BY <4>2 DEF AlertInv, TypeOK
      <4> QED BY <4>1, <4>3, <4>4
    <3>8. ASSUME NEW h \in Handlers, Reschedule(h) PROVE t = s
      <4>1. row[job[h].alert].status = "DEFERRED"
        BY <3>8, Decided DEF Reschedule, PutsOff, Single, At, Shows
      <4>2. Recorded(job[h].decision).status = "DEFERRED"
        BY <3>8 DEF Reschedule, PutsOff, Recorded
      <4> QED BY <3>8, <4>1, <4>2 DEF Reschedule, AlertInv, TypeOK
    <3>9. \/ row' = row
          \/ \E b \in Alerts : FallDue(b)
          \/ \E h \in Handlers : Record(h) \/ DeliverInstant(h) \/ DeliverSingle(h) \/ DeliverDigest(h)
                                  \/ Suppress(h) \/ Reschedule(h)
      BY DEF Next, ChangeWish, ExpireLease, GrowCalm, Dispatch, Deliver, Flush, Acquire, ReadDue,
             Decide, Keep, Finish, Fail, FailSingle, FailDigest, FailTick, Crash
    <3> QED BY <3>1, <3>2, <3>3, <3>5, <3>6, <3>7, <3>8, <3>9
  <2> QED BY <2>1 DEF Waiting, Life!Next, Life!Announce, Life!Settle
<1> QED BY <1>1, InvHolds, PTL DEF Spec, ImplementsAlertLifecycle
=============================================================================
