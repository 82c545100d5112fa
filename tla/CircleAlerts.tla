---------------------------- MODULE CircleAlerts ----------------------------
(***************************************************************************)
(* The delivery of circle alerts to one member: dispatch                     *)
(* (profile-circle-notifications.service.ts), deliverInstant and flushDue    *)
(* (profile-circle-notification-delivery.service.ts), which the scheduler    *)
(* runs under a lease and the member and the staff run without one.          *)
(*                                                                           *)
(* deliverSingle and deliverDigest claim, notify and mark in one             *)
(* serializable transaction, so PROCESSING is never seen from outside, and   *)
(* the catch that would mark FAILED finds the claim rolled back: no row is   *)
(* ever FAILED and retryFailed resets nothing.                               *)
(***************************************************************************)
EXTENDS Integers, FiniteSets

CONSTANTS
  Alerts,      \* ProfileCircleNotificationRecipient rows of the member
  Mandatory,   \* alerts of a mandatory type
  Handlers,    \* requests and scheduler ticks in flight
  None,
  Drift        \* whether wishes change and deadlines pass while a handler is in flight

ASSUME AlertAssumption ==
  Mandatory \subseteq Alerts /\ None \notin Alerts \cup Handlers /\ Drift \in BOOLEAN

VARIABLES
  wish,      \* what resolve decides for an optional alert now
  row,       \* the recipient row of each alert
  notices,   \* how many Notification rows show each alert
  job,       \* the handler: where it is and what it has read
  lease,     \* the scheduler's lease
  calm       \* from now on nothing fails (what liveness assumes to happen some day)

vars == <<wish, row, notices, job, lease, calm>>

Modes == {"INSTANT", "AFTER_QUIET_HOURS", "DAILY_DIGEST"}
Decisions == Modes \cup {"OFF"}
NoRow == [status |-> "NONE", mode |-> "INSTANT", due |-> FALSE]
Idle == [pc |-> "idle", alert |-> None, decision |-> "OFF", singles |-> {}, digest |-> {}, kept |-> {}]
Free == [holder |-> None, expired |-> FALSE]

Init ==
  /\ wish \in Decisions
  /\ row = [a \in Alerts |-> NoRow]
  /\ notices = [a \in Alerts |-> 0]
  /\ job = [h \in Handlers |-> Idle]
  /\ lease = Free
  /\ calm = FALSE

At(h, pc) == job[h].pc = pc
Decision(a) == IF a \in Mandatory THEN "INSTANT" ELSE wish

-----------------------------------------------------------------------------
(* The member and the clock.                                                  *)
Still == \A h \in Handlers : At(h, "idle")

ChangeWish ==
  /\ Drift \/ Still
  /\ \E d \in Decisions \ {wish} : wish' = d
  /\ UNCHANGED <<row, notices, job, lease, calm>>

FallDue(a) ==
  /\ Drift \/ Still
  /\ row[a].status = "DEFERRED" /\ ~row[a].due
  /\ row' = [row EXCEPT ![a].due = TRUE]
  /\ UNCHANGED <<wish, notices, job, lease, calm>>

-----------------------------------------------------------------------------
(* dispatch: resolve, upsert, deliver at once.                                *)
Dispatch(h, a) ==
  /\ At(h, "idle") /\ Decision(a) # "OFF"
  /\ job' = [job EXCEPT ![h] = [Idle EXCEPT !.pc = "resolved", !.alert = a, !.decision = Decision(a)]]
  /\ UNCHANGED <<wish, row, notices, lease, calm>>

Recorded(mode) ==
  [status |-> IF mode = "INSTANT" THEN "PENDING" ELSE "DEFERRED", mode |-> mode, due |-> mode = "INSTANT"]

Record(h) ==
  /\ At(h, "resolved")
  /\ LET a == job[h].alert
         d == job[h].decision
     IN /\ row' = IF row[a].status = "NONE" THEN [row EXCEPT ![a] = Recorded(d)] ELSE row
        /\ job' = [job EXCEPT ![h] = IF d = "INSTANT" THEN [@ EXCEPT !.pc = "instant"] ELSE Idle]
  /\ UNCHANGED <<wish, notices, lease, calm>>

\* (as if the claim did not look at the status it found)
ClaimableAnyway(a, allowed) == row[a].status # "NONE" /\ row[a].due

\* (as if the statuses and the deadline were not looked at)
ClaimableEarly(a, allowed) == row[a].status \in {"PENDING", "DEFERRED"}

\* What a claim looks for.
Claimable(a, allowed) == row[a].status \in allowed /\ row[a].due

\* (as if the row were marked after the notification, in a commit of its own)
ShowUnmarked(taken) ==
  /\ notices' = [a \in Alerts |-> IF a \in taken THEN notices[a] + 1 ELSE notices[a]]
  /\ row' = row

\* The transaction: a Notification for the claimed alerts, and their rows.
Show(taken) ==
  /\ notices' = [a \in Alerts |-> IF a \in taken THEN notices[a] + 1 ELSE notices[a]]
  /\ row' = [a \in Alerts |-> IF a \in taken THEN [row[a] EXCEPT !.status = "DELIVERED"] ELSE row[a]]

DeliverInstant(h) ==
  /\ At(h, "instant")
  /\ Show({a \in {job[h].alert} : Claimable(a, {"PENDING"})})
  /\ job' = [job EXCEPT ![h] = Idle]
  /\ UNCHANGED <<wish, lease, calm>>

-----------------------------------------------------------------------------
(* flushDue.                                                                  *)
Acquire(h) ==
  /\ At(h, "idle") /\ (lease.holder \in {None, h} \/ lease.expired)
  /\ lease' = [holder |-> h, expired |-> FALSE]
  /\ job' = [job EXCEPT ![h] = [Idle EXCEPT !.pc = "leased"]]
  /\ UNCHANGED <<wish, row, notices, calm>>

ExpireLease ==
  /\ lease.holder # None /\ ~lease.expired
  /\ lease' = [lease EXCEPT !.expired = TRUE]
  /\ UNCHANGED <<wish, row, notices, job, calm>>

\* (as if the lease were released whoever holds it)
ReleasedAnyway(h) == Free

\* release, and the end of a flush without a lease.
Released(h) == IF lease.holder = h THEN Free ELSE lease

\* (as if only the rows deferred by quiet hours were looked for)
IsDueSingle(a) == row[a].status = "DEFERRED" /\ row[a].due /\ row[a].mode # "DAILY_DIGEST"

IsDue(a) == row[a].status = "DEFERRED" /\ row[a].due

\* Under the lease, or called by the member or the staff.
ReadDue(h) ==
  /\ At(h, "leased") \/ At(h, "idle")
  /\ LET due == {a \in Alerts : IsDue(a)}
         digest == {a \in due : row[a].mode = "DAILY_DIGEST"}
     IN job' = [job EXCEPT ![h] = [Idle EXCEPT !.pc = "flush", !.singles = due \ digest, !.digest = digest]]
  /\ UNCHANGED <<wish, row, notices, lease, calm>>

Single(h) == job[h].alert \in job[h].singles

Decide(h, a) ==
  /\ At(h, "flush")
  /\ IF job[h].singles # {} THEN a \in job[h].singles ELSE a \in job[h].digest
  /\ job' = [job EXCEPT ![h] = [@ EXCEPT !.pc = "decided", !.alert = a, !.decision = Decision(a)]]
  /\ UNCHANGED <<wish, row, notices, lease, calm>>

\* The handler's job after it has dealt with its alert.
Done(h) ==
  [job[h] EXCEPT !.pc = "flush", !.alert = None, !.decision = "OFF",
                 !.singles = @ \ {job[h].alert}, !.digest = @ \ {job[h].alert}]

\* suppressRecipient: the row is found by its id alone.
Suppress(h) ==
  /\ At(h, "decided") /\ job[h].decision = "OFF"
  /\ row' = [row EXCEPT ![job[h].alert].status = "SUPPRESSED"]
  /\ job' = [job EXCEPT ![h] = Done(h)]
  /\ UNCHANGED <<wish, notices, lease, calm>>

PutsOff(h) ==
  IF Single(h) THEN {"AFTER_QUIET_HOURS", "DAILY_DIGEST"} ELSE {"AFTER_QUIET_HOURS"}

\* rescheduleRecipient: the row is found by its id alone.
Reschedule(h) ==
  /\ At(h, "decided") /\ job[h].decision \in PutsOff(h)
  /\ row' = [row EXCEPT ![job[h].alert] = Recorded(job[h].decision)]
  /\ job' = [job EXCEPT ![h] = Done(h)]
  /\ UNCHANGED <<wish, notices, lease, calm>>

DeliverSingle(h) ==
  /\ At(h, "decided") /\ Single(h) /\ job[h].decision = "INSTANT"
  /\ Show({a \in {job[h].alert} : Claimable(a, {"DEFERRED"})})
  /\ job' = [job EXCEPT ![h] = Done(h)]
  /\ UNCHANGED <<wish, lease, calm>>

Keep(h) ==
  /\ At(h, "decided") /\ ~Single(h) /\ job[h].decision \in {"DAILY_DIGEST", "INSTANT"}
  /\ job' = [job EXCEPT ![h] = [Done(h) EXCEPT !.kept = @ \cup {job[h].alert}]]
  /\ UNCHANGED <<wish, row, notices, lease, calm>>

Sorted(h) == At(h, "flush") /\ job[h].singles = {} /\ job[h].digest = {}

DeliverDigest(h) ==
  /\ Sorted(h) /\ job[h].kept # {}
  /\ Show({a \in job[h].kept : Claimable(a, {"DEFERRED"})})
  /\ job' = [job EXCEPT ![h].kept = {}]
  /\ UNCHANGED <<wish, lease, calm>>

Finish(h) ==
  /\ Sorted(h) /\ job[h].kept = {}
  /\ job' = [job EXCEPT ![h] = Idle] /\ lease' = Released(h)
  /\ UNCHANGED <<wish, row, notices, calm>>

-----------------------------------------------------------------------------
(* Failures: PostgreSQL may refuse any statement or transaction.              *)
FailSingle(h) ==
  /\ ~calm
  /\ At(h, "decided") /\ Single(h)
  /\ job' = [job EXCEPT ![h] = Done(h)]
  /\ UNCHANGED <<wish, row, notices, lease, calm>>

FailDigest(h) ==
  /\ ~calm
  /\ (At(h, "decided") /\ ~Single(h)) \/ (Sorted(h) /\ job[h].kept # {})
  /\ job' = [job EXCEPT ![h] = [Idle EXCEPT !.pc = "flush"]]
  /\ UNCHANGED <<wish, row, notices, lease, calm>>

FailTick(h) ==
  /\ ~calm
  /\ At(h, "leased")
  /\ job' = [job EXCEPT ![h] = Idle] /\ lease' = Released(h)
  /\ UNCHANGED <<wish, row, notices, calm>>

\* The process stops, or a dispatch throws.
Crash(h) ==
  /\ ~calm
  /\ ~At(h, "idle")
  /\ job' = [job EXCEPT ![h] = Idle]
  /\ UNCHANGED <<wish, row, notices, lease, calm>>

GrowCalm ==
  /\ ~calm /\ calm' = TRUE
  /\ UNCHANGED <<wish, row, notices, job, lease>>

-----------------------------------------------------------------------------
Deliver(h) == Record(h) \/ DeliverInstant(h)
Flush(h) ==
  \/ Acquire(h) \/ ReadDue(h) \/ (\E a \in Alerts : Decide(h, a))
  \/ Suppress(h) \/ Reschedule(h) \/ DeliverSingle(h) \/ Keep(h) \/ DeliverDigest(h) \/ Finish(h)
Fail(h) == FailSingle(h) \/ FailDigest(h) \/ FailTick(h) \/ Crash(h)

Next ==
  \/ ChangeWish
  \/ ExpireLease
  \/ GrowCalm
  \/ \E a \in Alerts : FallDue(a)
  \/ \E h \in Handlers : (\E a \in Alerts : Dispatch(h, a)) \/ Deliver(h) \/ Flush(h) \/ Fail(h)

Spec == Init /\ [][Next]_vars

\* The failures end some day; then the timer comes back, its lease ends with its
\* tick or with time, and every handler goes on.
FairSpec ==
  /\ Spec
  /\ WF_vars(GrowCalm)
  /\ WF_vars(ExpireLease)
  /\ \A h \in Handlers : WF_vars(Deliver(h) \/ (~At(h, "idle") /\ Flush(h)))
  /\ SF_vars(\E h \in Handlers : Acquire(h))

-----------------------------------------------------------------------------
Statuses == {"NONE", "PENDING", "DEFERRED", "DELIVERED", "SUPPRESSED"}
Rows == [status : Statuses, mode : Modes, due : BOOLEAN]
Jobs == [pc : {"idle", "resolved", "instant", "leased", "flush", "decided"}, alert : Alerts \cup {None},
         decision : Decisions, singles : SUBSET Alerts, digest : SUBSET Alerts, kept : SUBSET Alerts]
TypeOK ==
  /\ wish \in Decisions
  /\ row \in [Alerts -> Rows]
  /\ notices \in [Alerts -> Nat]
  /\ job \in [Handlers -> Jobs]
  /\ lease \in [holder : Handlers \cup {None}, expired : BOOLEAN]
  /\ calm \in BOOLEAN

\* An alert is shown once, and its row says so: no two of a dispatch, the
\* scheduler and the member's own flushes show it twice.
ShownOnce == \A a \in Alerts : notices[a] = IF row[a].status = "DELIVERED" THEN 1 ELSE 0

\* An alert in its quiet hours, or put off to a digest, is not shown before its
\* deadline, though a flush may have read it before it was put off.
NeverEarly == [][\A a \in Alerts : notices'[a] # notices[a] => row[a].due]_vars

\* A tick loses its lease only when the lease expires or the tick is over.
LeaseIsKept ==
  [][\A h \in Handlers : lease.holder = h /\ ~lease.expired /\ lease'.holder # h => job'[h] = Idle]_vars

\* A deadline that has passed is acted on.
DueIsSettled ==
  \A a \in Alerts : (row[a].status = "DEFERRED" /\ row[a].due) ~> ~(row[a].status = "DEFERRED" /\ row[a].due)

\* No alert is forgotten: the architecture document promises it (see the README).
NoneForgotten ==
  \A a \in Alerts : (row[a].status = "PENDING") ~> (row[a].status # "PENDING")

Waiting(s) == IF s \in {"PENDING", "DEFERRED"} THEN "WAITING" ELSE IF s = "DELIVERED" THEN "SHOWN" ELSE s
Life(a) == INSTANCE AlertLifecycle WITH alert <- Waiting(row[a].status)
ImplementsAlertLifecycle == [][\A a \in Alerts : Life(a)!Next \/ UNCHANGED Waiting(row[a].status)]_vars
=============================================================================
