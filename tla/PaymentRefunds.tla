--------------------------- MODULE PaymentRefunds ---------------------------
(***************************************************************************)
(* PaymentRefundService and PaymentReversalService: staff ask for a full    *)
(* refund, the provider carries it out, staff confirm it, and a             *)
(* serializable transaction takes back what the order delivered.  A task is *)
(* one staff request in flight, split at its awaits.                        *)
(***************************************************************************)
EXTENDS PaymentOrders

CONSTANT Staff   \* concurrent staff requests

VARIABLES
  refund,        \* PaymentRefund rows
  task           \* the staff requests in flight

refundVars == <<refund, task>>

RefundStatus == {"NONE", "REQUESTED", "PROCESSING", "PROVIDER_MANAGED", "CONFIRMED",
                 "COMPLETED", "FAILED", "RECOVERY_REQUIRED"}
Refund == [status : RefundStatus, order : Orders \cup {None},
           source : Txns \cup {None}, completed : BOOLEAN]
Task == [pc : {"idle", "active", "create", "submit", "confirm", "reverse", "recovery"},
         order : Orders \cup {None}, refund : Refunds \cup {None}]
NoTask == [pc |-> "idle", order |-> None, refund |-> None]

RefundInit ==
  /\ refund = [r \in Refunds |-> [status |-> "NONE", order |-> None, source |-> None, completed |-> FALSE]]
  /\ task = [d \in Staff |-> NoTask]

-----------------------------------------------------------------------------
(* requestRefund.                                                           *)
\* The order, with the attempt its provider refund needs.
RequestRefund(d, o) ==
  /\ task[d].pc = "idle"
  /\ order[o].fulfilled /\ order[o].status \in {"FULFILLED", "PAID"}
  /\ \E t \in Txns : attempt[t] = [order |-> o, status |-> "VERIFIED"]
  /\ task' = [task EXCEPT ![d] = [NoTask EXCEPT !.pc = "active", !.order = o]]
  /\ UNCHANGED <<payVars, refund>>

\* What the sum of active refunds counts.
Active == {"REQUESTED", "PROCESSING", "PROVIDER_MANAGED", "COMPLETED"}
HasActiveRefund(o) == \E r \in Refunds : refund[r].order = o /\ refund[r].status \in Active

CheckActive(d) ==
  /\ task[d].pc = "active"
  /\ task' = [task EXCEPT ![d] = IF HasActiveRefund(@.order) THEN NoTask ELSE [@ EXCEPT !.pc = "create"]]
  /\ UNCHANGED <<payVars, refund>>

\* A Web refund is submitted to the provider; a store's is left to the store.
CreateRefund(d, r) ==
  LET o == task[d].order
  IN  /\ task[d].pc = "create"
      /\ refund[r].status = "NONE"
      /\ refund' = [refund EXCEPT ![r] =
           [@ EXCEPT !.order = o, !.status = IF Web(o) THEN "REQUESTED" ELSE "PROVIDER_MANAGED"]]
      /\ task' = [task EXCEPT ![d] = IF Web(o) THEN [@ EXCEPT !.pc = "submit", !.refund = r] ELSE NoTask]
      /\ UNCHANGED payVars

SubmitRefund(d) ==
  /\ task[d].pc = "submit"
  /\ \E s \in {"PROCESSING", "FAILED"} : refund' = [refund EXCEPT ![task[d].refund].status = s]
  /\ task' = [task EXCEPT ![d] = NoTask]
  /\ UNCHANGED payVars

-----------------------------------------------------------------------------
(* confirmExternalRefund.                                                   *)
ConfirmRefund(d, r) ==
  /\ task[d].pc = "idle"
  /\ refund[r].status # "NONE"
  /\ refund[r].completed \/ (Web(refund[r].order) => refund[r].status = "PROCESSING")
  /\ task' = [task EXCEPT ![d] = [pc |-> IF refund[r].completed THEN "reverse" ELSE "confirm",
                                  order |-> refund[r].order, refund |-> r]]
  /\ UNCHANGED <<payVars, refund>>

\* The refund was read two awaits earlier: another confirmation may have
\* completed it since, and its status goes back to CONFIRMED.
MarkConfirmed(d) ==
  /\ task[d].pc = "confirm"
  /\ refund' = [refund EXCEPT ![task[d].refund].status = "CONFIRMED"]
  /\ task' = [task EXCEPT ![d].pc = "reverse"]
  /\ UNCHANGED payVars

-----------------------------------------------------------------------------
(* reverse: what the transaction does to order o for refund r.              *)
Replayed(o, r) == refund[r].completed /\ order[o].status = "REFUNDED"
DebitDue(o, r) == o \in CoinOrders /\ ~Ledger!Used(<<"refund", r>>)

\* The order with its grant and its invoice, once its delivery is taken back.
TakenBack(o) ==
  [order[o] EXCEPT !.status = "REFUNDED", !.grant = IF @ = "ACTIVE" THEN "REVOKED" ELSE @,
                   !.invoice = IF @ = "NONE" THEN @ ELSE "REFUNDED"]

\* (as if nothing were compensated when the coins are gone)
ReverseEvenSpent(o, r) ==
  \/ Replayed(o, r) /\ UNCHANGED <<order, balance, applied, refund>>
  \/ /\ ~Replayed(o, r)
     /\ IF DebitDue(o, r) /\ balance[Owner[o]] >= Quantity
        THEN Ledger!Apply(Owner[o], <<"refund", r>>, -Quantity)
        ELSE UNCHANGED <<balance, applied>>
     /\ order' = [order EXCEPT ![o] = TakenBack(o)]
     /\ refund' = [refund EXCEPT ![r] = [@ EXCEPT !.status = "COMPLETED", !.completed = TRUE]]

\* (as if an undelivered order could be compensated)
ReverseUndelivered(o, r) ==
  \/ Replayed(o, r) /\ UNCHANGED <<order, balance, applied, refund>>
  \/ /\ ~Replayed(o, r)
     /\ IF DebitDue(o, r)
        THEN Ledger!Apply(Owner[o], <<"refund", r>>, -Quantity)
        ELSE UNCHANGED <<balance, applied>>
     /\ order' = [order EXCEPT ![o].status = "REFUNDED"]
     /\ refund' = [refund EXCEPT ![r] = [@ EXCEPT !.status = "COMPLETED", !.completed = TRUE]]

Reverse(o, r) ==
  \/ Replayed(o, r) /\ UNCHANGED <<order, balance, applied, refund>>
  \/ /\ ~Replayed(o, r)
     /\ order[o].fulfilled
     /\ IF DebitDue(o, r)
        THEN Ledger!Apply(Owner[o], <<"refund", r>>, -Quantity)
        ELSE UNCHANGED <<balance, applied>>
     /\ order' = [order EXCEPT ![o] = TakenBack(o)]
     /\ refund' = [refund EXCEPT ![r] = [@ EXCEPT !.status = "COMPLETED", !.completed = TRUE]]

\* The coins are spent: nothing of the transaction remains.
CoinsSpent(o, r) ==
  ~Replayed(o, r) /\ order[o].fulfilled /\ DebitDue(o, r) /\ balance[Owner[o]] < Quantity

ReverseRefund(d) ==
  LET o == task[d].order
      r == task[d].refund
  IN  /\ task[d].pc = "reverse"
      /\ \/ /\ Reverse(o, r)
            /\ task' = [task EXCEPT ![d] = NoTask]
         \/ /\ CoinsSpent(o, r)
            /\ task' = [task EXCEPT ![d].pc = "recovery"]
            /\ UNCHANGED <<order, balance, applied, refund>>
      /\ UNCHANGED <<remote, attempt, job>>

\* The catch block, outside the transaction that was rolled back.
RequireRecovery(d) ==
  /\ task[d].pc = "recovery"
  /\ refund' = [refund EXCEPT ![task[d].refund].status = "RECOVERY_REQUIRED"]
  /\ task' = [task EXCEPT ![d] = NoTask]
  /\ UNCHANGED payVars

\* A request that throws or whose process stops leaves what it committed.
DropTask(d) ==
  /\ task[d].pc # "idle"
  /\ task' = [task EXCEPT ![d] = NoTask]
  /\ UNCHANGED <<payVars, refund>>

RefundStep(d) ==
  \/ CheckActive(d) \/ (\E r \in Refunds : CreateRefund(d, r)) \/ SubmitRefund(d)
  \/ MarkConfirmed(d) \/ ReverseRefund(d) \/ RequireRecovery(d) \/ DropTask(d)

RefundNext ==
  \E d \in Staff :
    \/ \E o \in Orders : RequestRefund(d, o)
    \/ \E r \in Refunds : ConfirmRefund(d, r)
    \/ RefundStep(d)
=============================================================================
