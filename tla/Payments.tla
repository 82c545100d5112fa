------------------------------ MODULE Payments ------------------------------
(***************************************************************************)
(* The payment system: orders, webhooks and refunds on the same rows, with  *)
(* the one path that crosses all three, an Apple notification of a revoked  *)
(* purchase, which writes the order, creates a refund and reverses it.      *)
(***************************************************************************)
EXTENDS PaymentWebhooks, PaymentRefunds

vars == <<remote, order, attempt, balance, applied, job, event, refund, task>>

\* ensureProviderRefund: one refund per revoked transaction, found or created.
EnsureProviderRefund(w) ==
  LET j == job[w]
  IN  /\ j.pc = "ensure"
      /\ \E r \in Refunds :
           /\ \/ refund[r].source = j.txn /\ UNCHANGED refund
              \/ /\ \A q \in Refunds : refund[q].source # j.txn
                 /\ refund[r].status = "NONE"
                 /\ refund' = [refund EXCEPT ![r] =
                      [status |-> "CONFIRMED", order |-> j.order, source |-> j.txn, completed |-> FALSE]]
           /\ job' = [job EXCEPT ![w] = [@ EXCEPT !.pc = "reverse", !.refund = r]]
      /\ UNCHANGED <<remote, order, attempt, balance, applied, event, task>>

ReverseRevoked(w) ==
  LET j == job[w]
  IN  /\ j.pc = "reverse"
      /\ \/ Reverse(j.order, j.refund) /\ Finish(w)
         \/ CoinsSpent(j.order, j.refund) /\ Go(w, "recovery")
              /\ UNCHANGED <<order, balance, applied, refund>>
      /\ UNCHANGED <<remote, attempt, event, task>>

RequireRecoveryRevoked(w) ==
  /\ job[w].pc = "recovery"
  /\ refund' = [refund EXCEPT ![job[w].refund].status = "RECOVERY_REQUIRED"]
  /\ Fail(w)
  /\ UNCHANGED <<remote, order, attempt, balance, applied, event, task>>

AppleStep(w) == EnsureProviderRefund(w) \/ ReverseRevoked(w) \/ RequireRecoveryRevoked(w)

PaymentsInit == Init /\ WebhookInit /\ RefundInit

Next ==
  \/ OrderNext /\ UNCHANGED <<event, refund, task>>
  \/ WebhookNext /\ UNCHANGED <<refund, task>>
  \/ RefundNext /\ UNCHANGED event
  \/ \E w \in Workers : AppleStep(w)

Spec == PaymentsInit /\ [][Next]_vars

\* A promise that is pending settles; providers and staff may never come back.
JobStep(w) ==
  \/ (VerificationStep(w) \/ Throw(w)) /\ UNCHANGED <<event, refund, task>>
  \/ WebhookStep(w) /\ UNCHANGED <<refund, task>>
  \/ AppleStep(w)
TaskStep(d) == RefundStep(d) /\ UNCHANGED event
FairSpec ==
  /\ Spec
  /\ \A w \in Workers : WF_vars(JobStep(w))
  /\ \A d \in Staff : WF_vars(TaskStep(d))

\* The customer asks again until the order is settled, and what is tried again
\* and again does not throw every time.
Asks(o, t) ==
  /\ \E w \in Workers : VerifyWebOrder(w, o, t) \/ VerifyStorePurchase(w, o, t)
  /\ UNCHANGED <<event, refund, task>>
Succeeds(w, o, t, pc) ==
  /\ job[w].pc = pc /\ job[w].order = o /\ job[w].txn = t
  /\ VerificationStep(w) /\ UNCHANGED <<event, refund, task>>
RetrySpec ==
  /\ FairSpec
  /\ \A o \in Orders, t \in Txns :
       /\ SF_vars(Asks(o, t))
       /\ \A w \in Workers, pc \in {"ask", "record", "paid", "fulfil", "deliver"} :
            SF_vars(Succeeds(w, o, t, pc))

-----------------------------------------------------------------------------
\* Shapes of the state.
TypeOK ==
  /\ remote \in [Txns -> Remote]
  /\ order \in [Orders -> Order]
  /\ attempt \in [Txns -> Attempt]
  /\ balance \in [Users -> 0..MaxBalance]
  /\ applied \subseteq [key : LedgerKeys, user : Users, amount : {Quantity, -Quantity}]
  /\ job \in [Workers -> Job]
  /\ event \in [Events -> Event]
  /\ refund \in [Refunds -> Refund]
  /\ task \in [Staff -> Task]

\* A provider transaction pays an order: it is of that order, of its amount,
\* and it went through (it may have been given back since).
Pays(t, o) ==
  /\ remote[t].order = o /\ remote[t].exact
  /\ remote[t].status \in {"SUCCESS", "REFUNDED"}
Paid(o) == \E t \in Txns : Pays(t, o)

\* Whatever handlers interleave, and whatever transaction a client names, an
\* order is delivered only on a payment of exactly that order whose proof is
\* recorded against it and against no other order.
DeliveredOnProof ==
  \A o \in Orders : order[o].fulfilled => \E t \in Txns : Pays(t, o) /\ attempt[t].order = o

\* fulfilledAt, the credit or the grant, and the invoice come and stay together:
\* no crash or error leaves a credit without its order, or the reverse.
DeliveryIsWhole ==
  \A o \in Orders :
    /\ order[o].fulfilled <=> order[o].invoice # "NONE"
    /\ o \in CoinOrders => (order[o].fulfilled <=> Ledger!Used(<<"payment", o>>))
    /\ o \notin CoinOrders => (order[o].fulfilled <=> order[o].grant # "NONE")

\* A completed refund took back what its order delivered, and the invoice says
\* so exactly when a refund of the order completed; a payment arriving late
\* does not make the invoice paid again nor restore the grant.
RefundTakesBack ==
  \A o \in Orders :
    LET done == \E r \in Refunds : refund[r].completed /\ refund[r].order = o
    IN  /\ order[o].invoice = "REFUNDED" <=> done
        /\ order[o].grant = "REVOKED" <=> done /\ o \notin CoinOrders
        /\ \A r \in Refunds : refund[r].order = o /\ o \in CoinOrders =>
             (refund[r].completed <=> Ledger!Used(<<"refund", r>>))

\* Google is only told of a purchase that was delivered.
AcknowledgedOnlyIfDelivered ==
  \A o \in Orders : order[o].acked => order[o].fulfilled

\* However often and however concurrently an event is delivered, one handler at
\* most works on it.
EventHandledOnce ==
  \A v, w \in Workers :
    job[v].event # None /\ job[v].pc # "persist" /\ job[w].pc # "persist"
      /\ job[v].event = job[w].event => v = w

\* No step takes coins from an account but for something bought with them or
\* for a refund of an order that had been delivered before that step.
DebitsAreOwed ==
  [][\A m \in applied' \ applied :
       m.key[1] = "refund" => \E o \in CoinOrders :
         refund[m.key[2]].order = o /\ order[o].fulfilled /\ m.user = Owner[o]]_vars

\* A customer who paid and keeps asking is served at last, whatever threw or
\* stopped before, unless the money went back meanwhile.
PaidIsDelivered ==
  \A o \in Orders \ IdentityOrders, t \in Txns :
    (Pays(t, o) /\ remote[t].status = "SUCCESS") ~> (order[o].fulfilled \/ remote[t].status = "REFUNDED")

\* The abstract life of an order.
Reversed(o) == \E r \in Refunds : refund[r].order = o /\ refund[r].completed
PhaseOf == [o \in Orders |->
  IF Reversed(o) THEN "reversed" ELSE IF order[o].fulfilled THEN "delivered"
  ELSE IF Paid(o) THEN "paid" ELSE "unpaid"]
Promise == INSTANCE PaidDelivery WITH phase <- PhaseOf
\* Handlers, webhooks and refunds together keep the promise of PaidDelivery.
ImplementsPaidDelivery == Promise!Spec

-----------------------------------------------------------------------------
(* What the repository says of payments and the code does not ensure.       *)

\* "Cette commande possede deja un remboursement actif": an order is refunded
\* once, so its delivery is taken back by one refund.
OneReversalPerOrder ==
  \A q, r \in Refunds :
    refund[q].completed /\ refund[r].completed /\ refund[q].order = refund[r].order => q = r

\* "Le webhook signe declenche une verification distante": an event the provider
\* was told is accepted was verified, or concerns no order, or is in hand.
AcceptedEventIsVerified ==
  \A e \in Events :
    event[e].accepted => \/ event[e].log \in {"PROCESSED", "IGNORED"}
                         \/ \E w \in Workers : job[w].event = e

\* "PaymentAttempt : preuve fournisseur verifiee": a delivered order has the
\* verified attempt that a refund of it needs.
DeliveredIsRefundable ==
  \A o \in Orders : order[o].fulfilled => \E t \in Txns : attempt[t] = [order |-> o, status |-> "VERIFIED"]
=============================================================================
