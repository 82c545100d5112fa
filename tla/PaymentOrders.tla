---------------------------- MODULE PaymentOrders ----------------------------
(***************************************************************************)
(* The life of a payment order up to its delivery                          *)
(* (apps/api/src/payments): the Web checkout, the store purchase, and       *)
(* applyVerification, the one path by which the web client, the mobile      *)
(* client and the four webhooks bring a provider's answer to an order,      *)
(* followed by the fulfilment transaction.                                  *)
(*                                                                         *)
(* A job is one HTTP handler; it is split at each await on the database or  *)
(* the provider, and between two awaits any other handler may run.  The     *)
(* KnowCoins of an account move through AtomicLedger, which KnowCoinLedger  *)
(* implements.  Three providers are distinguished: the Web one that answers *)
(* with the transaction's own reference (Flutterwave) and the two stores.   *)
(***************************************************************************)
EXTENDS Integers

CONSTANTS
  Orders,          \* payment orders
  Txns,            \* transactions at the providers
  Workers,         \* concurrent handlers
  Events,          \* webhook event identifiers
  Refunds,         \* refund rows
  Spendings,       \* purchases made with KnowCoins
  Users,           \* accounts
  None,            \* no order, event, transaction or refund
  Owner,           \* the account of each order
  Provider,        \* the provider of each order
  CoinOrders,      \* orders of a KnowCoins pack; the others grant an entitlement
  IdentityOrders,  \* orders of a product that requires a verified identity
  Quantity,        \* KnowCoins of a pack
  Opening,         \* balance of each account at the start
  MaxBalance       \* width of the balance column

Providers == {"FLUTTERWAVE", "GOOGLE_PLAY", "APPLE_APP_STORE"}

ASSUME PaymentAssumption ==
  /\ None \notin Orders \cup Txns \cup Events \cup Refunds
  /\ Owner \in [Orders -> Users]
  /\ Provider \in [Orders -> Providers]
  /\ CoinOrders \subseteq Orders /\ IdentityOrders \subseteq Orders
  /\ Quantity \in Nat \ {0} /\ MaxBalance \in Nat
  /\ Opening \in [Users -> 0..MaxBalance]

VARIABLES
  remote,    \* what the provider knows of each transaction
  order,     \* PaymentOrder with its PaymentInvoice and its EntitlementGrant
  attempt,   \* PaymentAttempt rows, unique by provider transaction
  balance,   \* KnowCoinWallet.balance
  applied,   \* KnowCoinLedgerEntry rows
  job        \* the handlers in flight

payVars == <<remote, order, attempt, balance, applied, job>>

LedgerKeys == ({"payment"} \X Orders) \cup ({"refund"} \X Refunds) \cup ({"spend"} \X Spendings)
Ledger == INSTANCE AtomicLedger WITH Keys <- LedgerKeys, Amounts <- {Quantity, -Quantity}

RemoteStatus == {"NONE", "PENDING", "SUCCESS", "FAILED", "CANCELED", "REFUNDED"}
OrderStatus == {"ABSENT", "CREATED", "PENDING", "PAID", "FULFILLED", "REVIEW_REQUIRED",
                "INIT_FAILED", "CANCELED", "FAILED", "REFUNDED"}

Remote == [order : Orders \cup {None}, status : RemoteStatus, exact : BOOLEAN]
Order == [status : OrderStatus, fulfilled : BOOLEAN, grant : {"NONE", "ACTIVE", "REVOKED"},
          invoice : {"NONE", "PAID", "REFUNDED"}, acked : BOOLEAN]
Attempt == [order : Orders \cup {None},
            status : {"NONE", "VERIFIED", "REJECTED", "PENDING", "FAILED", "CANCELED", "REFUNDED"}]
Steps == {"idle", "checkout", "journal", "persist", "locate", "ask", "record", "mismatch", "write",
          "paid", "fulfil", "review", "deliver", "current", "ack", "ensure", "reverse", "recovery",
          "close", "failed"}
Job == [pc : Steps, event : Events \cup {None}, order : Orders \cup {None},
        txn : Txns \cup {None}, refund : Refunds \cup {None}, status : RemoteStatus, match : BOOLEAN]

Idle == [pc |-> "idle", event |-> None, order |-> None, txn |-> None, refund |-> None,
         status |-> "NONE", match |-> FALSE]

Web(o) == Provider[o] = "FLUTTERWAVE"

Init ==
  /\ remote = [t \in Txns |-> [order |-> None, status |-> "NONE", exact |-> TRUE]]
  /\ order = [o \in Orders |-> [status |-> "ABSENT", fulfilled |-> FALSE, grant |-> "NONE",
                                invoice |-> "NONE", acked |-> FALSE]]
  /\ attempt = [t \in Txns |-> [order |-> None, status |-> "NONE"]]
  /\ Ledger!Init
  /\ job = [w \in Workers |-> Idle]

-----------------------------------------------------------------------------
(* The providers and the customer: how the adapters' answers come about.   *)

\* The customer pays an order: on the Web once its checkout link is out, and
\* possibly another amount; in a store exactly, and once.
Pay(t, o) ==
  /\ remote[t].status = "NONE"
  /\ IF Web(o) THEN order[o].status \notin {"ABSENT", "CREATED", "INIT_FAILED"}
               ELSE \A s \in Txns : remote[s].order # o
  /\ \E exact \in BOOLEAN :
       /\ ~Web(o) => exact
       /\ remote' = [remote EXCEPT ![t] = [order |-> o, status |-> "PENDING", exact |-> exact]]
  /\ UNCHANGED <<order, attempt, balance, applied, job>>

\* Apple only knows transactions that went through.
Outcomes(o) ==
  CASE Web(o)                            -> {"SUCCESS", "FAILED", "CANCELED"}
    [] Provider[o] = "GOOGLE_PLAY"       -> {"SUCCESS", "CANCELED"}
    [] Provider[o] = "APPLE_APP_STORE"   -> {"SUCCESS"}

Settle(t) ==
  /\ remote[t].status = "PENDING"
  /\ \E s \in Outcomes(remote[t].order) : remote' = [remote EXCEPT ![t].status = s]
  /\ UNCHANGED <<order, attempt, balance, applied, job>>

\* Money goes back: a refund, or a store revoking the purchase.
GiveBack(t) ==
  /\ remote[t].status = "SUCCESS"
  /\ remote' = [remote EXCEPT ![t].status = "REFUNDED"]
  /\ UNCHANGED <<order, attempt, balance, applied, job>>

\* The answer each adapter makes of it; Google reports a revoked purchase as
\* cancelled, and Apple has no transaction to show before it went through.
Answerable(o, s) == s # "NONE" /\ (Provider[o] = "APPLE_APP_STORE" => s # "PENDING")
Reported(o, s) == IF Provider[o] = "GOOGLE_PLAY" /\ s = "REFUNDED" THEN "CANCELED" ELSE s

-----------------------------------------------------------------------------
Go(w, pc) == job' = [job EXCEPT ![w].pc = pc]

\* A handler that is done answers its client; a webhook also closes its log.
Finish(w) == job' = [job EXCEPT ![w] = IF @.event = None THEN Idle ELSE [@ EXCEPT !.pc = "close"]]
Fail(w) == job' = [job EXCEPT ![w] = IF @.event = None THEN Idle ELSE [@ EXCEPT !.pc = "failed"]]

-----------------------------------------------------------------------------
(* createWebCheckout.  The order row is the idempotency record: a repeated   *)
(* key finds it and changes nothing.                                         *)
CreateWebCheckout(w, o) ==
  /\ job[w].pc = "idle" /\ Web(o)
  /\ order[o].status = "ABSENT"
  /\ order' = [order EXCEPT ![o].status = "CREATED"]
  /\ job' = [job EXCEPT ![w] = [Idle EXCEPT !.pc = "checkout", !.order = o]]
  /\ UNCHANGED <<remote, attempt, balance, applied>>

\* The provider returned a link; the order is PENDING before it is journalled.
InitCheckout(w) ==
  /\ job[w].pc = "checkout"
  /\ order' = [order EXCEPT ![job[w].order].status = "PENDING"]
  /\ Go(w, "journal")
  /\ UNCHANGED <<remote, attempt, balance, applied>>

JournalCheckout(w) ==
  /\ job[w].pc = "journal"
  /\ job' = [job EXCEPT ![w] = Idle]
  /\ UNCHANGED <<remote, order, attempt, balance, applied>>

\* The catch block covers the provider call, the update and the audit alike.
AbandonCheckout(w) ==
  /\ job[w].pc \in {"checkout", "journal"}
  /\ order' = [order EXCEPT ![job[w].order].status = "INIT_FAILED"]
  /\ job' = [job EXCEPT ![w] = Idle]
  /\ UNCHANGED <<remote, attempt, balance, applied>>

-----------------------------------------------------------------------------
(* How a client brings a transaction to an order.                           *)
VerifyWebOrder(w, o, t) ==
  /\ job[w].pc = "idle" /\ Web(o)
  /\ order[o].status # "ABSENT"
  /\ job' = [job EXCEPT ![w] = [Idle EXCEPT !.pc = "ask", !.order = o, !.txn = t]]
  /\ UNCHANGED <<remote, order, attempt, balance, applied>>

\* A store proof seen before returns the order as it is; a new one creates the
\* order before the store is asked.
VerifyStorePurchase(w, o, t) ==
  /\ job[w].pc = "idle" /\ ~Web(o)
  /\ remote[t].order = o
  /\ order[o].status = "ABSENT"
  /\ order' = [order EXCEPT ![o].status = "PENDING"]
  /\ job' = [job EXCEPT ![w] = [Idle EXCEPT !.pc = "ask", !.order = o, !.txn = t]]
  /\ UNCHANGED <<remote, attempt, balance, applied>>

\* (as if the reference, the amount and the currency were not compared)
AskUnchecked(w) ==
  LET o == job[w].order
      r == remote[job[w].txn]
  IN  /\ job[w].pc = "ask"
      /\ Answerable(o, r.status)
      /\ job' = [job EXCEPT ![w] = [@ EXCEPT !.pc = "record", !.status = Reported(o, r.status), !.match = TRUE]]
      /\ UNCHANGED <<remote, order, attempt, balance, applied>>

\* The provider's answer for the transaction.  Only a Web answer carries a
\* reference and an amount to compare with the order.
Ask(w) ==
  LET o == job[w].order
      r == remote[job[w].txn]
  IN  /\ job[w].pc = "ask"
      /\ Answerable(o, r.status)
      /\ job' = [job EXCEPT ![w] = [@ EXCEPT !.pc = "record", !.status = Reported(o, r.status),
                                            !.match = Web(o) => r.order = o /\ r.exact]]
      /\ UNCHANGED <<remote, order, attempt, balance, applied>>

-----------------------------------------------------------------------------
(* applyVerification.                                                       *)
AttemptStatus(w) ==
  IF ~job[w].match THEN "REJECTED"
  ELSE IF job[w].status = "SUCCESS" THEN "VERIFIED" ELSE job[w].status

AfterRecord(w) ==
  IF ~job[w].match THEN "mismatch"
  ELSE IF job[w].status = "SUCCESS" THEN "paid" ELSE "write"

\* (as if a duplicate transaction were returned whatever order it is of)
RecordAnyOrder(w) ==
  LET t == job[w].txn
  IN  /\ job[w].pc = "record"
      /\ IF attempt[t].order = None
         THEN attempt' = [attempt EXCEPT ![t] = [order |-> job[w].order, status |-> AttemptStatus(w)]]
         ELSE UNCHANGED attempt
      /\ Go(w, AfterRecord(w))
      /\ UNCHANGED <<remote, order, balance, applied>>

\* (as if a transaction already recorded were refused, even for its order)
RecordOnce(w) ==
  LET t == job[w].txn
  IN  /\ job[w].pc = "record"
      /\ IF attempt[t].order = None
         THEN /\ attempt' = [attempt EXCEPT ![t] = [order |-> job[w].order, status |-> AttemptStatus(w)]]
              /\ Go(w, AfterRecord(w))
         ELSE Fail(w) /\ UNCHANGED attempt
      /\ UNCHANGED <<remote, order, balance, applied>>

\* recordAttempt: one row per provider transaction.  A second verification of
\* the same order keeps the row it finds, with the status it had.
Record(w) ==
  LET t == job[w].txn
      o == job[w].order
  IN  /\ job[w].pc = "record"
      /\ \/ /\ attempt[t].order = None
            /\ attempt' = [attempt EXCEPT ![t] = [order |-> o, status |-> AttemptStatus(w)]]
            /\ Go(w, AfterRecord(w))
         \/ /\ attempt[t].order = o
            /\ Go(w, AfterRecord(w))
            /\ UNCHANGED attempt
         \/ /\ attempt[t].order \notin {None, o}     \* PROVIDER_TRANSACTION_REUSE
            /\ Fail(w)
            /\ UNCHANGED attempt
      /\ UNCHANGED <<remote, order, balance, applied>>

Mismatch(w) ==
  /\ job[w].pc = "mismatch"
  /\ order' = [order EXCEPT ![job[w].order].status = "REVIEW_REQUIRED"]
  /\ Fail(w)
  /\ UNCHANGED <<remote, attempt, balance, applied>>

MarkPaid(w) ==
  /\ job[w].pc = "paid"
  /\ order' = [order EXCEPT ![job[w].order].status = "PAID"]
  /\ Go(w, "fulfil")
  /\ UNCHANGED <<remote, attempt, balance, applied>>

\* Any other answer overwrites the status, whatever it was.  An Apple webhook
\* goes on with the reversal of a revoked purchase.
WriteStatus(w) ==
  LET j == job[w]
  IN  /\ j.pc = "write"
      /\ order' = [order EXCEPT ![j.order].status = j.status]
      /\ IF j.status = "REFUNDED" /\ j.event # None /\ Provider[j.order] = "APPLE_APP_STORE"
         THEN Go(w, "ensure") ELSE Finish(w)
      /\ UNCHANGED <<remote, attempt, balance, applied>>

-----------------------------------------------------------------------------
(* PaymentFulfillmentService.                                               *)
\* fulfill: read outside the transaction; the identity check may refuse.
Fulfil(w) ==
  LET o == job[w].order
  IN  /\ job[w].pc = "fulfil"
      /\ \/ order[o].fulfilled /\ Go(w, "current")
         \/ ~order[o].fulfilled /\ Go(w, "deliver")
         \/ ~order[o].fulfilled /\ o \in IdentityOrders /\ Go(w, "review")
      /\ UNCHANGED <<remote, order, attempt, balance, applied>>

Review(w) ==
  /\ job[w].pc = "review"
  /\ order' = [order EXCEPT ![job[w].order].status = "REVIEW_REQUIRED"]
  /\ Go(w, "current")
  /\ UNCHANGED <<remote, attempt, balance, applied>>

\* applyInTransaction within the fulfilment: a key already used is a replay.
Credit(o) ==
  IF o \in CoinOrders /\ ~Ledger!Used(<<"payment", o>>)
  THEN Ledger!Apply(Owner[o], <<"payment", o>>, Quantity)
  ELSE UNCHANGED <<balance, applied>>

\* The order with its grant and its invoice, once delivered.
Delivered(o) ==
  [order[o] EXCEPT !.status = "FULFILLED", !.fulfilled = TRUE,
                   !.grant = IF o \in CoinOrders THEN @ ELSE "ACTIVE", !.invoice = "PAID"]

\* (as if the credit were made in a transaction of its own, before the order's)
DeliverInTwo(w) ==
  LET o == job[w].order
  IN  /\ job[w].pc = "deliver"
      /\ \/ /\ o \in CoinOrders /\ ~Ledger!Used(<<"payment", o>>)
            /\ Credit(o) /\ UNCHANGED <<order, job>>
         \/ /\ o \notin CoinOrders \/ Ledger!Used(<<"payment", o>>)
            /\ order' = [order EXCEPT ![o] = Delivered(o)]
            /\ Go(w, "current")
            /\ UNCHANGED <<balance, applied>>
      /\ UNCHANGED <<remote, attempt>>

\* fulfillKnowCoins and fulfillEntitlement: one serializable transaction that
\* re-reads the order; a second delivery finds it fulfilled.
Deliver(w) ==
  LET o == job[w].order
  IN  /\ job[w].pc = "deliver"
      /\ \/ order[o].fulfilled /\ UNCHANGED <<order, balance, applied>>
         \/ /\ ~order[o].fulfilled
            /\ Credit(o)
            /\ order' = [order EXCEPT ![o] = Delivered(o)]
      /\ Go(w, "current")
      /\ UNCHANGED <<remote, attempt>>

\* (as if Google were told of every successful verification)
CurrentAlwaysAck(w) ==
  /\ job[w].pc = "current"
  /\ IF Provider[job[w].order] = "GOOGLE_PLAY" THEN Go(w, "ack") ELSE Finish(w)
  /\ UNCHANGED <<remote, order, attempt, balance, applied>>

\* The order is read again for the answer; a fulfilled Google purchase is then
\* acknowledged, or the store would give the money back.
Current(w) ==
  LET o == job[w].order
  IN  /\ job[w].pc = "current"
      /\ IF Provider[o] = "GOOGLE_PLAY" /\ order[o].fulfilled THEN Go(w, "ack") ELSE Finish(w)
      /\ UNCHANGED <<remote, order, attempt, balance, applied>>

Acknowledge(w) ==
  /\ job[w].pc = "ack"
  /\ order' = [order EXCEPT ![job[w].order].acked = TRUE]
  /\ Finish(w)
  /\ UNCHANGED <<remote, attempt, balance, applied>>

-----------------------------------------------------------------------------
\* Any await of the verification may throw: provider unreachable, database
\* error, serialization failure (the fulfilment does not try again).
Awaiting == {"ask", "record", "mismatch", "write", "paid", "fulfil", "review", "deliver",
             "current", "ack", "ensure", "reverse", "recovery", "close"}
Throw(w) ==
  /\ job[w].pc \in Awaiting
  /\ Fail(w)
  /\ UNCHANGED <<remote, order, attempt, balance, applied>>

\* The process stops: the handler is gone, what it committed stays.
Crash(w) ==
  /\ job[w].pc # "idle"
  /\ job' = [job EXCEPT ![w] = Idle]
  /\ UNCHANGED <<remote, order, attempt, balance, applied>>

\* KnowCoins leave the account by a purchase elsewhere in KnowMe.
Spend(s, u) ==
  /\ Ledger!Apply(u, <<"spend", s>>, -Quantity)
  /\ UNCHANGED <<remote, order, attempt, job>>

VerificationStep(w) ==
  InitCheckout(w) \/ JournalCheckout(w) \/ Ask(w) \/ Record(w) \/ Mismatch(w) \/ MarkPaid(w)
    \/ WriteStatus(w) \/ Fulfil(w) \/ Review(w) \/ Deliver(w) \/ Current(w) \/ Acknowledge(w)

OrderNext ==
  \/ \E t \in Txns : \/ \E o \in Orders : Pay(t, o)
                     \/ Settle(t) \/ GiveBack(t)
  \/ \E w \in Workers :
       \/ \E o \in Orders : CreateWebCheckout(w, o)
       \/ \E o \in Orders, t \in Txns : VerifyWebOrder(w, o, t) \/ VerifyStorePurchase(w, o, t)
       \/ VerificationStep(w) \/ AbandonCheckout(w) \/ Throw(w) \/ Crash(w)
  \/ \E s \in Spendings, u \in Users : Spend(s, u)
=============================================================================
