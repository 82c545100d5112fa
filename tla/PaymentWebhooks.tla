--------------------------- MODULE PaymentWebhooks ---------------------------
(***************************************************************************)
(* PaymentWebhookService: a provider notifies KnowMe of a transaction and   *)
(* sends the same event again until it is accepted.  The log row of the     *)
(* event is the idempotency record; the event itself is never evidence: the *)
(* provider is asked again, through PaymentOrders' verification.            *)
(***************************************************************************)
EXTENDS PaymentOrders

VARIABLE event   \* PaymentWebhookLog of each event, and what the provider was told

LogStatus == {"NONE", "RECEIVED", "PROCESSED", "IGNORED", "FAILED"}
Event == [txn : Txns \cup {None}, log : LogStatus, accepted : BOOLEAN]

WebhookInit == event = [e \in Events |-> [txn |-> None, log |-> "NONE", accepted |-> FALSE]]

\* The provider has news of a transaction (the network may repeat Receive).
Notify(e, t) ==
  /\ event[e].txn = None
  /\ remote[t].status # "NONE"
  /\ event' = [event EXCEPT ![e].txn = t]
  /\ UNCHANGED payVars

\* persistWebhook, the lookup: an event already logged is accepted as a replay.
Receive(w, e) ==
  /\ job[w].pc = "idle"
  /\ event[e].txn # None
  /\ IF event[e].log = "NONE"
     THEN /\ job' = [job EXCEPT ![w] = [Idle EXCEPT !.pc = "persist", !.event = e, !.txn = event[e].txn]]
          /\ UNCHANGED event
     ELSE /\ event' = [event EXCEPT ![e].accepted = TRUE]
          /\ UNCHANGED job
  /\ UNCHANGED <<remote, order, attempt, balance, applied>>

\* (as if the log's event identifier were not unique)
PersistTwice(w) ==
  /\ job[w].pc = "persist"
  /\ event' = [event EXCEPT ![job[w].event].log = "RECEIVED"]
  /\ Go(w, "locate")
  /\ UNCHANGED <<remote, order, attempt, balance, applied>>

\* The creation; a concurrent delivery of the event has the row, and the
\* second one gets a unique conflict outside the handler's try block.
Persist(w) ==
  LET e == job[w].event
  IN  /\ job[w].pc = "persist"
      /\ IF event[e].log = "NONE"
         THEN /\ event' = [event EXCEPT ![e].log = "RECEIVED"]
              /\ Go(w, "locate")
         ELSE /\ job' = [job EXCEPT ![w] = Idle]
              /\ UNCHANGED event
      /\ UNCHANGED <<remote, order, attempt, balance, applied>>

\* The order an event is about: by its reference on the Web, by the purchase
\* token at Google, by an attempt already recorded at Apple.
Located(t) ==
  LET o == remote[t].order
  IN  CASE Web(o)                          -> TRUE
        [] Provider[o] = "GOOGLE_PLAY"     -> order[o].status # "ABSENT"
        [] Provider[o] = "APPLE_APP_STORE" -> attempt[t].order # None

Locate(w) ==
  LET t == job[w].txn
  IN  /\ job[w].pc = "locate"
      /\ IF Located(t)
         THEN /\ job' = [job EXCEPT ![w] = [@ EXCEPT !.pc = "ask", !.order = remote[t].order]]
              /\ UNCHANGED event
         ELSE /\ event' = [event EXCEPT ![job[w].event] = [@ EXCEPT !.log = "IGNORED", !.accepted = TRUE]]
              /\ job' = [job EXCEPT ![w] = Idle]
      /\ UNCHANGED <<remote, order, attempt, balance, applied>>

CompleteWebhook(w) ==
  /\ job[w].pc = "close"
  /\ event' = [event EXCEPT ![job[w].event] = [@ EXCEPT !.log = "PROCESSED", !.accepted = TRUE]]
  /\ job' = [job EXCEPT ![w] = Idle]
  /\ UNCHANGED <<remote, order, attempt, balance, applied>>

\* The error is logged and returned: the provider will send the event again.
FailWebhook(w) ==
  /\ job[w].pc = "failed"
  /\ event' = [event EXCEPT ![job[w].event].log = "FAILED"]
  /\ job' = [job EXCEPT ![w] = Idle]
  /\ UNCHANGED <<remote, order, attempt, balance, applied>>

WebhookStep(w) == Persist(w) \/ Locate(w) \/ CompleteWebhook(w) \/ FailWebhook(w)

WebhookNext ==
  \/ \E e \in Events, t \in Txns : Notify(e, t)
  \/ \E w \in Workers : (\E e \in Events : Receive(w, e)) \/ WebhookStep(w)
=============================================================================
