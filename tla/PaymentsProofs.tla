--------------------------- MODULE PaymentsProofs ---------------------------
(***************************************************************************)
(* Proofs about Payments for any orders, transactions, events, refunds and   *)
(* handlers: nothing is delivered without its own payment, a delivery is      *)
(* whole and is taken back whole, coins are debited for what was delivered,   *)
(* and the whole implements PaidDelivery.                                     *)
(***************************************************************************)
EXTENDS Payments, TLAPS

Verifying == {"ask", "record", "mismatch", "write", "paid", "fulfil", "review", "deliver", "current", "ack",
              "ensure", "reverse", "recovery"}
Proven == {"paid", "fulfil", "review", "deliver", "current", "ack"}

\* What a handler in flight may rely on: a payment, once it is proven, is of its
\* own order and recorded against it.
Sound(j) ==
  /\ j.pc \in Verifying \cup {"checkout", "journal"} => j.order \in Orders
  /\ j.pc \in Verifying \cup {"persist", "locate"} => j.txn \in Txns
  /\ j.pc \in {"persist", "locate"} => remote[j.txn].status # "NONE"
  /\ j.pc \in {"persist", "locate", "close", "failed"} => j.event \in Events
  /\ j.pc = "idle" => j.event = None
  /\ j.event # None /\ j.pc # "persist" => event[j.event].log # "NONE"
  /\ j.pc \in Verifying /\ (j.event # None \/ ~Web(j.order)) =>
       remote[j.txn].order = j.order /\ remote[j.txn].status # "NONE"
  /\ j.pc \in Verifying \ {"ask"} /\ j.match /\ j.status = "SUCCESS" => Pays(j.txn, j.order)
  /\ j.pc \in Verifying \ {"ask"} => j.status # "NONE"
  /\ j.pc = "write" => j.status # "SUCCESS"
  /\ j.pc \in Proven => j.match /\ j.status = "SUCCESS" /\ attempt[j.txn].order = j.order
  /\ j.pc = "ack" => order[j.order].fulfilled
  /\ j.pc = "ensure" => j.event # None
  /\ j.pc \in {"reverse", "recovery"} =>
       j.refund \in Refunds /\ refund[j.refund].order = j.order /\ refund[j.refund].status # "NONE"
JobsAreSound == \A w \in Workers : Sound(job[w])

\* What is known of a transaction, an event and a refund row.
RemoteIsSound ==
  \A t \in Txns :
    /\ remote[t].status # "NONE" => remote[t].order \in Orders
    /\ remote[t].order # None => remote[t].status # "NONE" /\ (~Web(remote[t].order) => remote[t].exact)
EventsAreSound == \A e \in Events : event[e].txn # None => remote[event[e].txn].status # "NONE"
RefundsAreSound ==
  \A r \in Refunds :
    /\ refund[r].status = "NONE" => refund[r].order = None /\ refund[r].source = None /\ ~refund[r].completed
    /\ refund[r].status # "NONE" => refund[r].order \in Orders
    /\ refund[r].source # None =>
         remote[refund[r].source].order = refund[r].order /\ remote[refund[r].source].status # "NONE"
    /\ refund[r].completed => order[refund[r].order].fulfilled
    /\ Ledger!Used(<<"refund", r>>) <=> refund[r].completed /\ refund[r].order \in CoinOrders

\* What a staff request may rely on.
TaskSound(k) ==
  /\ k.pc \in {"active", "create"} => k.order \in Orders
  /\ k.pc \in {"submit", "confirm", "reverse", "recovery"} =>
       /\ k.order \in Orders /\ k.refund \in Refunds
       /\ refund[k.refund].order = k.order /\ refund[k.refund].status # "NONE"
TasksAreSound == \A d \in Staff : TaskSound(task[d])

\* KnowCoins packs are not entitlements.
CoinsAreNoGrant == \A o \in CoinOrders : order[o].grant = "NONE"

PayInv ==
  /\ TypeOK
  /\ JobsAreSound /\ RemoteIsSound /\ EventsAreSound /\ RefundsAreSound /\ TasksAreSound /\ CoinsAreNoGrant
  /\ DeliveredOnProof /\ DeliveryIsWhole /\ AcknowledgedOnlyIfDelivered /\ RefundTakesBack /\ EventHandledOnce

-----------------------------------------------------------------------------
(* How handlers move.                                                         *)
LEMMA Nones ==
  /\ None \notin Orders /\ None \notin Txns /\ None \notin Events /\ None \notin Refunds
  /\ \A o \in Orders : Owner[o] \in Users /\ Provider[o] \in Providers
  /\ CoinOrders \subseteq Orders
BY PaymentAssumption

LEMMA IdleJob == Idle \in Job /\ Idle.pc = "idle" /\ Idle.event = None
BY DEF Idle, Job, Steps, RemoteStatus

\* One handler becomes r, in a state in which r is sound.
LEMMA OneJob ==
  ASSUME job \in [Workers -> Job], NEW w \in Workers, NEW r \in Job, job' = [job EXCEPT ![w] = r]
  PROVE  job' \in [Workers -> Job] /\ job'[w] = r /\ \A v \in Workers : v # w => job'[v] = job[v]
OBVIOUS

SameBut(r, j, pc) ==
  /\ r.pc = pc /\ r.event = j.event /\ r.order = j.order /\ r.txn = j.txn /\ r.refund = j.refund
  /\ r.status = j.status /\ r.match = j.match

LEMMA GoStep ==
  ASSUME job \in [Workers -> Job], NEW w \in Workers, NEW pc \in Steps, Go(w, pc)
  PROVE  /\ job' \in [Workers -> Job] /\ SameBut(job'[w], job[w], pc)
         /\ \A v \in Workers : v # w => job'[v] = job[v]
<1> DEFINE r == [job[w] EXCEPT !.pc = pc]
<1>1. r \in Job /\ SameBut(r, job[w], pc)
  BY DEF Job, SameBut
<1>2. job' = [job EXCEPT ![w] = r]
  BY DEF Go
<1> HIDE DEF r
<1> QED BY <1>1, <1>2, OneJob

LEMMA EndStep ==
  ASSUME job \in [Workers -> Job], NEW w \in Workers, Finish(w) \/ Fail(w)
  PROVE  /\ job' \in [Workers -> Job]
         /\ \/ job'[w] = Idle
            \/ job[w].event # None /\ \E pc \in {"close", "failed"} : SameBut(job'[w], job[w], pc)
         /\ \A v \in Workers : v # w => job'[v] = job[v]
<1> DEFINE r(pc) == [job[w] EXCEPT !.pc = pc]
<1>1. ASSUME NEW pc \in {"close", "failed"} PROVE r(pc) \in Job /\ SameBut(r(pc), job[w], pc)
  BY DEF Job, SameBut, Steps
<1>2. \/ job' = [job EXCEPT ![w] = Idle]
      \/ job[w].event # None /\ \E pc \in {"close", "failed"} : job' = [job EXCEPT ![w] = r(pc)]
  BY DEF Finish, Fail
<1>3. CASE job' = [job EXCEPT ![w] = Idle]
  BY <1>3, IdleJob, OneJob
<1>4. ASSUME job[w].event # None, NEW pc \in {"close", "failed"}, job' = [job EXCEPT ![w] = r(pc)]
      PROVE  /\ job' \in [Workers -> Job] /\ SameBut(job'[w], job[w], pc)
             /\ \A v \in Workers : v # w => job'[v] = job[v]
  <2> HIDE DEF r
  <2> QED BY <1>1, <1>4, OneJob
<1> QED BY <1>2, <1>3, <1>4

(* How orders change.                                                         *)
\* Only the status of order o changes.
LEMMA StatusStep ==
  ASSUME order \in [Orders -> Order], NEW o \in Orders, NEW s \in OrderStatus,
         order' = [order EXCEPT ![o].status = s]
  PROVE  /\ order' \in [Orders -> Order]
         /\ \A p \in Orders : /\ order'[p].fulfilled = order[p].fulfilled /\ order'[p].grant = order[p].grant
                             /\ order'[p].invoice = order[p].invoice /\ order'[p].acked = order[p].acked
                             /\ p # o => order'[p] = order[p]
BY DEF Order

LEMMA DeliverStep ==
  ASSUME order \in [Orders -> Order], NEW o \in Orders, order' = [order EXCEPT ![o] = Delivered(o)]
  PROVE  /\ order' \in [Orders -> Order]
         /\ \A p \in Orders \ {o} : order'[p] = order[p]
         /\ order'[o].fulfilled /\ order'[o].invoice = "PAID" /\ order'[o].acked = order[o].acked
         /\ order'[o].grant = IF o \in CoinOrders THEN order[o].grant ELSE "ACTIVE"
<1>1. Delivered(o).grant = (IF o \in CoinOrders THEN order[o].grant ELSE "ACTIVE")
  BY DEF Delivered, Order
<1>2. Delivered(o) \in Order
  BY DEF Delivered, Order, OrderStatus
<1>3. Delivered(o).fulfilled /\ Delivered(o).invoice = "PAID" /\ Delivered(o).acked = order[o].acked
  BY DEF Delivered, Order
<1> QED BY <1>1, <1>2, <1>3

LEMMA ReverseStep ==
  ASSUME order \in [Orders -> Order], NEW o \in Orders, order' = [order EXCEPT ![o] = TakenBack(o)]
  PROVE  /\ order' \in [Orders -> Order]
         /\ \A p \in Orders \ {o} : order'[p] = order[p]
         /\ order'[o].fulfilled = order[o].fulfilled /\ order'[o].acked = order[o].acked
         /\ order'[o].grant = IF order[o].grant = "ACTIVE" THEN "REVOKED" ELSE order[o].grant
         /\ order'[o].invoice = IF order[o].invoice = "NONE" THEN "NONE" ELSE "REFUNDED"
<1>1. TakenBack(o).grant = (IF order[o].grant = "ACTIVE" THEN "REVOKED" ELSE order[o].grant)
  BY DEF TakenBack, Order
<1>2. TakenBack(o) \in Order
  BY DEF TakenBack, Order, OrderStatus
<1>3. TakenBack(o).fulfilled = order[o].fulfilled /\ TakenBack(o).acked = order[o].acked
  BY DEF TakenBack, Order
<1>4. TakenBack(o).invoice = (IF order[o].invoice = "NONE" THEN "NONE" ELSE "REFUNDED")
  BY DEF TakenBack, Order
<1> QED BY <1>1, <1>2, <1>3, <1>4

(* How the other rows change.                                                 *)
LEMMA MovementStep ==
  ASSUME balance \in [Users -> 0..MaxBalance], applied \subseteq [key : LedgerKeys, user : Users, amount : {Quantity, -Quantity}],
         NEW u \in Users, NEW k \in LedgerKeys, NEW a \in {Quantity, -Quantity}, Ledger!Apply(u, k, a)
  PROVE  /\ balance' \in [Users -> 0..MaxBalance]
         /\ applied' \subseteq [key : LedgerKeys, user : Users, amount : {Quantity, -Quantity}]
         /\ ~Ledger!Used(k)
         /\ \A l : Ledger!Used(l)' <=> Ledger!Used(l) \/ l = k
         /\ \A m \in applied' \ applied : m.key = k /\ m.user = u
<1> DEFINE n == [key |-> k, user |-> u, amount |-> a]
<1>1. applied' = applied \cup {n} /\ ~Ledger!Used(k) /\ balance[u] + a \in 0..MaxBalance
      /\ balance' = [balance EXCEPT ![u] = @ + a]
  BY DEF Ledger!Apply
<1>2. balance' \in [Users -> 0..MaxBalance]
  BY <1>1
<1>3. n \in [key : LedgerKeys, user : Users, amount : {Quantity, -Quantity}] /\ n.key = k /\ n.user = u
  OBVIOUS
<1> HIDE DEF n
<1>4. \A l : Ledger!Used(l)' <=> Ledger!Used(l) \/ l = k
  BY <1>1, <1>3 DEF Ledger!Used
<1> QED BY <1>1, <1>2, <1>3, <1>4

-----------------------------------------------------------------------------
(* What no step takes back, and what therefore stays true of handlers.        *)
Grows ==
  /\ \A t \in Txns : /\ remote[t].status # "NONE" =>
                         /\ remote'[t].order = remote[t].order /\ remote'[t].exact = remote[t].exact
                         /\ remote'[t].status # "NONE"
                     /\ remote[t].status \in {"SUCCESS", "REFUNDED"} => remote'[t].status \in {"SUCCESS", "REFUNDED"}
                     /\ attempt[t].order # None => attempt'[t].order = attempt[t].order
  /\ \A o \in Orders : order[o].fulfilled => order'[o].fulfilled
  /\ \A e \in Events : event[e].log # "NONE" => event'[e].log # "NONE"
  /\ \A r \in Refunds : refund[r].status # "NONE" =>
       refund'[r].status # "NONE" /\ refund'[r].order = refund[r].order

LEMMA PaysStays ==
  ASSUME Grows, NEW t \in Txns, NEW o, Pays(t, o)
  PROVE  Pays(t, o)'
BY DEF Grows, Pays

LEMMA SoundStays ==
  ASSUME Grows, NEW j \in Job, Sound(j)
  PROVE  Sound(j)'
<1>1. j.event # None => j.event \in Events
  BY DEF Job
<1>2. j.pc \in Verifying => j.txn \in Txns /\ j.order \in Orders
  BY DEF Sound
<1>3. /\ j.pc \in {"persist", "locate"} => j.txn \in Txns
      /\ j.pc \in {"reverse", "recovery"} => j.refund \in Refunds /\ j.pc \in Verifying
      /\ j.pc \in Proven => j.pc \in Verifying /\ j.txn \in Txns
      /\ j.pc = "ack" => j.pc \in Proven
  BY DEF Sound, Proven, Verifying
<1>4. j.pc \in Verifying \ {"ask"} /\ j.match /\ j.status = "SUCCESS" => Pays(j.txn, j.order)'
  BY <1>2, PaysStays DEF Sound
<1>5. j.pc \in Proven => attempt'[j.txn].order = j.order
  BY <1>2, <1>3, Nones DEF Sound, Grows
<1>6. j.pc \in Verifying /\ (j.event # None \/ ~Web(j.order)) =>
        remote'[j.txn].order = j.order /\ remote'[j.txn].status # "NONE"
  BY <1>2 DEF Sound, Grows
<1>7. /\ j.pc \in {"persist", "locate"} => remote'[j.txn].status # "NONE"
      /\ j.event # None /\ j.pc # "persist" => event'[j.event].log # "NONE"
      /\ j.pc = "ack" => order'[j.order].fulfilled
      /\ j.pc \in {"reverse", "recovery"} => refund'[j.refund].order = j.order /\ refund'[j.refund].status # "NONE"
  BY <1>1, <1>2, <1>3 DEF Sound, Grows
<1> QED BY <1>4, <1>5, <1>6, <1>7 DEF Sound, Web

LEMMA TaskStays ==
  ASSUME Grows, NEW k, TaskSound(k)
  PROVE  TaskSound(k)'
BY DEF Grows, TaskSound

Money == CoinsAreNoGrant /\ DeliveredOnProof /\ DeliveryIsWhole /\ AcknowledgedOnlyIfDelivered /\ RefundTakesBack

\* A step that leaves what was delivered and taken back alone.
SameGoods ==
  /\ \A o \in Orders : /\ order'[o].fulfilled = order[o].fulfilled /\ order'[o].grant = order[o].grant
                       /\ order'[o].invoice = order[o].invoice
                       /\ order'[o].acked => order[o].acked \/ order[o].fulfilled
  /\ \A o \in Orders : Ledger!Used(<<"payment", o>>)' <=> Ledger!Used(<<"payment", o>>)
  /\ \A r \in Refunds : Ledger!Used(<<"refund", r>>)' <=> Ledger!Used(<<"refund", r>>)
  /\ \A r \in Refunds : /\ refund'[r].completed = refund[r].completed
                        /\ refund[r].completed => refund'[r].order = refund[r].order

LEMMA ProofStays ==
  ASSUME PayInv, Grows, \A o \in Orders : order'[o].fulfilled = order[o].fulfilled
  PROVE  DeliveredOnProof'
<1>1. ASSUME NEW o \in Orders, NEW t \in Txns, Pays(t, o), attempt[t].order = o
      PROVE  Pays(t, o)' /\ attempt'[t].order = o
  BY <1>1, PaysStays, Nones DEF Grows
<1> QED BY <1>1 DEF DeliveredOnProof, PayInv

LEMMA MoneyStays ==
  ASSUME PayInv, Grows, RefundsAreSound', SameGoods
  PROVE  Money'
<1> USE DEF PayInv, SameGoods
<1>1. CoinsAreNoGrant'
  BY Nones DEF CoinsAreNoGrant
<1>2. DeliveryIsWhole'
  BY DEF DeliveryIsWhole
<1>3. AcknowledgedOnlyIfDelivered'
  BY DEF AcknowledgedOnlyIfDelivered
<1>4. RefundTakesBack'
  <2> SUFFICES ASSUME NEW o \in Orders
               PROVE  /\ (order'[o].invoice = "REFUNDED" <=> \E r \in Refunds : refund'[r].completed /\ refund'[r].order = o)
                      /\ (order'[o].grant = "REVOKED"
                           <=> (\E r \in Refunds : refund'[r].completed /\ refund'[r].order = o) /\ o \notin CoinOrders)
                      /\ \A r \in Refunds : refund'[r].order = o /\ o \in CoinOrders =>
                           (refund'[r].completed <=> Ledger!Used(<<"refund", r>>)')
    BY DEF RefundTakesBack
  <2>1. (\E r \in Refunds : refund'[r].completed /\ refund'[r].order = o)
          <=> (\E r \in Refunds : refund[r].completed /\ refund[r].order = o)
    OBVIOUS
  <2>2. \A r \in Refunds : refund'[r].order = o /\ o \in CoinOrders =>
          (refund'[r].completed <=> Ledger!Used(<<"refund", r>>)')
    BY DEF RefundsAreSound
  <2> QED BY <2>1, <2>2 DEF RefundTakesBack
<1> QED BY <1>1, <1>2, <1>3, <1>4, ProofStays DEF Money

\* The refund rows, when no refund and no ledger entry changes.
LEMMA RefundsStay ==
  ASSUME PayInv, TypeOK', Grows, refund' = refund,
         \A r \in Refunds : Ledger!Used(<<"refund", r>>)' <=> Ledger!Used(<<"refund", r>>)
  PROVE  RefundsAreSound'
<1> SUFFICES ASSUME NEW r \in Refunds
             PROVE  /\ refund[r].status = "NONE" => refund[r].order = None /\ refund[r].source = None /\ ~refund[r].completed
                    /\ refund[r].status # "NONE" => refund[r].order \in Orders
                    /\ refund[r].source # None =>
                         remote'[refund[r].source].order = refund[r].order /\ remote'[refund[r].source].status # "NONE"
                    /\ refund[r].completed => order'[refund[r].order].fulfilled
                    /\ Ledger!Used(<<"refund", r>>)' <=> refund[r].completed /\ refund[r].order \in CoinOrders
  BY DEF RefundsAreSound
<1>1. refund[r].source # None => refund[r].source \in Txns
  BY DEF PayInv, TypeOK, Refund
<1>2. refund[r].completed => refund[r].status # "NONE"
  BY DEF PayInv, RefundsAreSound
<1> QED BY <1>1, <1>2 DEF PayInv, RefundsAreSound, Grows

\* The handlers, when only w moves.
Moves(w) == \A v \in Workers : v # w => job'[v] = job[v]

LEMMA OthersSound ==
  ASSUME PayInv, Grows, NEW w \in Workers, Moves(w), Sound(job[w])'
  PROVE  JobsAreSound'
<1> SUFFICES ASSUME NEW v \in Workers, v # w
             PROVE  Sound(job[v])'
  BY DEF JobsAreSound
<1>1. job'[v] = job[v] /\ job[v] \in Job /\ Sound(job[v])
  BY DEF Moves, PayInv, TypeOK, JobsAreSound
<1> QED BY <1>1, SoundStays DEF Sound, Pays

\* No handler begins to work on an event but by Persist.
Begins(w) == job'[w].event # None /\ job'[w].pc # "persist"
               /\ ~(job[w].event = job'[w].event /\ job[w].pc # "persist")

LEMMA OnceStays ==
  ASSUME PayInv, NEW w \in Workers, Moves(w), ~Begins(w)
  PROVE  EventHandledOnce'
<1>1. \A v \in Workers : job'[v].event # None /\ job'[v].pc # "persist" =>
        job[v].event = job'[v].event /\ job[v].pc # "persist"
  BY DEF Moves, Begins
<1>2. \A v \in Workers : job[v].pc = "persist" => job'[v].pc = "persist" \/ job'[v].event = None
  BY <1>1
<1> SUFFICES ASSUME NEW u \in Workers, NEW v \in Workers, job'[u].event # None,
                    job'[u].pc # "persist", job'[v].pc # "persist", job'[u].event = job'[v].event
             PROVE  u = v
  BY DEF EventHandledOnce
<1>3. /\ job[u].event = job'[u].event /\ job[u].pc # "persist"
      /\ job[v].event = job'[v].event /\ job[v].pc # "persist"
  BY <1>1
<1> QED BY <1>3 DEF PayInv, EventHandledOnce

LEMMA Keeps ==
  ASSUME PayInv, TypeOK', Grows, SameGoods, RemoteIsSound', EventsAreSound', RefundsAreSound',
         JobsAreSound', TasksAreSound', EventHandledOnce'
  PROVE  PayInv'
BY MoneyStays DEF PayInv, Money

\* The three kinds of steps, by what they do to deliveries, refunds and coins:
\* most leave them alone, but for coins spent elsewhere; one delivers an order;
\* one completes a refund of an order.
Calm ==
  /\ UNCHANGED remote
  /\ \A o \in Orders : order'[o].fulfilled = order[o].fulfilled
  /\ \A r \in Refunds : /\ refund'[r].completed = refund[r].completed
                        /\ refund[r].completed => refund'[r].order = refund[r].order
  /\ \A m \in applied' \ applied : m.key[1] = "spend"
Sells(o) ==
  /\ UNCHANGED <<remote, refund>>
  /\ ~order[o].fulfilled /\ order'[o].fulfilled /\ Paid(o)
  /\ \A p \in Orders \ {o} : order'[p].fulfilled = order[p].fulfilled
  /\ \A m \in applied' \ applied : m.key[1] = "payment"
Undoes(o, r) ==
  /\ UNCHANGED remote
  /\ order[o].fulfilled /\ \A p \in Orders : order'[p].fulfilled = order[p].fulfilled
  /\ refund[r].order = o /\ refund'[r].order = o /\ refund'[r].completed
  /\ \A q \in Refunds \ {r} : refund'[q] = refund[q]
  /\ \A m \in applied' \ applied : o \in CoinOrders /\ m.key[2] = r /\ m.user = Owner[o]

\* A handler's step that leaves transactions, coins, refunds and deliveries alone.
Quiet ==
  /\ UNCHANGED <<remote, balance, applied, refund, task>>
  /\ \A t \in Txns : attempt[t].order # None => attempt'[t].order = attempt[t].order
  /\ \A o \in Orders : /\ order'[o].fulfilled = order[o].fulfilled /\ order'[o].grant = order[o].grant
                       /\ order'[o].invoice = order[o].invoice
                       /\ order'[o].acked => order[o].acked \/ order[o].fulfilled
  /\ \A e \in Events : event'[e].txn = event[e].txn /\ (event[e].log # "NONE" => event'[e].log # "NONE")

LEMMA QuietGrows ==
  ASSUME PayInv, Quiet
  PROVE  Grows /\ SameGoods
BY DEF Quiet, Grows, SameGoods, Ledger!Used

LEMMA QuietRows ==
  ASSUME PayInv, Quiet, TypeOK'
  PROVE  RemoteIsSound' /\ EventsAreSound' /\ RefundsAreSound' /\ TasksAreSound'
<1>1. Grows /\ SameGoods
  BY QuietGrows
<1>2. refund' = refund /\ \A r \in Refunds : Ledger!Used(<<"refund", r>>)' <=> Ledger!Used(<<"refund", r>>)
  BY <1>1 DEF Quiet, SameGoods
<1>3. RefundsAreSound'
  BY <1>1, <1>2, RefundsStay
<1>4. RemoteIsSound'
  BY DEF PayInv, Quiet, RemoteIsSound
<1>5. EventsAreSound'
  BY DEF PayInv, Quiet, EventsAreSound
<1>6. TasksAreSound'
  BY DEF PayInv, Quiet, TasksAreSound, TaskSound
<1> QED BY <1>3, <1>4, <1>5, <1>6

LEMMA QuietStep ==
  ASSUME PayInv, Quiet, TypeOK', NEW w \in Workers, Moves(w), Sound(job[w])', EventHandledOnce'
  PROVE  PayInv' /\ Calm
<1>1. PayInv'
  BY QuietGrows, QuietRows, OthersSound, Keeps
<1>2. Calm
  BY DEF Quiet, Calm
<1> QED BY <1>1, <1>2

-----------------------------------------------------------------------------
(* The handlers' steps that only move the handler and the order's status.     *)
OnlyStatus == order' = order \/ \E o \in Orders, s \in OrderStatus : order' = [order EXCEPT ![o].status = s]

LEMMA HandlerStep ==
  ASSUME PayInv, UNCHANGED <<remote, attempt, balance, applied, event, refund, task>>, OnlyStatus,
         NEW w \in Workers, job' \in [Workers -> Job], Moves(w), ~Begins(w), Sound(job[w])'
  PROVE  PayInv' /\ Calm
<1> DEFINE SameSale(p) ==
      /\ order'[p].fulfilled = order[p].fulfilled /\ order'[p].grant = order[p].grant
      /\ order'[p].invoice = order[p].invoice /\ (order'[p].acked => order[p].acked \/ order[p].fulfilled)
<1>1. order' \in [Orders -> Order] /\ \A p \in Orders : SameSale(p)
  <2>1. CASE order' = order
    BY <2>1 DEF PayInv, TypeOK
  <2>2. ASSUME NEW o \in Orders, NEW s \in OrderStatus, order' = [order EXCEPT ![o].status = s]
        PROVE  order' \in [Orders -> Order] /\ \A p \in Orders : SameSale(p)
    <3>1. order \in [Orders -> Order]
      BY DEF PayInv, TypeOK
    <3>2. order' \in [Orders -> Order]
      BY <2>2, <3>1, StatusStep
    <3>3. ASSUME NEW p \in Orders PROVE SameSale(p)
      BY <2>2, <3>1, StatusStep
    <3> QED BY <3>2, <3>3
  <2> QED BY <2>1, <2>2 DEF OnlyStatus
<1>2. Quiet
  BY <1>1 DEF Quiet
<1>3. TypeOK'
  BY <1>1 DEF PayInv, TypeOK
<1>4. EventHandledOnce'
  BY OnceStays
<1> QED BY <1>2, <1>3, <1>4, QuietStep

\* A handler that goes on with what it has.
LEMMA GoOn ==
  ASSUME PayInv, NEW w \in Workers, NEW pc \in Steps, Go(w, pc), job[w].pc # "persist"
  PROVE  job' \in [Workers -> Job] /\ Moves(w) /\ ~Begins(w) /\ SameBut(job'[w], job[w], pc)
BY GoStep DEF PayInv, TypeOK, Moves, Begins, SameBut

\* A handler that ends, or that closes its event's log.
LEMMA EndSound ==
  ASSUME PayInv, NEW w \in Workers, Finish(w) \/ Fail(w), job[w].pc # "persist",
         \A e \in Events : event[e].log # "NONE" => event'[e].log # "NONE"
  PROVE  job' \in [Workers -> Job] /\ Moves(w) /\ ~Begins(w) /\ Sound(job[w])'
<1>1. Sound(job[w]) /\ job[w] \in Job
  BY DEF PayInv, TypeOK, JobsAreSound
<1>2. job' \in [Workers -> Job] /\ Moves(w)
  BY EndStep DEF PayInv, TypeOK, Moves
<1>3. ASSUME job'[w] = Idle
      PROVE  ~Begins(w) /\ Sound(job[w])'
  <2>1. ~Begins(w)
    BY <1>3, IdleJob DEF Begins
  <2>2. Sound(job[w])'
    BY <1>3, IdleJob DEF Sound, Verifying, Proven
  <2> QED BY <2>1, <2>2
<1>4. ASSUME job[w].event # None, NEW pc \in {"close", "failed"}, SameBut(job'[w], job[w], pc)
      PROVE  ~Begins(w) /\ Sound(job[w])'
  <2>1. job[w].event \in Events /\ event'[job[w].event].log # "NONE"
    BY <1>1, <1>4 DEF Job, Sound
  <2> QED BY <1>4, <2>1 DEF SameBut, Sound, Begins, Verifying, Proven
<1> QED BY <1>2, <1>3, <1>4, EndStep DEF PayInv, TypeOK

\* A handler that begins, or that ends whatever it was at.
LEMMA BecomesSound ==
  ASSUME PayInv, NEW w \in Workers, NEW r \in Job, job' = [job EXCEPT ![w] = r],
         r.event = None \/ r.pc = "persist"
  PROVE  job' \in [Workers -> Job] /\ Moves(w) /\ ~Begins(w) /\ job'[w] = r
BY OneJob DEF PayInv, TypeOK, Moves, Begins

LEMMA IdleSound ==
  ASSUME PayInv, NEW w \in Workers, job' = [job EXCEPT ![w] = Idle]
  PROVE  job' \in [Workers -> Job] /\ Moves(w) /\ ~Begins(w) /\ Sound(job[w])'
<1>1. job' \in [Workers -> Job] /\ Moves(w) /\ ~Begins(w) /\ job'[w] = Idle
  BY IdleJob, BecomesSound
<1> QED BY <1>1, IdleJob DEF Sound, Verifying, Proven

LEMMA CreateWebCheckoutKeeps ==
  ASSUME PayInv, NEW w \in Workers, NEW o \in Orders, CreateWebCheckout(w, o), UNCHANGED <<event, refund, task>>
  PROVE  PayInv' /\ Calm
<1> DEFINE r == [Idle EXCEPT !.pc = "checkout", !.order = o]
<1>1. r \in Job /\ r.pc = "checkout" /\ r.order = o /\ r.event = None
  BY DEF Idle, Job, Steps, RemoteStatus
<1>2. job' = [job EXCEPT ![w] = r] /\ order' = [order EXCEPT ![o].status = "CREATED"]
      /\ UNCHANGED <<remote, attempt, balance, applied>>
  BY DEF CreateWebCheckout
<1> HIDE DEF r
<1>3. job' \in [Workers -> Job] /\ Moves(w) /\ ~Begins(w) /\ job'[w] = r
  BY <1>1, <1>2, BecomesSound
<1>4. Sound(job[w])'
  BY <1>1, <1>3 DEF Sound, Verifying, Proven
<1>5. OnlyStatus
  BY <1>2 DEF OnlyStatus, OrderStatus
<1> QED BY <1>2, <1>3, <1>4, <1>5, HandlerStep

LEMMA InitCheckoutKeeps ==
  ASSUME PayInv, NEW w \in Workers, InitCheckout(w), UNCHANGED <<event, refund, task>>
  PROVE  PayInv' /\ Calm
<1>1. Sound(job[w]) /\ job[w].pc = "checkout" /\ Go(w, "journal") /\ "journal" \in Steps
      /\ UNCHANGED <<remote, attempt, balance, applied>>
  BY DEF InitCheckout, PayInv, JobsAreSound, Steps
<1>2. job' \in [Workers -> Job] /\ Moves(w) /\ ~Begins(w) /\ SameBut(job'[w], job[w], "journal")
  BY <1>1, GoOn
<1>3. Sound(job[w])'
  BY <1>1, <1>2 DEF SameBut, Sound, Verifying, Proven
<1>4. OnlyStatus
  BY <1>1 DEF InitCheckout, OnlyStatus, OrderStatus, Sound
<1> QED BY <1>1, <1>2, <1>3, <1>4, HandlerStep

LEMMA CheckoutEndsKeep ==
  ASSUME PayInv, NEW w \in Workers, JournalCheckout(w) \/ AbandonCheckout(w) \/ Crash(w),
         UNCHANGED <<event, refund, task>>
  PROVE  PayInv' /\ Calm
<1>1. job' = [job EXCEPT ![w] = Idle] /\ UNCHANGED <<remote, attempt, balance, applied>> /\ Sound(job[w])
  BY DEF JournalCheckout, AbandonCheckout, Crash, PayInv, JobsAreSound
<1>2. OnlyStatus
  BY <1>1 DEF JournalCheckout, AbandonCheckout, Crash, OnlyStatus, OrderStatus, Sound
<1> QED BY <1>1, <1>2, IdleSound, HandlerStep

LEMMA ThrowKeeps ==
  ASSUME PayInv, NEW w \in Workers, Throw(w), UNCHANGED <<event, refund, task>>
  PROVE  PayInv' /\ Calm
<1>1. job[w].pc # "persist" /\ Fail(w) /\ UNCHANGED <<remote, order, attempt, balance, applied>>
  BY DEF Throw, Awaiting
<1> QED BY <1>1, EndSound, HandlerStep DEF OnlyStatus

LEMMA MismatchKeeps ==
  ASSUME PayInv, NEW w \in Workers, Mismatch(w), UNCHANGED <<event, refund, task>>
  PROVE  PayInv' /\ Calm
<1>1. job[w].pc = "mismatch" /\ Fail(w) /\ UNCHANGED <<remote, attempt, balance, applied>> /\ Sound(job[w])
  BY DEF Mismatch, PayInv, JobsAreSound
<1>2. OnlyStatus
  BY <1>1 DEF Mismatch, OnlyStatus, OrderStatus, Sound, Verifying
<1> QED BY <1>1, <1>2, EndSound, HandlerStep

LEMMA VerifyWebOrderKeeps ==
  ASSUME PayInv, NEW w \in Workers, NEW o \in Orders, NEW t \in Txns, VerifyWebOrder(w, o, t),
         UNCHANGED <<event, refund, task>>
  PROVE  PayInv' /\ Calm
<1> DEFINE r == [Idle EXCEPT !.pc = "ask", !.order = o, !.txn = t]
<1>1. r \in Job /\ r.pc = "ask" /\ r.order = o /\ r.txn = t /\ r.event = None
  BY DEF Idle, Job, Steps, RemoteStatus
<1>2. job' = [job EXCEPT ![w] = r] /\ Web(o) /\ UNCHANGED <<remote, order, attempt, balance, applied>>
  BY DEF VerifyWebOrder
<1> HIDE DEF r
<1>3. job' \in [Workers -> Job] /\ Moves(w) /\ ~Begins(w) /\ job'[w] = r
  BY <1>1, <1>2, BecomesSound
<1>4. Sound(job[w])'
  BY <1>1, <1>2, <1>3 DEF Sound, Verifying, Proven, Web
<1> QED BY <1>2, <1>3, <1>4, HandlerStep DEF OnlyStatus

LEMMA VerifyStorePurchaseKeeps ==
  ASSUME PayInv, NEW w \in Workers, NEW o \in Orders, NEW t \in Txns, VerifyStorePurchase(w, o, t),
         UNCHANGED <<event, refund, task>>
  PROVE  PayInv' /\ Calm
<1> DEFINE r == [Idle EXCEPT !.pc = "ask", !.order = o, !.txn = t]
<1>1. r \in Job /\ r.pc = "ask" /\ r.order = o /\ r.txn = t /\ r.event = None
  BY DEF Idle, Job, Steps, RemoteStatus
<1>2. job' = [job EXCEPT ![w] = r] /\ remote[t].order = o /\ order' = [order EXCEPT ![o].status = "PENDING"]
      /\ UNCHANGED <<remote, attempt, balance, applied>>
  BY DEF VerifyStorePurchase
<1> HIDE DEF r
<1>3. job' \in [Workers -> Job] /\ Moves(w) /\ ~Begins(w) /\ job'[w] = r
  BY <1>1, <1>2, BecomesSound
<1>4. remote[t].status # "NONE"
  BY <1>2, Nones DEF PayInv, RemoteIsSound
<1>5. Sound(job[w])'
  BY <1>1, <1>2, <1>3, <1>4 DEF Sound, Verifying, Proven, Web
<1>6. OnlyStatus
  BY <1>2 DEF OnlyStatus, OrderStatus
<1> QED BY <1>2, <1>3, <1>5, <1>6, HandlerStep

-----------------------------------------------------------------------------
(* The verification and the fulfilment.                                       *)
LEMMA AskKeeps ==
  ASSUME PayInv, NEW w \in Workers, Ask(w), UNCHANGED <<event, refund, task>>
  PROVE  PayInv' /\ Calm
<1> DEFINE j == job[w]
           o == j.order
           s == Reported(o, remote[j.txn].status)
           b == Web(o) => remote[j.txn].order = o /\ remote[j.txn].exact
           r == [j EXCEPT !.pc = "record", !.status = s, !.match = b]
<1>1. Sound(j) /\ j \in Job /\ j.pc = "ask" /\ j.order \in Orders /\ j.txn \in Txns
  BY DEF Ask, PayInv, JobsAreSound, Sound, Verifying, TypeOK
<1>2. remote[j.txn] \in Remote /\ Provider[o] \in Providers
  BY <1>1, Nones DEF PayInv, TypeOK
<1>3. remote[j.txn].status \in RemoteStatus \ {"NONE"} /\ s \in RemoteStatus \ {"NONE"} /\ b \in BOOLEAN
  BY <1>1, <1>2 DEF Ask, Answerable, Reported, Remote, RemoteStatus
<1>4. s = "SUCCESS" => remote[j.txn].status = "SUCCESS"
  BY DEF Reported
<1> HIDE DEF s, b
<1>5. /\ r \in Job /\ r.pc = "record" /\ r.status = s /\ r.match = b
      /\ r.order = j.order /\ r.txn = j.txn /\ r.event = j.event
  BY <1>1, <1>3 DEF Job, Steps
<1>6. job' = [job EXCEPT ![w] = r] /\ UNCHANGED <<remote, order, attempt, balance, applied>>
  BY DEF Ask, s, b
<1> HIDE DEF r
<1>7. job' \in [Workers -> Job] /\ Moves(w) /\ job'[w] = r
  BY <1>5, <1>6, OneJob DEF PayInv, TypeOK, Moves
<1>8. ~Begins(w)
  BY <1>1, <1>5, <1>7 DEF Begins
<1>9. s = "SUCCESS" /\ b => Pays(j.txn, o)
  <2>1. CASE Web(o)
    BY <1>4, <2>1 DEF Pays, b
  <2>2. CASE ~Web(o)
    <3>1. remote[j.txn].order = o
      BY <1>1, <2>2 DEF Sound, Verifying
    <3>2. remote[j.txn].exact
      BY <1>1, <2>2, <3>1, Nones DEF PayInv, RemoteIsSound
    <3> QED BY <1>4, <3>1, <3>2 DEF Pays
  <2> QED BY <2>1, <2>2
<1>10. Sound(job[w])'
  BY <1>1, <1>3, <1>5, <1>6, <1>7, <1>9 DEF Sound, Verifying, Proven, Web, Pays
<1> QED BY <1>6, <1>7, <1>8, <1>10, HandlerStep DEF OnlyStatus

LEMMA MarkPaidKeeps ==
  ASSUME PayInv, NEW w \in Workers, MarkPaid(w), UNCHANGED <<event, refund, task>>
  PROVE  PayInv' /\ Calm
<1>1. Sound(job[w]) /\ job[w].pc = "paid" /\ Go(w, "fulfil") /\ "fulfil" \in Steps
      /\ UNCHANGED <<remote, attempt, balance, applied>>
  BY DEF MarkPaid, PayInv, JobsAreSound, Steps
<1>2. job' \in [Workers -> Job] /\ Moves(w) /\ ~Begins(w) /\ SameBut(job'[w], job[w], "fulfil")
  BY <1>1, GoOn
<1>3. Sound(job[w])'
  BY <1>1, <1>2 DEF SameBut, Sound, Verifying, Proven, Web, Pays
<1>4. OnlyStatus
  BY <1>1 DEF MarkPaid, OnlyStatus, OrderStatus, Sound, Verifying
<1> QED BY <1>1, <1>2, <1>3, <1>4, HandlerStep

LEMMA WriteStatusKeeps ==
  ASSUME PayInv, NEW w \in Workers, WriteStatus(w), UNCHANGED <<event, refund, task>>
  PROVE  PayInv' /\ Calm
<1>1. Sound(job[w]) /\ job[w] \in Job /\ job[w].pc = "write" /\ UNCHANGED <<remote, attempt, balance, applied>>
      /\ order' = [order EXCEPT ![job[w].order].status = job[w].status]
  BY DEF WriteStatus, PayInv, JobsAreSound, TypeOK
<1>2. job[w].order \in Orders /\ job[w].status \in OrderStatus
  BY <1>1 DEF Sound, Verifying, Job, RemoteStatus, OrderStatus
<1>3. OnlyStatus
  BY <1>1, <1>2 DEF OnlyStatus
<1>4. CASE Finish(w)
  BY <1>1, <1>3, <1>4, EndSound, HandlerStep
<1>5. CASE job[w].event # None /\ Go(w, "ensure")
  <2>1. "ensure" \in Steps /\ job[w].pc # "persist"
    BY <1>1 DEF Steps
  <2>2. job' \in [Workers -> Job] /\ Moves(w) /\ ~Begins(w) /\ SameBut(job'[w], job[w], "ensure")
    BY <1>5, <2>1, GoOn
  <2>3. Sound(job[w])'
    BY <1>1, <1>5, <2>2 DEF SameBut, Sound, Verifying, Proven, Web, Pays
  <2> QED BY <1>1, <1>3, <2>2, <2>3, HandlerStep
<1> QED BY <1>4, <1>5 DEF WriteStatus

LEMMA FulfilKeeps ==
  ASSUME PayInv, NEW w \in Workers, Fulfil(w), UNCHANGED <<event, refund, task>>
  PROVE  PayInv' /\ Calm
<1>1. Sound(job[w]) /\ job[w].pc = "fulfil" /\ UNCHANGED <<remote, order, attempt, balance, applied>>
  BY DEF Fulfil, PayInv, JobsAreSound
<1>2. PICK pc \in {"current", "deliver", "review"} : Go(w, pc)
  BY DEF Fulfil
<1>3. pc \in Steps /\ job[w].pc # "persist"
  BY <1>1 DEF Steps
<1>4. job' \in [Workers -> Job] /\ Moves(w) /\ ~Begins(w) /\ SameBut(job'[w], job[w], pc)
  BY <1>2, <1>3, GoOn
<1>5. Sound(job[w])'
  BY <1>1, <1>4 DEF SameBut, Sound, Verifying, Proven, Web, Pays
<1> QED BY <1>1, <1>4, <1>5, HandlerStep DEF OnlyStatus

LEMMA ReviewKeeps ==
  ASSUME PayInv, NEW w \in Workers, Review(w), UNCHANGED <<event, refund, task>>
  PROVE  PayInv' /\ Calm
<1>1. Sound(job[w]) /\ job[w].pc = "review" /\ Go(w, "current") /\ "current" \in Steps
      /\ UNCHANGED <<remote, attempt, balance, applied>>
  BY DEF Review, PayInv, JobsAreSound, Steps
<1>2. job' \in [Workers -> Job] /\ Moves(w) /\ ~Begins(w) /\ SameBut(job'[w], job[w], "current")
  BY <1>1, GoOn
<1>3. Sound(job[w])'
  BY <1>1, <1>2 DEF SameBut, Sound, Verifying, Proven, Web, Pays
<1>4. OnlyStatus
  BY <1>1 DEF Review, OnlyStatus, OrderStatus, Sound, Verifying
<1> QED BY <1>1, <1>2, <1>3, <1>4, HandlerStep

LEMMA CurrentKeeps ==
  ASSUME PayInv, NEW w \in Workers, Current(w), UNCHANGED <<event, refund, task>>
  PROVE  PayInv' /\ Calm
<1>1. Sound(job[w]) /\ job[w].pc = "current" /\ UNCHANGED <<remote, order, attempt, balance, applied>>
  BY DEF Current, PayInv, JobsAreSound
<1>2. CASE Finish(w)
  BY <1>1, <1>2, EndSound, HandlerStep DEF OnlyStatus
<1>3. CASE order[job[w].order].fulfilled /\ Go(w, "ack")
  <2>1. "ack" \in Steps /\ job[w].pc # "persist"
    BY <1>1 DEF Steps
  <2>2. job' \in [Workers -> Job] /\ Moves(w) /\ ~Begins(w) /\ SameBut(job'[w], job[w], "ack")
    BY <1>3, <2>1, GoOn
  <2>3. Sound(job[w])'
    BY <1>1, <1>3, <2>2 DEF SameBut, Sound, Verifying, Proven, Web, Pays
  <2> QED BY <1>1, <2>2, <2>3, HandlerStep DEF OnlyStatus
<1> QED BY <1>2, <1>3 DEF Current

LEMMA AcknowledgeKeeps ==
  ASSUME PayInv, NEW w \in Workers, Acknowledge(w), UNCHANGED <<event, refund, task>>
  PROVE  PayInv' /\ Calm
<1>1. Sound(job[w]) /\ job[w].pc = "ack" /\ Finish(w) /\ UNCHANGED <<remote, attempt, balance, applied>>
      /\ order' = [order EXCEPT ![job[w].order].acked = TRUE]
  BY DEF Acknowledge, PayInv, JobsAreSound
<1>2. job[w].order \in Orders /\ order[job[w].order].fulfilled /\ order \in [Orders -> Order]
  BY <1>1 DEF Sound, Verifying, PayInv, TypeOK
<1>3. job' \in [Workers -> Job] /\ Moves(w) /\ ~Begins(w) /\ Sound(job[w])'
  BY <1>1, EndSound
<1>4. order' \in [Orders -> Order] /\ Quiet
  <2>1. /\ order' \in [Orders -> Order]
        /\ \A p \in Orders : /\ order'[p].fulfilled = order[p].fulfilled /\ order'[p].grant = order[p].grant
                             /\ order'[p].invoice = order[p].invoice
                             /\ p # job[w].order => order'[p] = order[p]
    <3> DEFINE o == job[w].order
    <3>1. o \in Orders /\ order' = [order EXCEPT ![o].acked = TRUE] /\ order \in [Orders -> Order]
      BY <1>1, <1>2
    <3> HIDE DEF o
    <3>2. /\ order' \in [Orders -> Order]
          /\ \A p \in Orders : /\ order'[p].fulfilled = order[p].fulfilled /\ order'[p].grant = order[p].grant
                               /\ order'[p].invoice = order[p].invoice
                               /\ p # o => order'[p] = order[p]
      BY <3>1 DEF Order
    <3> QED BY <3>2 DEF o
  <2> QED BY <1>1, <1>2, <2>1 DEF Quiet
<1>5. TypeOK'
  BY <1>1, <1>3, <1>4 DEF PayInv, TypeOK
<1> QED BY <1>3, <1>4, <1>5, OnceStays, QuietStep

LEMMA RecordKeeps ==
  ASSUME PayInv, NEW w \in Workers, Record(w), UNCHANGED <<event, refund, task>>
  PROVE  PayInv' /\ Calm
<1> DEFINE t == job[w].txn
           o == job[w].order
<1>1. Sound(job[w]) /\ job[w] \in Job /\ job[w].pc = "record" /\ UNCHANGED <<remote, order, balance, applied>>
  BY DEF Record, PayInv, JobsAreSound, TypeOK
<1>2. t \in Txns /\ o \in Orders /\ o # None
  BY <1>1, Nones DEF Sound, Verifying
<1>3. CASE Fail(w) /\ UNCHANGED attempt
  BY <1>1, <1>3, EndSound, HandlerStep DEF OnlyStatus
<1>4. CASE Go(w, AfterRecord(w)) /\ attempt'[t].order = o /\ attempt' \in [Txns -> Attempt]
           /\ \A s \in Txns : attempt[s].order # None => attempt'[s].order = attempt[s].order
  <2>1. AfterRecord(w) \in Steps /\ job[w].pc # "persist"
    BY <1>1 DEF Steps, AfterRecord
  <2>2. job' \in [Workers -> Job] /\ Moves(w) /\ ~Begins(w) /\ SameBut(job'[w], job[w], AfterRecord(w))
    BY <1>4, <2>1, GoOn
  <2>3. Sound(job[w])'
    BY <1>1, <1>4, <2>2 DEF SameBut, Sound, Verifying, Proven, Web, Pays, AfterRecord
  <2>4. Quiet
    BY <1>1, <1>4 DEF Quiet
  <2>5. TypeOK'
    BY <1>1, <1>4, <2>2 DEF PayInv, TypeOK
  <2> QED BY <2>2, <2>3, <2>4, <2>5, OnceStays, QuietStep
<1>5. ASSUME attempt[t].order = None, attempt' = [attempt EXCEPT ![t] = [order |-> o, status |-> AttemptStatus(w)]]
      PROVE  /\ attempt' \in [Txns -> Attempt] /\ attempt'[t].order = o
             /\ \A s \in Txns : attempt[s].order # None => attempt'[s].order = attempt[s].order
  <2>1. AttemptStatus(w) \in {"NONE", "VERIFIED", "REJECTED", "PENDING", "FAILED", "CANCELED", "REFUNDED"}
    BY <1>1 DEF AttemptStatus, Job, RemoteStatus
  <2>2. attempt \in [Txns -> Attempt]
    BY DEF PayInv, TypeOK
  <2> QED BY <1>2, <1>5, <2>1, <2>2 DEF Attempt
<1>6. attempt \in [Txns -> Attempt]
  BY DEF PayInv, TypeOK
<1>7. \/ attempt[t].order = None /\ attempt' = [attempt EXCEPT ![t] = [order |-> o, status |-> AttemptStatus(w)]]
           /\ Go(w, AfterRecord(w))
      \/ attempt[t].order = o /\ Go(w, AfterRecord(w)) /\ UNCHANGED attempt
      \/ Fail(w) /\ UNCHANGED attempt
  BY DEF Record
<1> QED BY <1>3, <1>4, <1>5, <1>6, <1>7

\* The delivery itself: the coins or the grant, the invoice and the date together.
LEMMA DeliverKeeps ==
  ASSUME PayInv, NEW w \in Workers, Deliver(w), UNCHANGED <<event, refund, task>>
  PROVE  PayInv' /\ (Calm \/ \E o \in Orders : Sells(o))
<1> DEFINE o == job[w].order
           t == job[w].txn
<1>1. Sound(job[w]) /\ job[w].pc = "deliver" /\ Go(w, "current") /\ "current" \in Steps /\ UNCHANGED <<remote, attempt>>
  BY DEF Deliver, PayInv, JobsAreSound, Steps
<1>2. o \in Orders /\ t \in Txns /\ Pays(t, o) /\ attempt[t].order = o
  BY <1>1 DEF Sound, Verifying, Proven
<1>3. job' \in [Workers -> Job] /\ Moves(w) /\ ~Begins(w) /\ SameBut(job'[w], job[w], "current")
  BY <1>1, GoOn
<1>4. EventHandledOnce'
  BY <1>3, OnceStays
<1>5. CASE order[o].fulfilled /\ UNCHANGED <<order, balance, applied>>
  <2>1. Sound(job[w])'
    BY <1>1, <1>3, <1>5 DEF SameBut, Sound, Verifying, Proven, Web, Pays
  <2> QED BY <1>1, <1>3, <1>5, <2>1, HandlerStep DEF OnlyStatus
<1>6. CASE ~order[o].fulfilled /\ Credit(o) /\ order' = [order EXCEPT ![o] = Delivered(o)]
  <2>1. order \in [Orders -> Order]
    BY DEF PayInv, TypeOK
  <2>2. /\ order' \in [Orders -> Order]
        /\ \A p \in Orders \ {o} : order'[p] = order[p]
        /\ order'[o].fulfilled /\ order'[o].invoice = "PAID" /\ order'[o].acked = order[o].acked
        /\ order'[o].grant = IF o \in CoinOrders THEN order[o].grant ELSE "ACTIVE"
    BY <1>2, <1>6, <2>1, DeliverStep
  <2>3. order[o].invoice = "NONE" /\ (o \in CoinOrders => order[o].grant = "NONE" /\ ~Ledger!Used(<<"payment", o>>))
    BY <1>2, <1>6 DEF PayInv, CoinsAreNoGrant, DeliveryIsWhole
  <2>4. /\ balance' \in [Users -> 0..MaxBalance]
        /\ applied' \subseteq [key : LedgerKeys, user : Users, amount : {Quantity, -Quantity}]
        /\ \A l : Ledger!Used(l)' <=> Ledger!Used(l) \/ (o \in CoinOrders /\ l = <<"payment", o>>)
    <3>1. CASE o \in CoinOrders
      <4>1. Ledger!Apply(Owner[o], <<"payment", o>>, Quantity)
        BY <1>6, <2>3, <3>1 DEF Credit
      <4>2. Owner[o] \in Users /\ <<"payment", o>> \in LedgerKeys /\ Quantity \in {Quantity, -Quantity}
        BY <1>2, Nones DEF LedgerKeys
      <4> QED BY <3>1, <4>1, <4>2, MovementStep DEF PayInv, TypeOK
    <3>2. CASE o \notin CoinOrders
      <4>1. UNCHANGED <<balance, applied>>
        BY <1>6, <3>2 DEF Credit
      <4> QED BY <3>2, <4>1 DEF PayInv, TypeOK, Ledger!Used
    <3> QED BY <3>1, <3>2
  <2>5. TypeOK'
    BY <1>1, <1>3, <2>2, <2>4 DEF PayInv, TypeOK
  <2>6. Grows
    BY <1>1, <2>2 DEF Grows
  <2>7. Sound(job[w])'
    BY <1>1, <1>3, <2>6 DEF SameBut, Sound, Verifying, Proven, Web, Pays
  <2>8. \A r \in Refunds : Ledger!Used(<<"refund", r>>)' <=> Ledger!Used(<<"refund", r>>)
    BY <2>4
  <2>9. RefundsAreSound' /\ JobsAreSound'
    BY <1>3, <2>5, <2>6, <2>7, <2>8, RefundsStay, OthersSound
  <2>10. RemoteIsSound' /\ EventsAreSound' /\ TasksAreSound'
    BY <1>1 DEF PayInv, RemoteIsSound, EventsAreSound, TasksAreSound, TaskSound
  <2>11. CoinsAreNoGrant'
    BY <2>2, Nones DEF PayInv, CoinsAreNoGrant
  <2>12. DeliveredOnProof'
    BY <1>1, <1>2, <2>2 DEF PayInv, DeliveredOnProof, Pays
  <2>13. DeliveryIsWhole'
    <3> SUFFICES ASSUME NEW p \in Orders
                 PROVE  /\ order'[p].fulfilled <=> order'[p].invoice # "NONE"
                        /\ p \in CoinOrders => (order'[p].fulfilled <=> Ledger!Used(<<"payment", p>>)')
                        /\ p \notin CoinOrders => (order'[p].fulfilled <=> order'[p].grant # "NONE")
      BY DEF DeliveryIsWhole
    <3>1. CASE p = o
      BY <2>2, <2>4, <3>1
    <3>2. CASE p # o
      <4>1. order'[p] = order[p] /\ (Ledger!Used(<<"payment", p>>)' <=> Ledger!Used(<<"payment", p>>))
        BY <2>2, <2>4, <3>2
      <4> QED BY <4>1 DEF PayInv, DeliveryIsWhole
    <3> QED BY <3>1, <3>2
  <2>14. AcknowledgedOnlyIfDelivered'
    BY <2>2 DEF PayInv, AcknowledgedOnlyIfDelivered
  <2>15. RefundTakesBack'
    <3> DEFINE done(p) == \E r \in Refunds : refund[r].completed /\ refund[r].order = p
    <3> SUFFICES ASSUME NEW p \in Orders
                 PROVE  /\ order'[p].invoice = "REFUNDED" <=> done(p)
                        /\ order'[p].grant = "REVOKED" <=> done(p) /\ p \notin CoinOrders
                        /\ \A r \in Refunds : refund[r].order = p /\ p \in CoinOrders =>
                             (refund[r].completed <=> Ledger!Used(<<"refund", r>>)')
      BY DEF RefundTakesBack
    <3>1. /\ order[p].invoice = "REFUNDED" <=> done(p)
          /\ order[p].grant = "REVOKED" <=> done(p) /\ p \notin CoinOrders
          /\ \A r \in Refunds : refund[r].order = p /\ p \in CoinOrders =>
               (refund[r].completed <=> Ledger!Used(<<"refund", r>>))
      BY DEF PayInv, RefundTakesBack
    <3> HIDE DEF done
    <3>2. CASE p = o
      BY <2>2, <2>3, <2>8, <3>1, <3>2
    <3>3. CASE p # o
      BY <2>2, <2>8, <3>1, <3>3
    <3> QED BY <3>2, <3>3
  <2>16. Sells(o)
    <3>1. \A m \in applied' \ applied : m.key[1] = "payment"
      <4>1. ASSUME NEW m \in applied' \ applied, o \in CoinOrders PROVE m.key = <<"payment", o>>
        <5>1. Ledger!Apply(Owner[o], <<"payment", o>>, Quantity)
          BY <1>6, <2>3, <4>1 DEF Credit
        <5> QED BY <4>1, <5>1 DEF Ledger!Apply
      <4>2. o \notin CoinOrders => applied' = applied
        BY <1>6 DEF Credit
      <4> QED BY <4>1, <4>2
    <3>2. Paid(o)
      BY <1>2 DEF Paid
    <3> QED BY <1>1, <1>6, <2>2, <3>1, <3>2 DEF Sells
  <2> QED BY <1>2, <1>4, <2>5, <2>9, <2>10, <2>11, <2>12, <2>13, <2>14, <2>15, <2>16 DEF PayInv
<1> QED BY <1>5, <1>6 DEF Deliver

-----------------------------------------------------------------------------
(* The providers, the customers and the webhooks.                             *)
\* A step of the provider: no handler moves, no row of KnowMe changes.
LEMMA RemoteStep ==
  ASSUME PayInv, remote' \in [Txns -> Remote], RemoteIsSound', UNCHANGED <<order, attempt, balance, applied, job, event, refund, task>>,
         \A t \in Txns : /\ remote[t].status # "NONE" =>
                              /\ remote'[t].order = remote[t].order /\ remote'[t].exact = remote[t].exact
                              /\ remote'[t].status # "NONE"
                         /\ remote[t].status \in {"SUCCESS", "REFUNDED"} => remote'[t].status \in {"SUCCESS", "REFUNDED"}
  PROVE  PayInv'
<1>1. TypeOK'
  BY DEF PayInv, TypeOK
<1>2. Grows /\ SameGoods
  BY DEF Grows, SameGoods, Ledger!Used
<1>3. RefundsAreSound'
  <2>1. refund' = refund /\ \A r \in Refunds : Ledger!Used(<<"refund", r>>)' <=> Ledger!Used(<<"refund", r>>)
    BY DEF Ledger!Used
  <2> QED BY <1>1, <1>2, <2>1, RefundsStay
<1>4. EventsAreSound'
  <2>1. \A e \in Events : event[e].txn # None => event[e].txn \in Txns
    BY DEF PayInv, TypeOK, Event
  <2> QED BY <2>1 DEF PayInv, EventsAreSound
<1>5. TasksAreSound'
  BY DEF PayInv, TasksAreSound, TaskSound
<1>6. JobsAreSound'
  <2> SUFFICES ASSUME NEW v \in Workers
               PROVE  Sound(job[v])'
    BY DEF JobsAreSound
  <2>1. job'[v] = job[v] /\ job[v] \in Job /\ Sound(job[v])
    BY DEF PayInv, TypeOK, JobsAreSound
  <2> QED BY <1>2, <2>1, SoundStays DEF Sound, Pays
<1>7. EventHandledOnce'
  BY DEF PayInv, EventHandledOnce
<1> QED BY <1>1, <1>2, <1>3, <1>4, <1>5, <1>6, <1>7, Keeps

LEMMA ProviderKeeps ==
  ASSUME PayInv, NEW t \in Txns, UNCHANGED <<event, refund, task>>,
         (\E o \in Orders : Pay(t, o)) \/ Settle(t) \/ GiveBack(t)
  PROVE  PayInv'
<1>1. UNCHANGED <<order, attempt, balance, applied, job>> /\ remote \in [Txns -> Remote]
  BY DEF Pay, Settle, GiveBack, PayInv, TypeOK
<1>2. ASSUME NEW r \in Remote, remote' = [remote EXCEPT ![t] = r],
             r.status # "NONE" /\ r.order \in Orders /\ (~Web(r.order) => r.exact),
             remote[t].status # "NONE" => r.order = remote[t].order /\ r.exact = remote[t].exact,
             remote[t].status \in {"SUCCESS", "REFUNDED"} => r.status \in {"SUCCESS", "REFUNDED"}
      PROVE  PayInv'
  <2>1. remote' \in [Txns -> Remote] /\ remote'[t] = r /\ \A s \in Txns : s # t => remote'[s] = remote[s]
    BY <1>1, <1>2
  <2>2. RemoteIsSound'
    BY <1>2, <2>1 DEF PayInv, RemoteIsSound, Web
  <2> QED BY <1>1, <1>2, <2>1, <2>2, RemoteStep
<1>3. ASSUME NEW o \in Orders, Pay(t, o) PROVE PayInv'
  <2>1. PICK exact \in BOOLEAN : /\ ~Web(o) => exact
                                 /\ remote' = [remote EXCEPT ![t] = [order |-> o, status |-> "PENDING", exact |-> exact]]
    BY <1>3 DEF Pay
  <2> DEFINE r == [order |-> o, status |-> "PENDING", exact |-> exact]
  <2>2. r \in Remote /\ r.status = "PENDING" /\ r.order = o /\ r.exact = exact
    BY DEF Remote, RemoteStatus
  <2>3. remote[t].status = "NONE" /\ remote' = [remote EXCEPT ![t] = r]
    BY <1>3, <2>1 DEF Pay
  <2> HIDE DEF r
  <2> QED BY <1>2, <2>1, <2>2, <2>3
<1>4. ASSUME NEW s \in RemoteStatus \ {"NONE"}, remote' = [remote EXCEPT ![t].status = s], remote[t].status # "NONE",
             remote[t].status \in {"SUCCESS", "REFUNDED"} => s \in {"SUCCESS", "REFUNDED"}
      PROVE  PayInv'
  <2> DEFINE r == [remote[t] EXCEPT !.status = s]
  <2>1. r \in Remote /\ r.status = s /\ r.order = remote[t].order /\ r.exact = remote[t].exact
    BY <1>1 DEF Remote
  <2>2. remote' = [remote EXCEPT ![t] = r]
    BY <1>1, <1>4
  <2> HIDE DEF r
  <2>3. r.order \in Orders /\ (~Web(r.order) => r.exact)
    BY <1>4, <2>1, Nones DEF PayInv, RemoteIsSound
  <2> QED BY <1>2, <1>4, <2>1, <2>2, <2>3
<1>5. CASE Settle(t)
  <2>1. remote[t].status = "PENDING" /\ remote[t].order \in Orders
    BY <1>5 DEF Settle, PayInv, RemoteIsSound
  <2>2. PICK s \in Outcomes(remote[t].order) : remote' = [remote EXCEPT ![t].status = s]
    BY <1>5 DEF Settle
  <2>3. Provider[remote[t].order] \in Providers
    BY <2>1, Nones
  <2>4. s \in RemoteStatus \ {"NONE"}
    BY <2>2, <2>3 DEF Outcomes, Web, Providers, RemoteStatus
  <2> QED BY <1>4, <2>1, <2>2, <2>4
<1>6. CASE GiveBack(t)
  BY <1>4, <1>6 DEF GiveBack, RemoteStatus
<1> QED BY <1>3, <1>5, <1>6

LEMMA NotifyKeeps ==
  ASSUME PayInv, NEW e \in Events, NEW t \in Txns, Notify(e, t), UNCHANGED <<refund, task>>
  PROVE  PayInv' /\ Calm
<1>1. UNCHANGED payVars /\ event[e].txn = None /\ remote[t].status # "NONE" /\ event' = [event EXCEPT ![e].txn = t]
  BY DEF Notify
<1>2. /\ event' \in [Events -> Event] /\ event'[e].txn = t
      /\ \A f \in Events : event'[f].log = event[f].log /\ (f # e => event'[f] = event[f])
  BY <1>1 DEF PayInv, TypeOK, Event
<1>3. TypeOK'
  BY <1>1, <1>2 DEF PayInv, TypeOK, payVars
<1>4. Grows /\ SameGoods
  BY <1>1, <1>2 DEF Grows, SameGoods, Ledger!Used, payVars
<1>5. RefundsAreSound'
  <2>1. refund' = refund /\ \A r \in Refunds : Ledger!Used(<<"refund", r>>)' <=> Ledger!Used(<<"refund", r>>)
    BY <1>1 DEF Ledger!Used, payVars
  <2> QED BY <1>3, <1>4, <2>1, RefundsStay
<1>6. EventsAreSound'
  BY <1>1, <1>2 DEF PayInv, EventsAreSound, payVars
<1>7. RemoteIsSound' /\ TasksAreSound' /\ EventHandledOnce'
  BY <1>1 DEF PayInv, RemoteIsSound, TasksAreSound, TaskSound, EventHandledOnce, payVars
<1>8. JobsAreSound'
  <2> SUFFICES ASSUME NEW v \in Workers
               PROVE  Sound(job[v])'
    BY DEF JobsAreSound
  <2>1. job'[v] = job[v] /\ job[v] \in Job /\ Sound(job[v])
    BY <1>1 DEF PayInv, TypeOK, JobsAreSound, payVars
  <2> QED BY <1>4, <2>1, SoundStays DEF Sound, Pays
<1>9. Calm
  BY <1>1 DEF Calm, payVars
<1> QED BY <1>3, <1>4, <1>5, <1>6, <1>7, <1>8, <1>9, Keeps

\* A step of a handler with one event's log.
LEMMA LogStep ==
  ASSUME PayInv, UNCHANGED <<remote, order, attempt, balance, applied, refund, task>>,
         NEW e \in Events, NEW l \in LogStatus \ {"NONE"}, NEW a \in BOOLEAN,
         event' = [event EXCEPT ![e] = [@ EXCEPT !.log = l, !.accepted = a]]
  PROVE  event' \in [Events -> Event] /\ event'[e].log # "NONE" /\ Quiet
<1> DEFINE r == [event[e] EXCEPT !.log = l, !.accepted = a]
<1>1. r \in Event /\ r.log = l /\ r.txn = event[e].txn
  BY DEF PayInv, TypeOK, Event
<1>2. event' = [event EXCEPT ![e] = r] /\ event \in [Events -> Event]
  BY DEF PayInv, TypeOK
<1> HIDE DEF r
<1>3. event' \in [Events -> Event] /\ event'[e] = r /\ \A f \in Events : f # e => event'[f] = event[f]
  BY <1>1, <1>2
<1>4. \A f \in Events : event'[f].txn = event[f].txn /\ (event[f].log # "NONE" => event'[f].log # "NONE")
  BY <1>1, <1>3
<1> QED BY <1>1, <1>3, <1>4 DEF Quiet

LEMMA SameLog ==
  ASSUME NEW f \in Event
  PROVE  /\ f.accepted \in BOOLEAN
         /\ \A l : [f EXCEPT !.log = l] = [f EXCEPT !.log = l, !.accepted = f.accepted]
BY DEF Event

LEMMA ReceiveKeeps ==
  ASSUME PayInv, NEW w \in Workers, NEW e \in Events, Receive(w, e), UNCHANGED <<refund, task>>
  PROVE  PayInv' /\ Calm
<1>1. UNCHANGED <<remote, order, attempt, balance, applied>> /\ event[e].txn # None
  BY DEF Receive
<1>2. event[e].txn \in Txns /\ remote[event[e].txn].status # "NONE"
  BY <1>1 DEF PayInv, TypeOK, Event, EventsAreSound
<1>3. CASE event[e].log = "NONE"
  <2> DEFINE r == [Idle EXCEPT !.pc = "persist", !.event = e, !.txn = event[e].txn]
  <2>1. r \in Job /\ r.pc = "persist" /\ r.event = e /\ r.txn = event[e].txn
    BY <1>2 DEF Idle, Job, Steps, RemoteStatus
  <2>2. job' = [job EXCEPT ![w] = r] /\ event' = event
    BY <1>3 DEF Receive
  <2> HIDE DEF r
  <2>3. job' \in [Workers -> Job] /\ Moves(w) /\ ~Begins(w) /\ job'[w] = r
    BY <2>1, <2>2, BecomesSound
  <2>4. Sound(job[w])'
    BY <1>1, <1>2, <2>1, <2>3 DEF Sound, Verifying, Proven
  <2> QED BY <1>1, <2>2, <2>3, <2>4, HandlerStep DEF OnlyStatus
<1>4. CASE event[e].log # "NONE"
  <2>1. job' = job /\ event' = [event EXCEPT ![e].accepted = TRUE] /\ event \in [Events -> Event]
    BY <1>4 DEF Receive, PayInv, TypeOK
  <2>2. event' \in [Events -> Event] /\ \A f \in Events : event'[f].txn = event[f].txn /\ event'[f].log = event[f].log
    BY <2>1 DEF Event
  <2>3. Quiet
    BY <1>1, <2>2 DEF Quiet
  <2>4. TypeOK'
    BY <1>1, <2>1, <2>2 DEF PayInv, TypeOK
  <2>5. Sound(job[w])'
    <3>1. job'[w] = job[w] /\ job[w] \in Job /\ Sound(job[w]) /\ Grows
      BY <2>1, <2>3, QuietGrows DEF PayInv, TypeOK, JobsAreSound
    <3> QED BY <3>1, SoundStays DEF Sound, Pays
  <2>6. Moves(w) /\ EventHandledOnce'
    BY <2>1 DEF Moves, PayInv, EventHandledOnce
  <2> QED BY <2>3, <2>4, <2>5, <2>6, QuietStep
<1> QED BY <1>3, <1>4

LEMMA PersistKeeps ==
  ASSUME PayInv, NEW w \in Workers, Persist(w), UNCHANGED <<refund, task>>
  PROVE  PayInv' /\ Calm
<1> DEFINE e == job[w].event
<1>1. /\ UNCHANGED <<remote, order, attempt, balance, applied>> /\ job[w].pc = "persist"
      /\ Sound(job[w]) /\ job[w] \in Job /\ e \in Events /\ job[w].txn \in Txns
  BY DEF Persist, PayInv, JobsAreSound, Sound, TypeOK
<1>2. CASE event[e].log = "NONE"
  <2>1. event' = [event EXCEPT ![e].log = "RECEIVED"] /\ Go(w, "locate") /\ "locate" \in Steps
    BY <1>2 DEF Persist, Steps
  <2>2. event[e] \in Event /\ event \in [Events -> Event]
    BY <1>1 DEF PayInv, TypeOK
  <2>3. event' = [event EXCEPT ![e] = [@ EXCEPT !.log = "RECEIVED", !.accepted = event[e].accepted]]
    BY <2>1, <2>2, SameLog
  <2>4. event' \in [Events -> Event] /\ event'[e].log # "NONE" /\ Quiet
    BY <1>1, <2>2, <2>3, SameLog, LogStep DEF LogStatus
  <2>5. job' \in [Workers -> Job] /\ SameBut(job'[w], job[w], "locate") /\ Moves(w)
    BY <2>1, GoStep DEF PayInv, TypeOK, Moves
  <2>6. TypeOK'
    BY <1>1, <2>4, <2>5 DEF PayInv, TypeOK
  <2>7. Sound(job[w])'
    BY <1>1, <2>4, <2>5 DEF SameBut, Sound, Verifying, Proven
  <2>8. EventHandledOnce'
    <3>1. \A v \in Workers : v # w /\ job[v].event = e => job[v].pc = "persist"
      BY <1>1, <1>2, Nones DEF PayInv, JobsAreSound, Sound
    <3>2. \A v \in Workers : v # w => job'[v] = job[v]
      BY <2>5 DEF Moves
    <3>3. job'[w].event = e
      BY <2>5 DEF SameBut
    <3> QED BY <3>1, <3>2, <3>3 DEF PayInv, EventHandledOnce
  <2> QED BY <2>4, <2>5, <2>6, <2>7, <2>8, QuietStep
<1>3. CASE event[e].log # "NONE"
  <2>1. job' = [job EXCEPT ![w] = Idle] /\ event' = event
    BY <1>3 DEF Persist
  <2> QED BY <1>1, <2>1, IdleSound, HandlerStep DEF OnlyStatus
<1> QED BY <1>2, <1>3

\* A webhook that ends, its event's log written.
LEMMA LogEnds ==
  ASSUME PayInv, NEW w \in Workers, UNCHANGED <<remote, order, attempt, balance, applied, refund, task>>,
         NEW e \in Events, NEW l \in LogStatus \ {"NONE"}, NEW a \in BOOLEAN,
         event' = [event EXCEPT ![e] = [@ EXCEPT !.log = l, !.accepted = a]], job' = [job EXCEPT ![w] = Idle]
  PROVE  PayInv' /\ Calm
<1>1. event' \in [Events -> Event] /\ Quiet
  BY LogStep
<1>2. job' \in [Workers -> Job] /\ Moves(w) /\ ~Begins(w) /\ Sound(job[w])'
  BY IdleSound
<1>3. TypeOK'
  BY <1>1, <1>2 DEF PayInv, TypeOK
<1> QED BY <1>1, <1>2, <1>3, OnceStays, QuietStep

LEMMA LocateKeeps ==
  ASSUME PayInv, NEW w \in Workers, Locate(w), UNCHANGED <<refund, task>>
  PROVE  PayInv' /\ Calm
<1> DEFINE e == job[w].event
           t == job[w].txn
<1>1. /\ UNCHANGED <<remote, order, attempt, balance, applied>> /\ job[w].pc = "locate"
      /\ Sound(job[w]) /\ job[w] \in Job /\ e \in Events /\ t \in Txns /\ remote[t].status # "NONE"
  BY DEF Locate, PayInv, JobsAreSound, Sound, TypeOK
<1>2. CASE Located(t)
  <2> DEFINE r == [job[w] EXCEPT !.pc = "ask", !.order = remote[t].order]
  <2>1. remote[t].order \in Orders
    BY <1>1 DEF PayInv, RemoteIsSound
  <2>2. r \in Job /\ r.pc = "ask" /\ r.order = remote[t].order /\ r.txn = t /\ r.event = e
    BY <1>1, <2>1 DEF Job, Steps
  <2>3. job' = [job EXCEPT ![w] = r] /\ event' = event
    BY <1>2 DEF Locate
  <2> HIDE DEF r
  <2>4. job' \in [Workers -> Job] /\ Moves(w) /\ job'[w] = r
    BY <2>2, <2>3, OneJob DEF PayInv, TypeOK, Moves
  <2>5. ~Begins(w)
    BY <1>1, <2>2, <2>4 DEF Begins
  <2>6. Sound(job[w])'
    BY <1>1, <2>1, <2>2, <2>3, <2>4 DEF Sound, Verifying, Proven, Web
  <2> QED BY <1>1, <2>3, <2>4, <2>5, <2>6, HandlerStep DEF OnlyStatus
<1>3. CASE ~Located(t)
  <2>1. event' = [event EXCEPT ![e] = [@ EXCEPT !.log = "IGNORED", !.accepted = TRUE]]
        /\ job' = [job EXCEPT ![w] = Idle]
    BY <1>3 DEF Locate
  <2> QED BY <1>1, <2>1, LogEnds DEF LogStatus
<1> QED BY <1>2, <1>3

LEMMA CompleteWebhookKeeps ==
  ASSUME PayInv, NEW w \in Workers, CompleteWebhook(w), UNCHANGED <<refund, task>>
  PROVE  PayInv' /\ Calm
<1>1. job[w].event \in Events /\ UNCHANGED <<remote, order, attempt, balance, applied>>
  BY DEF CompleteWebhook, PayInv, JobsAreSound, Sound
<1> QED BY <1>1, LogEnds DEF CompleteWebhook, LogStatus

LEMMA FailWebhookKeeps ==
  ASSUME PayInv, NEW w \in Workers, FailWebhook(w), UNCHANGED <<refund, task>>
  PROVE  PayInv' /\ Calm
<1> DEFINE e == job[w].event
<1>1. e \in Events /\ UNCHANGED <<remote, order, attempt, balance, applied>>
      /\ event' = [event EXCEPT ![e].log = "FAILED"] /\ job' = [job EXCEPT ![w] = Idle]
  BY DEF FailWebhook, PayInv, JobsAreSound, Sound
<1>2. event[e] \in Event /\ event \in [Events -> Event]
  BY <1>1 DEF PayInv, TypeOK
<1> DEFINE a == event[e].accepted
<1>3. a \in BOOLEAN /\ event' = [event EXCEPT ![e] = [@ EXCEPT !.log = "FAILED", !.accepted = a]]
  BY <1>1, <1>2, SameLog
<1> HIDE DEF a
<1>4. "FAILED" \in LogStatus \ {"NONE"} /\ UNCHANGED <<remote, order, attempt, balance, applied, refund, task>>
  BY <1>1 DEF LogStatus
<1> QED BY <1>1, <1>3, <1>4, LogEnds

-----------------------------------------------------------------------------
(* Refunds.                                                                   *)
LEMMA AllSound ==
  ASSUME PayInv, Grows, UNCHANGED job
  PROVE  JobsAreSound' /\ EventHandledOnce'
<1>1. ASSUME NEW v \in Workers
      PROVE  Sound(job[v])'
  <2>1. job'[v] = job[v] /\ job[v] \in Job /\ Sound(job[v])
    BY DEF PayInv, TypeOK, JobsAreSound
  <2> QED BY <2>1, SoundStays DEF Sound, Pays
<1>2. EventHandledOnce'
  BY DEF PayInv, EventHandledOnce
<1> QED BY <1>1, <1>2 DEF JobsAreSound

LEMMA AllTasksSound ==
  ASSUME PayInv, Grows, UNCHANGED task
  PROVE  TasksAreSound'
<1> SUFFICES ASSUME NEW c \in Staff
             PROVE  TaskSound(task[c])'
  BY DEF TasksAreSound
<1>1. task'[c] = task[c] /\ TaskSound(task[c])
  BY DEF PayInv, TasksAreSound
<1> QED BY <1>1, TaskStays DEF TaskSound

\* One staff request becomes k.
LEMMA OneTask ==
  ASSUME PayInv, Grows, NEW d \in Staff, NEW k \in Task, task' = [task EXCEPT ![d] = k],
         k = NoTask \/ TaskSound(task[d])'
  PROVE  task' \in [Staff -> Task] /\ TasksAreSound'
<1>1. task' \in [Staff -> Task] /\ task'[d] = k /\ \A c \in Staff : c # d => task'[c] = task[c]
  BY DEF PayInv, TypeOK
<1>2. ASSUME NEW c \in Staff, c # d
      PROVE  TaskSound(task[c])'
  <2>1. task'[c] = task[c] /\ TaskSound(task[c])
    BY <1>1, <1>2 DEF PayInv, TasksAreSound
  <2> QED BY <2>1, TaskStays DEF TaskSound
<1>3. TaskSound(task[d])'
  BY <1>1 DEF NoTask, TaskSound
<1> QED BY <1>1, <1>2, <1>3 DEF TasksAreSound

LEMMA NoTaskIsTask == NoTask \in Task
BY DEF NoTask, Task

\* A staff request that only moves on.
LEMMA TaskOnly ==
  ASSUME PayInv, UNCHANGED <<payVars, event, refund>>, NEW d \in Staff, NEW k \in Task,
         task' = [task EXCEPT ![d] = k], k = NoTask \/ TaskSound(task[d])'
  PROVE  PayInv' /\ Calm
<1>1. Grows /\ SameGoods
  BY DEF Grows, SameGoods, Ledger!Used, payVars
<1>2. task' \in [Staff -> Task] /\ TasksAreSound'
  BY <1>1, OneTask
<1>3. TypeOK'
  BY <1>2 DEF PayInv, TypeOK, payVars
<1>4. RefundsAreSound'
  <2>1. refund' = refund /\ \A r \in Refunds : Ledger!Used(<<"refund", r>>)' <=> Ledger!Used(<<"refund", r>>)
    BY <1>1 DEF SameGoods
  <2> QED BY <1>1, <1>3, <2>1, RefundsStay
<1>5. RemoteIsSound' /\ EventsAreSound'
  BY DEF PayInv, RemoteIsSound, EventsAreSound, payVars
<1>6. UNCHANGED job
  BY DEF payVars
<1>7. Calm
  BY DEF Calm, payVars
<1> QED BY <1>1, <1>2, <1>3, <1>4, <1>5, <1>6, <1>7, AllSound, Keeps

LEMMA RequestRefundKeeps ==
  ASSUME PayInv, NEW d \in Staff, NEW o \in Orders, RequestRefund(d, o), UNCHANGED event
  PROVE  PayInv' /\ Calm
<1> DEFINE k == [NoTask EXCEPT !.pc = "active", !.order = o]
<1>1. k \in Task /\ k.pc = "active" /\ k.order = o
  BY DEF NoTask, Task
<1>2. task' = [task EXCEPT ![d] = k] /\ UNCHANGED <<payVars, event, refund>> /\ task \in [Staff -> Task]
  BY DEF RequestRefund, PayInv, TypeOK
<1> HIDE DEF k
<1>3. TaskSound(task[d])'
  BY <1>1, <1>2 DEF TaskSound
<1> QED BY <1>1, <1>2, <1>3, TaskOnly

LEMMA CheckActiveKeeps ==
  ASSUME PayInv, NEW d \in Staff, CheckActive(d), UNCHANGED event
  PROVE  PayInv' /\ Calm
<1> DEFINE k == [task[d] EXCEPT !.pc = "create"]
<1>1. /\ UNCHANGED <<payVars, event, refund>> /\ task \in [Staff -> Task]
      /\ TaskSound(task[d]) /\ task[d].pc = "active"
  BY DEF CheckActive, PayInv, TypeOK, TasksAreSound
<1>2. task' = [task EXCEPT ![d] = NoTask] \/ task' = [task EXCEPT ![d] = k]
  BY DEF CheckActive
<1>3. k \in Task /\ k.pc = "create" /\ k.order = task[d].order
  BY <1>1 DEF Task
<1> HIDE DEF k
<1>4. CASE task' = [task EXCEPT ![d] = k]
  <2>1. TaskSound(task[d])'
    BY <1>1, <1>3, <1>4 DEF TaskSound
  <2> QED BY <1>1, <1>3, <1>4, <2>1, TaskOnly
<1> QED BY <1>1, <1>2, <1>4, NoTaskIsTask, TaskOnly

LEMMA ConfirmRefundKeeps ==
  ASSUME PayInv, NEW d \in Staff, NEW r \in Refunds, ConfirmRefund(d, r), UNCHANGED event
  PROVE  PayInv' /\ Calm
<1> DEFINE k == [pc |-> IF refund[r].completed THEN "reverse" ELSE "confirm", order |-> refund[r].order, refund |-> r]
<1>1. /\ refund[r].status # "NONE" /\ refund[r].order \in Orders /\ UNCHANGED <<payVars, event, refund>>
      /\ task \in [Staff -> Task] /\ task' = [task EXCEPT ![d] = k]
  BY DEF ConfirmRefund, PayInv, TypeOK, RefundsAreSound
<1>2. k \in Task /\ k.pc \in {"reverse", "confirm"} /\ k.order = refund[r].order /\ k.refund = r
  BY <1>1 DEF Task
<1> HIDE DEF k
<1>3. TaskSound(task[d])'
  BY <1>1, <1>2 DEF TaskSound
<1> QED BY <1>1, <1>2, <1>3, TaskOnly

LEMMA DropTaskKeeps ==
  ASSUME PayInv, NEW d \in Staff, DropTask(d), UNCHANGED event
  PROVE  PayInv' /\ Calm
BY NoTaskIsTask, TaskOnly DEF DropTask

\* A refund row is written: it keeps its order and says nothing of its completion.
LEMMA RowStep ==
  ASSUME PayInv, UNCHANGED <<remote, order, attempt, balance, applied, event>>,
         NEW q \in Refunds, NEW r \in Refund, refund' = [refund EXCEPT ![q] = r],
         r.status # "NONE", r.order \in Orders, r.completed = refund[q].completed,
         refund[q].status # "NONE" => r.order = refund[q].order,
         r.source # None => remote[r.source].order = r.order /\ remote[r.source].status # "NONE"
  PROVE  /\ refund' \in [Refunds -> Refund] /\ refund'[q] = r
         /\ Grows /\ SameGoods /\ RefundsAreSound' /\ RemoteIsSound' /\ EventsAreSound' /\ Calm
<1>1. refund' \in [Refunds -> Refund] /\ refund'[q] = r /\ \A p \in Refunds : p # q => refund'[p] = refund[p]
  BY DEF PayInv, TypeOK
<1>2. refund[q].completed => refund[q].status # "NONE"
  BY DEF PayInv, RefundsAreSound
<1>3. \A l : Ledger!Used(l)' <=> Ledger!Used(l)
  BY DEF Ledger!Used
<1>4. Grows
  BY <1>1 DEF Grows
<1>5. SameGoods
  BY <1>1, <1>2, <1>3 DEF SameGoods
<1>6. RefundsAreSound'
  <2> SUFFICES ASSUME NEW p \in Refunds
               PROVE  /\ refund'[p].status = "NONE" => refund'[p].order = None /\ refund'[p].source = None /\ ~refund'[p].completed
                      /\ refund'[p].status # "NONE" => refund'[p].order \in Orders
                      /\ refund'[p].source # None =>
                           remote[refund'[p].source].order = refund'[p].order /\ remote[refund'[p].source].status # "NONE"
                      /\ refund'[p].completed => order[refund'[p].order].fulfilled
                      /\ Ledger!Used(<<"refund", p>>)' <=> refund'[p].completed /\ refund'[p].order \in CoinOrders
    BY DEF RefundsAreSound
  <2>1. CASE p # q
    BY <1>1, <1>3, <2>1 DEF PayInv, RefundsAreSound
  <2>2. CASE p = q
    BY <1>1, <1>2, <1>3, <2>2 DEF PayInv, RefundsAreSound
  <2> QED BY <2>1, <2>2
<1>7. RemoteIsSound' /\ EventsAreSound'
  BY DEF PayInv, RemoteIsSound, EventsAreSound
<1>8. Calm
  BY <1>1, <1>2 DEF Calm
<1> QED BY <1>1, <1>4, <1>5, <1>6, <1>7, <1>8

\* The same by a staff request.
LEMMA StaffRow ==
  ASSUME PayInv, UNCHANGED <<payVars, event>>,
         NEW q \in Refunds, NEW r \in Refund, refund' = [refund EXCEPT ![q] = r],
         r.status # "NONE", r.order \in Orders, r.completed = refund[q].completed,
         refund[q].status # "NONE" => r.order = refund[q].order,
         r.source # None => remote[r.source].order = r.order /\ remote[r.source].status # "NONE",
         NEW d \in Staff, NEW k \in Task, task' = [task EXCEPT ![d] = k], k = NoTask \/ TaskSound(task[d])'
  PROVE  PayInv' /\ Calm
<1>1. UNCHANGED <<remote, order, attempt, balance, applied, event>> /\ UNCHANGED job
  BY DEF payVars
<1>2. /\ refund' \in [Refunds -> Refund]
      /\ Grows /\ SameGoods /\ RefundsAreSound' /\ RemoteIsSound' /\ EventsAreSound' /\ Calm
  BY <1>1, RowStep
<1>3. task' \in [Staff -> Task] /\ TasksAreSound'
  BY <1>2, OneTask
<1>4. TypeOK'
  BY <1>1, <1>2, <1>3 DEF PayInv, TypeOK
<1> QED BY <1>1, <1>2, <1>3, <1>4, AllSound, Keeps

\* A row of refund q with another status.
LEMMA RestatusRow ==
  ASSUME PayInv, NEW q \in Refunds, refund[q].status # "NONE", NEW s \in RefundStatus \ {"NONE"}
  PROVE  LET r == [refund[q] EXCEPT !.status = s]
         IN  /\ r \in Refund /\ r.status = s /\ r.order \in Orders /\ r.completed = refund[q].completed
             /\ r.order = refund[q].order
             /\ r.source # None => remote[r.source].order = r.order /\ remote[r.source].status # "NONE"
             /\ [refund EXCEPT ![q].status = s] = [refund EXCEPT ![q] = r]
<1> DEFINE r == [refund[q] EXCEPT !.status = s]
<1>1. refund \in [Refunds -> Refund] /\ refund[q] \in Refund
  BY DEF PayInv, TypeOK
<1>2. r \in Refund /\ r.status = s /\ r.order = refund[q].order /\ r.completed = refund[q].completed
      /\ r.source = refund[q].source
  BY <1>1 DEF Refund
<1>3. [refund EXCEPT ![q].status = s] = [refund EXCEPT ![q] = r]
  BY <1>1
<1> HIDE DEF r
<1>4. r.order \in Orders /\ (r.source # None => remote[r.source].order = r.order /\ remote[r.source].status # "NONE")
  BY <1>2 DEF PayInv, RefundsAreSound
<1> QED BY <1>2, <1>3, <1>4 DEF r

LEMMA CreateRefundKeeps ==
  ASSUME PayInv, NEW d \in Staff, NEW q \in Refunds, CreateRefund(d, q), UNCHANGED event
  PROVE  PayInv' /\ Calm
<1> DEFINE o == task[d].order
           s == IF Web(o) THEN "REQUESTED" ELSE "PROVIDER_MANAGED"
           r == [refund[q] EXCEPT !.order = o, !.status = s]
           k == [task[d] EXCEPT !.pc = "submit", !.refund = q]
<1>1. /\ task[d] \in Task /\ TaskSound(task[d]) /\ task[d].pc = "create" /\ refund[q] \in Refund
      /\ refund[q].status = "NONE" /\ UNCHANGED <<payVars, event>> /\ task \in [Staff -> Task]
  BY DEF CreateRefund, PayInv, TypeOK, TasksAreSound
<1>2. o \in Orders
  BY <1>1 DEF TaskSound
<1>3. r \in Refund /\ r.status = s /\ r.order = o /\ r.source = refund[q].source /\ r.completed = refund[q].completed
  BY <1>1, <1>2 DEF Refund, RefundStatus
<1>4. k \in Task /\ k.pc = "submit" /\ k.order = o /\ k.refund = q
  BY <1>1 DEF Task
<1>5. refund[q].source = None /\ s # "NONE"
  BY <1>1 DEF PayInv, RefundsAreSound
<1>6. refund' = [refund EXCEPT ![q] = r] /\ (task' = [task EXCEPT ![d] = k] \/ task' = [task EXCEPT ![d] = NoTask])
  BY DEF CreateRefund
<1>7. refund'[q] = r
  BY <1>6 DEF PayInv, TypeOK
<1> HIDE DEF r, s, k
<1>8. CASE task' = [task EXCEPT ![d] = k]
  <2>1. task'[d] = k
    BY <1>1, <1>8
  <2>2. TaskSound(task[d])'
    BY <1>2, <1>3, <1>4, <1>5, <1>7, <2>1 DEF TaskSound
  <2> QED BY <1>1, <1>2, <1>3, <1>4, <1>5, <1>6, <1>8, <2>2, StaffRow
<1>9. CASE task' = [task EXCEPT ![d] = NoTask]
  BY <1>1, <1>2, <1>3, <1>5, <1>6, <1>9, NoTaskIsTask, StaffRow
<1> QED BY <1>6, <1>8, <1>9

\* A staff request that writes the status of its refund.
LEMMA StatusRow ==
  ASSUME PayInv, UNCHANGED <<payVars, event>>, NEW d \in Staff, NEW s \in RefundStatus \ {"NONE"},
         task[d].pc \in {"submit", "confirm", "reverse", "recovery"},
         refund' = [refund EXCEPT ![task[d].refund].status = s],
         task' = [task EXCEPT ![d] = NoTask] \/ task' = [task EXCEPT ![d].pc = "reverse"]
  PROVE  PayInv' /\ Calm
<1> DEFINE q == task[d].refund
           r == [refund[q] EXCEPT !.status = s]
           k == [task[d] EXCEPT !.pc = "reverse"]
<1>1. /\ task[d] \in Task /\ TaskSound(task[d]) /\ task \in [Staff -> Task]
  BY DEF PayInv, TypeOK, TasksAreSound
<1>2. q \in Refunds /\ task[d].order \in Orders /\ refund[q].order = task[d].order /\ refund[q].status # "NONE"
  BY <1>1 DEF TaskSound
<1>3. /\ r \in Refund /\ r.status = s /\ r.order \in Orders /\ r.completed = refund[q].completed
      /\ r.order = refund[q].order
      /\ r.source # None => remote[r.source].order = r.order /\ remote[r.source].status # "NONE"
      /\ refund' = [refund EXCEPT ![q] = r]
  BY <1>2, RestatusRow
<1>4. k \in Task /\ k.pc = "reverse" /\ k.order = task[d].order /\ k.refund = q
  BY <1>1 DEF Task
<1>5. task' = [task EXCEPT ![d].pc = "reverse"] => task' = [task EXCEPT ![d] = k]
  BY <1>1
<1>6. refund'[q] = r
  BY <1>2, <1>3 DEF PayInv, TypeOK
<1> HIDE DEF r, k
<1>7. CASE task' = [task EXCEPT ![d] = k]
  <2>1. task'[d] = k
    BY <1>1, <1>7
  <2>2. TaskSound(task[d])'
    BY <1>2, <1>3, <1>4, <1>6, <2>1 DEF TaskSound
  <2> QED BY <1>2, <1>3, <1>4, <1>7, <2>2, StaffRow
<1>8. CASE task' = [task EXCEPT ![d] = NoTask]
  BY <1>2, <1>3, <1>8, NoTaskIsTask, StaffRow
<1> QED BY <1>5, <1>7, <1>8

LEMMA SubmitRefundKeeps ==
  ASSUME PayInv, NEW d \in Staff, SubmitRefund(d), UNCHANGED event
  PROVE  PayInv' /\ Calm
<1>1. PICK s \in {"PROCESSING", "FAILED"} : refund' = [refund EXCEPT ![task[d].refund].status = s]
  BY DEF SubmitRefund
<1>2. s \in RefundStatus \ {"NONE"}
  BY DEF RefundStatus
<1> QED BY <1>1, <1>2, StatusRow DEF SubmitRefund

LEMMA MarkConfirmedKeeps ==
  ASSUME PayInv, NEW d \in Staff, MarkConfirmed(d) \/ RequireRecovery(d), UNCHANGED event
  PROVE  PayInv' /\ Calm
<1>1. "CONFIRMED" \in RefundStatus \ {"NONE"} /\ "RECOVERY_REQUIRED" \in RefundStatus \ {"NONE"}
  BY DEF RefundStatus
<1> QED BY <1>1, StatusRow DEF MarkConfirmed, RequireRecovery

\* What reverse does to the rows, whoever asked for it.
LEMMA ReverseRows ==
  ASSUME PayInv, NEW o \in Orders, NEW r \in Refunds, Reverse(o, r), refund[r].order = o, refund[r].status # "NONE",
         UNCHANGED <<remote, attempt, event>>, job' \in [Workers -> Job], task' \in [Staff -> Task]
  PROVE  /\ TypeOK' /\ Grows /\ RefundsAreSound' /\ RemoteIsSound' /\ EventsAreSound' /\ Money'
         /\ Calm \/ Undoes(o, r)
<1> USE DEF Money
<1>0. RemoteIsSound' /\ EventsAreSound'
  BY DEF PayInv, RemoteIsSound, EventsAreSound
<1>1. CASE UNCHANGED <<order, balance, applied, refund>>
  <2>1. Grows /\ SameGoods
    BY <1>1 DEF Grows, SameGoods, Ledger!Used
  <2>2. TypeOK'
    BY <1>1 DEF PayInv, TypeOK
  <2>3. RefundsAreSound'
    <3>1. refund' = refund /\ \A q \in Refunds : Ledger!Used(<<"refund", q>>)' <=> Ledger!Used(<<"refund", q>>)
      BY <1>1, <2>1 DEF SameGoods
    <3> QED BY <2>1, <2>2, <3>1, RefundsStay
  <2>4. Calm
    BY <1>1 DEF Calm
  <2> QED BY <1>0, <2>1, <2>2, <2>3, <2>4, MoneyStays
<1>2. ASSUME order[o].fulfilled,
             IF DebitDue(o, r) THEN Ledger!Apply(Owner[o], <<"refund", r>>, -Quantity) ELSE UNCHANGED <<balance, applied>>,
             order' = [order EXCEPT ![o] = TakenBack(o)],
             refund' = [refund EXCEPT ![r] = [@ EXCEPT !.status = "COMPLETED", !.completed = TRUE]]
      PROVE  TypeOK' /\ Grows /\ RefundsAreSound' /\ Money' /\ Undoes(o, r)
  <2>1. order \in [Orders -> Order] /\ refund \in [Refunds -> Refund] /\ refund[r] \in Refund
    BY DEF PayInv, TypeOK
  <2>2. /\ order' \in [Orders -> Order]
        /\ \A p \in Orders \ {o} : order'[p] = order[p]
        /\ order'[o].fulfilled = order[o].fulfilled /\ order'[o].acked = order[o].acked
        /\ order'[o].grant = IF order[o].grant = "ACTIVE" THEN "REVOKED" ELSE order[o].grant
        /\ order'[o].invoice = IF order[o].invoice = "NONE" THEN "NONE" ELSE "REFUNDED"
    BY <1>2, <2>1, ReverseStep
  <2> DEFINE n == [refund[r] EXCEPT !.status = "COMPLETED", !.completed = TRUE]
  <2>3. n \in Refund /\ n.status = "COMPLETED" /\ n.completed /\ n.order = o /\ n.source = refund[r].source
    BY <2>1 DEF Refund, RefundStatus
  <2>4. refund' = [refund EXCEPT ![r] = n]
    BY <1>2
  <2> HIDE DEF n
  <2>5. refund' \in [Refunds -> Refund] /\ refund'[r] = n /\ \A q \in Refunds : q # r => refund'[q] = refund[q]
    BY <2>1, <2>3, <2>4
  <2>6. /\ balance' \in [Users -> 0..MaxBalance]
        /\ applied' \subseteq [key : LedgerKeys, user : Users, amount : {Quantity, -Quantity}]
        /\ \A l : Ledger!Used(l)' <=> Ledger!Used(l) \/ (o \in CoinOrders /\ l = <<"refund", r>>)
    <3>1. CASE DebitDue(o, r)
      <4>1. Ledger!Apply(Owner[o], <<"refund", r>>, -Quantity)
        BY <1>2, <3>1
      <4>2. Owner[o] \in Users /\ <<"refund", r>> \in LedgerKeys /\ -Quantity \in {Quantity, -Quantity}
        BY Nones DEF LedgerKeys
      <4>3. o \in CoinOrders
        BY <3>1 DEF DebitDue
      <4> QED BY <4>1, <4>2, <4>3, MovementStep DEF PayInv, TypeOK
    <3>2. CASE ~DebitDue(o, r)
      <4>1. UNCHANGED <<balance, applied>>
        BY <1>2, <3>2
      <4>2. \A l : Ledger!Used(l)' <=> Ledger!Used(l)
        BY <4>1 DEF Ledger!Used
      <4>3. o \in CoinOrders => Ledger!Used(<<"refund", r>>)
        BY <3>2 DEF DebitDue
      <4> QED BY <4>1, <4>2, <4>3 DEF PayInv, TypeOK
    <3> QED BY <3>1, <3>2
  <2>7. TypeOK'
    BY <2>2, <2>5, <2>6 DEF PayInv, TypeOK
  <2>8. Grows
    BY <2>2, <2>3, <2>5 DEF Grows
  <2>9. /\ \A p : Ledger!Used(<<"payment", p>>)' <=> Ledger!Used(<<"payment", p>>)
        /\ \A q \in Refunds : q # r => (Ledger!Used(<<"refund", q>>)' <=> Ledger!Used(<<"refund", q>>))
        /\ o \in CoinOrders => Ledger!Used(<<"refund", r>>)'
        /\ o \notin CoinOrders => (Ledger!Used(<<"refund", r>>)' <=> Ledger!Used(<<"refund", r>>))
    BY <2>6
  <2>10. RefundsAreSound'
    <3> SUFFICES ASSUME NEW q \in Refunds
                 PROVE  /\ refund'[q].status = "NONE" => refund'[q].order = None /\ refund'[q].source = None /\ ~refund'[q].completed
                        /\ refund'[q].status # "NONE" => refund'[q].order \in Orders
                        /\ refund'[q].source # None =>
                             remote[refund'[q].source].order = refund'[q].order /\ remote[refund'[q].source].status # "NONE"
                        /\ refund'[q].completed => order'[refund'[q].order].fulfilled
                        /\ Ledger!Used(<<"refund", q>>)' <=> refund'[q].completed /\ refund'[q].order \in CoinOrders
      BY DEF RefundsAreSound
    <3>1. CASE q = r
      <4>1. refund[r].source # None => remote[refund[r].source].order = o /\ remote[refund[r].source].status # "NONE"
        BY DEF PayInv, RefundsAreSound
      <4>2. Ledger!Used(<<"refund", r>>) => o \in CoinOrders
        BY DEF PayInv, RefundsAreSound
      <4> QED BY <1>2, <2>2, <2>3, <2>5, <2>9, <3>1, <4>1, <4>2
    <3>2. CASE q # r
      <4>1. refund'[q] = refund[q] /\ (refund[q].completed => refund[q].status # "NONE")
        BY <2>5, <3>2 DEF PayInv, RefundsAreSound
      <4>2. Ledger!Used(<<"refund", q>>)' <=> refund[q].completed /\ refund[q].order \in CoinOrders
        BY <2>9, <3>2 DEF PayInv, RefundsAreSound
      <4> QED BY <2>8, <4>1, <4>2 DEF PayInv, RefundsAreSound, Grows
    <3> QED BY <3>1, <3>2
  <2>11. CoinsAreNoGrant'
    BY <2>2, Nones DEF PayInv, CoinsAreNoGrant
  <2>12. DeliveredOnProof'
    <3>1. \A p \in Orders : order'[p].fulfilled = order[p].fulfilled
      BY <2>2
    <3> QED BY <2>8, <3>1, ProofStays
  <2>13. DeliveryIsWhole'
    <3>1. ASSUME NEW p \in Orders
          PROVE  /\ order'[p].fulfilled = order[p].fulfilled
                 /\ order'[p].invoice # "NONE" <=> order[p].invoice # "NONE"
                 /\ order'[p].grant # "NONE" <=> order[p].grant # "NONE"
      BY <2>2
    <3> QED BY <2>9, <3>1 DEF PayInv, DeliveryIsWhole
  <2>14. AcknowledgedOnlyIfDelivered'
    BY <2>2 DEF PayInv, AcknowledgedOnlyIfDelivered
  <2>15. RefundTakesBack'
    <3> DEFINE done(p) == \E q \in Refunds : refund[q].completed /\ refund[q].order = p
               later(p) == \E q \in Refunds : refund'[q].completed /\ refund'[q].order = p
    <3> SUFFICES ASSUME NEW p \in Orders
                 PROVE  /\ order'[p].invoice = "REFUNDED" <=> later(p)
                        /\ order'[p].grant = "REVOKED" <=> later(p) /\ p \notin CoinOrders
                        /\ \A q \in Refunds : refund'[q].order = p /\ p \in CoinOrders =>
                             (refund'[q].completed <=> Ledger!Used(<<"refund", q>>)')
      BY DEF RefundTakesBack
    <3>1. /\ order[p].invoice = "REFUNDED" <=> done(p)
          /\ order[p].grant = "REVOKED" <=> done(p) /\ p \notin CoinOrders
      BY DEF PayInv, RefundTakesBack
    <3>2. \A q \in Refunds : refund'[q].order = p /\ p \in CoinOrders =>
            (refund'[q].completed <=> Ledger!Used(<<"refund", q>>)')
      BY <2>10 DEF RefundsAreSound
    <3>3. CASE p = o
      <4>1. later(p)
        BY <2>3, <2>5, <3>3
      <4>2. order[o].invoice # "NONE" /\ (o \notin CoinOrders => order[o].grant # "NONE")
            /\ (o \in CoinOrders => order[o].grant = "NONE") /\ order[o] \in Order
        BY <1>2, <2>1 DEF PayInv, DeliveryIsWhole, CoinsAreNoGrant
      <4>3. order'[o].invoice = "REFUNDED" /\ (order'[o].grant = "REVOKED" <=> o \notin CoinOrders)
        BY <2>2, <4>2 DEF Order
      <4> QED BY <3>2, <3>3, <4>1, <4>3
    <3>4. CASE p # o
      <4>1. later(p) <=> done(p)
        BY <2>3, <2>5, <3>4
      <4>2. order'[p] = order[p]
        BY <2>2, <3>4
      <4> QED BY <3>1, <3>2, <4>1, <4>2
    <3> QED BY <3>3, <3>4
  <2>16. Undoes(o, r)
    <3>1. \A m \in applied' \ applied : o \in CoinOrders /\ m.key = <<"refund", r>> /\ m.user = Owner[o]
      <4>1. ASSUME NEW m \in applied' \ applied, DebitDue(o, r)
            PROVE  o \in CoinOrders /\ m.key = <<"refund", r>> /\ m.user = Owner[o]
        <5>1. Ledger!Apply(Owner[o], <<"refund", r>>, -Quantity) /\ o \in CoinOrders
          BY <1>2, <4>1 DEF DebitDue
        <5> QED BY <4>1, <5>1 DEF Ledger!Apply
      <4>2. ~DebitDue(o, r) => applied' = applied
        BY <1>2
      <4> QED BY <4>1, <4>2
    <3>2. \A p \in Orders : order'[p].fulfilled = order[p].fulfilled
      BY <2>2
    <3> QED BY <1>2, <2>3, <2>5, <3>1, <3>2 DEF Undoes
  <2> QED BY <2>7, <2>8, <2>10, <2>11, <2>12, <2>13, <2>14, <2>15, <2>16
<1> QED BY <1>0, <1>1, <1>2 DEF Reverse

LEMMA ReverseRefundKeeps ==
  ASSUME PayInv, NEW d \in Staff, ReverseRefund(d), UNCHANGED event
  PROVE  PayInv' /\ (Calm \/ \E o \in Orders, r \in Refunds : Undoes(o, r))
<1> DEFINE o == task[d].order
           r == task[d].refund
           k == [task[d] EXCEPT !.pc = "recovery"]
<1>1. /\ task[d] \in Task /\ TaskSound(task[d]) /\ task \in [Staff -> Task] /\ task[d].pc = "reverse"
      /\ UNCHANGED <<remote, attempt, job>>
  BY DEF ReverseRefund, PayInv, TypeOK, TasksAreSound
<1>2. r \in Refunds /\ o \in Orders /\ refund[r].order = o /\ refund[r].status # "NONE"
  BY <1>1 DEF TaskSound
<1>3. CASE Reverse(o, r) /\ task' = [task EXCEPT ![d] = NoTask]
  <2>1. task' \in [Staff -> Task] /\ job' \in [Workers -> Job]
    BY <1>1, <1>3, NoTaskIsTask DEF PayInv, TypeOK
  <2>2. /\ TypeOK' /\ Grows /\ RefundsAreSound' /\ RemoteIsSound' /\ EventsAreSound' /\ Money'
        /\ Calm \/ Undoes(o, r)
    BY <1>1, <1>2, <1>3, <2>1, ReverseRows
  <2>3. TasksAreSound'
    BY <1>3, <2>2, NoTaskIsTask, OneTask
  <2>4. JobsAreSound' /\ EventHandledOnce'
    BY <1>1, <2>2, AllSound
  <2> QED BY <1>2, <2>2, <2>3, <2>4 DEF PayInv, Money
<1>4. CASE task' = [task EXCEPT ![d].pc = "recovery"] /\ UNCHANGED <<order, balance, applied, refund>>
  <2>1. k \in Task /\ k.pc = "recovery" /\ k.order = o /\ k.refund = r
    BY <1>1 DEF Task
  <2>2. task' = [task EXCEPT ![d] = k] /\ UNCHANGED <<payVars, event, refund>>
    BY <1>1, <1>4 DEF payVars
  <2> HIDE DEF k
  <2>3. TaskSound(task[d])'
    BY <1>1, <1>2, <2>1, <2>2 DEF TaskSound
  <2> QED BY <2>1, <2>2, <2>3, TaskOnly
<1> QED BY <1>3, <1>4 DEF ReverseRefund

LEMMA ReverseRevokedKeeps ==
  ASSUME PayInv, NEW w \in Workers, ReverseRevoked(w)
  PROVE  PayInv' /\ (Calm \/ \E o \in Orders, r \in Refunds : Undoes(o, r))
<1> DEFINE o == job[w].order
           r == job[w].refund
<1>1. /\ Sound(job[w]) /\ job[w].pc = "reverse" /\ UNCHANGED <<remote, attempt, event, task>>
  BY DEF ReverseRevoked, PayInv, JobsAreSound
<1>2. r \in Refunds /\ o \in Orders /\ refund[r].order = o /\ refund[r].status # "NONE"
  BY <1>1 DEF Sound, Verifying
<1>3. CASE Reverse(o, r) /\ Finish(w)
  <2>1. job' \in [Workers -> Job] /\ Moves(w) /\ ~Begins(w) /\ Sound(job[w])'
    BY <1>1, <1>3, EndSound
  <2>2. task' \in [Staff -> Task]
    BY <1>1 DEF PayInv, TypeOK
  <2>3. /\ TypeOK' /\ Grows /\ RefundsAreSound' /\ RemoteIsSound' /\ EventsAreSound' /\ Money'
        /\ Calm \/ Undoes(o, r)
    BY <1>1, <1>2, <1>3, <2>1, <2>2, ReverseRows
  <2>4. TasksAreSound'
    BY <1>1, <2>3, AllTasksSound
  <2>5. JobsAreSound' /\ EventHandledOnce'
    BY <2>1, <2>3, OthersSound, OnceStays
  <2> QED BY <1>2, <2>3, <2>4, <2>5 DEF PayInv, Money
<1>4. CASE Go(w, "recovery") /\ UNCHANGED <<order, balance, applied, refund>>
  <2>1. "recovery" \in Steps /\ job[w].pc # "persist"
    BY <1>1 DEF Steps
  <2>2. job' \in [Workers -> Job] /\ Moves(w) /\ ~Begins(w) /\ SameBut(job'[w], job[w], "recovery")
    BY <1>4, <2>1, GoOn
  <2>3. Sound(job[w])'
    BY <1>1, <1>4, <2>2 DEF SameBut, Sound, Verifying, Proven, Web, Pays
  <2> QED BY <1>1, <1>4, <2>2, <2>3, HandlerStep DEF OnlyStatus
<1> QED BY <1>3, <1>4 DEF ReverseRevoked

\* A handler that writes a refund row.
LEMMA HandlerRow ==
  ASSUME PayInv, UNCHANGED <<remote, order, attempt, balance, applied, event, task>>,
         NEW q \in Refunds, NEW r \in Refund, refund' = [refund EXCEPT ![q] = r],
         r.status # "NONE", r.order \in Orders, r.completed = refund[q].completed,
         refund[q].status # "NONE" => r.order = refund[q].order,
         r.source # None => remote[r.source].order = r.order /\ remote[r.source].status # "NONE",
         NEW w \in Workers, job' \in [Workers -> Job], Moves(w), ~Begins(w), Sound(job[w])'
  PROVE  PayInv' /\ Calm
<1>1. /\ refund' \in [Refunds -> Refund]
      /\ Grows /\ SameGoods /\ RefundsAreSound' /\ RemoteIsSound' /\ EventsAreSound' /\ Calm
  BY RowStep
<1>2. TypeOK'
  BY <1>1 DEF PayInv, TypeOK
<1> QED BY <1>1, <1>2, OthersSound, OnceStays, AllTasksSound, Keeps

LEMMA RequireRecoveryRevokedKeeps ==
  ASSUME PayInv, NEW w \in Workers, RequireRecoveryRevoked(w)
  PROVE  PayInv' /\ Calm
<1> DEFINE q == job[w].refund
           r == [refund[q] EXCEPT !.status = "RECOVERY_REQUIRED"]
<1>1. /\ Sound(job[w]) /\ job[w].pc = "recovery" /\ UNCHANGED <<remote, order, attempt, balance, applied, event, task>>
      /\ refund' = [refund EXCEPT ![q].status = "RECOVERY_REQUIRED"] /\ Fail(w)
  BY DEF RequireRecoveryRevoked, PayInv, JobsAreSound
<1>2. q \in Refunds /\ refund[q].status # "NONE"
  BY <1>1 DEF Sound
<1>3. job' \in [Workers -> Job] /\ Moves(w) /\ ~Begins(w) /\ Sound(job[w])'
  BY <1>1, EndSound
<1>4. "RECOVERY_REQUIRED" \in RefundStatus \ {"NONE"}
  BY DEF RefundStatus
<1>5. /\ r \in Refund /\ r.status = "RECOVERY_REQUIRED" /\ r.order \in Orders /\ r.completed = refund[q].completed
      /\ r.order = refund[q].order
      /\ r.source # None => remote[r.source].order = r.order /\ remote[r.source].status # "NONE"
      /\ refund' = [refund EXCEPT ![q] = r]
  BY <1>1, <1>2, <1>4, RestatusRow
<1> HIDE DEF r
<1> QED BY <1>1, <1>2, <1>3, <1>5, HandlerRow

LEMMA EnsureProviderRefundKeeps ==
  ASSUME PayInv, NEW w \in Workers, EnsureProviderRefund(w)
  PROVE  PayInv' /\ Calm
<1> DEFINE j == job[w]
<1>1. /\ Sound(j) /\ j \in Job /\ j.pc = "ensure" /\ UNCHANGED <<remote, order, attempt, balance, applied, event, task>>
  BY DEF EnsureProviderRefund, PayInv, TypeOK, JobsAreSound
<1>2. /\ j.order \in Orders /\ j.txn \in Txns /\ j.event # None
      /\ remote[j.txn].order = j.order /\ remote[j.txn].status # "NONE"
  BY <1>1 DEF Sound, Verifying
<1>3. PICK q \in Refunds :
        /\ \/ refund[q].source = j.txn /\ UNCHANGED refund
           \/ /\ refund[q].status = "NONE"
              /\ refund' = [refund EXCEPT ![q] =
                   [status |-> "CONFIRMED", order |-> j.order, source |-> j.txn, completed |-> FALSE]]
        /\ job' = [job EXCEPT ![w] = [@ EXCEPT !.pc = "reverse", !.refund = q]]
  BY DEF EnsureProviderRefund
<1> DEFINE n == [j EXCEPT !.pc = "reverse", !.refund = q]
<1>4. /\ n \in Job /\ n.pc = "reverse" /\ n.refund = q /\ n.order = j.order /\ n.txn = j.txn /\ n.event = j.event
      /\ n.status = j.status /\ n.match = j.match
  BY <1>1 DEF Job, Steps
<1>5. job' = [job EXCEPT ![w] = n]
  BY <1>3
<1> HIDE DEF n
<1>6. job' \in [Workers -> Job] /\ Moves(w) /\ job'[w] = n
  BY <1>4, <1>5, OneJob DEF PayInv, TypeOK, Moves
<1>7. ~Begins(w)
  BY <1>1, <1>4, <1>6 DEF Begins
<1>8. CASE refund[q].source = j.txn /\ UNCHANGED refund
  <2>1. refund[q].order = j.order /\ refund[q].status # "NONE"
    BY <1>2, <1>8, Nones DEF PayInv, RefundsAreSound
  <2>2. Sound(job[w])'
    BY <1>1, <1>4, <1>6, <1>8, <2>1 DEF Sound, Verifying, Proven, Web, Pays
  <2> QED BY <1>1, <1>6, <1>7, <1>8, <2>2, HandlerStep DEF OnlyStatus
<1>9. CASE /\ refund[q].status = "NONE"
           /\ refund' = [refund EXCEPT ![q] =
                [status |-> "CONFIRMED", order |-> j.order, source |-> j.txn, completed |-> FALSE]]
  <2> DEFINE r == [status |-> "CONFIRMED", order |-> j.order, source |-> j.txn, completed |-> FALSE]
  <2>1. r \in Refund /\ r.status = "CONFIRMED" /\ r.order = j.order /\ r.source = j.txn /\ r.completed = FALSE
    BY <1>2 DEF Refund, RefundStatus
  <2>2. refund' = [refund EXCEPT ![q] = r]
    BY <1>9
  <2> HIDE DEF r
  <2>3. refund[q].completed = FALSE
    BY <1>9 DEF PayInv, TypeOK, Refund, RefundsAreSound
  <2>4. refund'[q] = r
    BY <2>2 DEF PayInv, TypeOK
  <2>5. Sound(job[w])'
    BY <1>1, <1>2, <1>4, <1>6, <2>1, <2>4 DEF Sound, Verifying, Proven, Web, Pays
  <2> QED BY <1>1, <1>2, <1>6, <1>7, <1>9, <2>1, <2>2, <2>3, <2>5, HandlerRow
<1> QED BY <1>3, <1>8, <1>9

LEMMA SpendKeeps ==
  ASSUME PayInv, NEW s \in Spendings, NEW u \in Users, Spend(s, u), UNCHANGED <<event, refund, task>>
  PROVE  PayInv' /\ Calm
<1>1. UNCHANGED <<remote, order, attempt, job>> /\ Ledger!Apply(u, <<"spend", s>>, -Quantity)
  BY DEF Spend
<1>2. <<"spend", s>> \in LedgerKeys /\ -Quantity \in {Quantity, -Quantity}
  BY DEF LedgerKeys
<1>3. /\ balance' \in [Users -> 0..MaxBalance]
      /\ applied' \subseteq [key : LedgerKeys, user : Users, amount : {Quantity, -Quantity}]
      /\ \A l : Ledger!Used(l)' <=> Ledger!Used(l) \/ l = <<"spend", s>>
      /\ \A m \in applied' \ applied : m.key = <<"spend", s>>
  BY <1>1, <1>2, MovementStep DEF PayInv, TypeOK
<1>4. TypeOK'
  BY <1>1, <1>3 DEF PayInv, TypeOK
<1>5. Grows
  BY <1>1 DEF Grows
<1>6. SameGoods
  BY <1>1, <1>3 DEF SameGoods
<1>7. RefundsAreSound'
  <2>1. refund' = refund /\ \A r \in Refunds : Ledger!Used(<<"refund", r>>)' <=> Ledger!Used(<<"refund", r>>)
    BY <1>6 DEF SameGoods
  <2> QED BY <1>4, <1>5, <2>1, RefundsStay
<1>8. RemoteIsSound' /\ EventsAreSound'
  BY <1>1 DEF PayInv, RemoteIsSound, EventsAreSound
<1>9. Calm
  BY <1>1, <1>3 DEF Calm
<1> QED BY <1>1, <1>4, <1>5, <1>6, <1>7, <1>8, <1>9, AllSound, AllTasksSound, Keeps

-----------------------------------------------------------------------------
(* The invariant, and what the steps are.                                     *)
LEMMA PayInvHoldsInitially ==
  ASSUME PaymentsInit
  PROVE  PayInv
<1> USE DEF PaymentsInit, Init, WebhookInit, RefundInit, Ledger!Init
<1>1. TypeOK
  <2>1. remote \in [Txns -> Remote] /\ attempt \in [Txns -> Attempt]
    BY DEF Remote, RemoteStatus, Attempt
  <2>2. order \in [Orders -> Order]
    BY DEF Order, OrderStatus
  <2>3. balance \in [Users -> 0..MaxBalance] /\ applied = {} /\ job \in [Workers -> Job]
    BY PaymentAssumption, IdleJob
  <2>4. event \in [Events -> Event] /\ refund \in [Refunds -> Refund]
    BY DEF Event, LogStatus, Refund, RefundStatus
  <2>5. task \in [Staff -> Task]
    BY NoTaskIsTask
  <2> QED BY <2>1, <2>2, <2>3, <2>4, <2>5 DEF TypeOK
<1>2. JobsAreSound
  BY IdleJob DEF JobsAreSound, Sound, Verifying, Proven
<1>3. RemoteIsSound /\ EventsAreSound
  BY DEF RemoteIsSound, EventsAreSound
<1>4. RefundsAreSound
  BY DEF RefundsAreSound, Ledger!Used
<1>5. TasksAreSound
  BY DEF TasksAreSound, TaskSound, NoTask
<1>6. CoinsAreNoGrant /\ DeliveredOnProof /\ AcknowledgedOnlyIfDelivered
  BY Nones DEF CoinsAreNoGrant, DeliveredOnProof, AcknowledgedOnlyIfDelivered
<1>7. DeliveryIsWhole /\ RefundTakesBack
  BY DEF DeliveryIsWhole, RefundTakesBack, Ledger!Used
<1>8. EventHandledOnce
  BY IdleJob DEF EventHandledOnce
<1> QED BY <1>1, <1>2, <1>3, <1>4, <1>5, <1>6, <1>7, <1>8 DEF PayInv

\* A step of a provider or a customer there.
Provides == \E t \in Txns : /\ (\E o \in Orders : Pay(t, o)) \/ Settle(t) \/ GiveBack(t)
                            /\ UNCHANGED <<event, refund, task>>

Happens ==
  \/ Calm
  \/ \E o \in Orders : Sells(o)
  \/ \E o \in Orders, r \in Refunds : Undoes(o, r)
  \/ Provides

LEMMA OrderNextKeeps ==
  ASSUME PayInv, OrderNext, UNCHANGED <<event, refund, task>>
  PROVE  PayInv' /\ Happens
<1> USE DEF Happens
<1>1. ASSUME NEW t \in Txns, (\E o \in Orders : Pay(t, o)) \/ Settle(t) \/ GiveBack(t)
      PROVE  PayInv' /\ Happens
  BY <1>1, ProviderKeeps DEF Provides
<1>2. ASSUME NEW w \in Workers, VerificationStep(w)
      PROVE  PayInv' /\ Happens
  <2>1. CASE InitCheckout(w) \/ JournalCheckout(w)
    BY <2>1, InitCheckoutKeeps, CheckoutEndsKeep
  <2>2. CASE Ask(w) \/ Record(w) \/ Mismatch(w)
    BY <2>2, AskKeeps, RecordKeeps, MismatchKeeps
  <2>3. CASE MarkPaid(w) \/ WriteStatus(w) \/ Fulfil(w) \/ Review(w)
    BY <2>3, MarkPaidKeeps, WriteStatusKeeps, FulfilKeeps, ReviewKeeps
  <2>4. CASE Deliver(w) \/ Current(w) \/ Acknowledge(w)
    BY <2>4, DeliverKeeps, CurrentKeeps, AcknowledgeKeeps
  <2> QED BY <1>2, <2>1, <2>2, <2>3, <2>4 DEF VerificationStep
<1>3. ASSUME NEW w \in Workers, AbandonCheckout(w) \/ Throw(w) \/ Crash(w)
      PROVE  PayInv' /\ Happens
  BY <1>3, CheckoutEndsKeep, ThrowKeeps
<1>4. ASSUME NEW w \in Workers, NEW o \in Orders, CreateWebCheckout(w, o)
      PROVE  PayInv' /\ Happens
  BY <1>4, CreateWebCheckoutKeeps
<1>5. ASSUME NEW w \in Workers, NEW o \in Orders, NEW t \in Txns,
             VerifyWebOrder(w, o, t) \/ VerifyStorePurchase(w, o, t)
      PROVE  PayInv' /\ Happens
  BY <1>5, VerifyWebOrderKeeps, VerifyStorePurchaseKeeps
<1>6. ASSUME NEW s \in Spendings, NEW u \in Users, Spend(s, u)
      PROVE  PayInv' /\ Happens
  BY <1>6, SpendKeeps
<1> QED BY <1>1, <1>2, <1>3, <1>4, <1>5, <1>6 DEF OrderNext

LEMMA NextKeeps ==
  ASSUME PayInv, [Next]_vars
  PROVE  PayInv' /\ Happens
<1> USE DEF Happens
<1>1. CASE OrderNext /\ UNCHANGED <<event, refund, task>>
  BY <1>1, OrderNextKeeps
<1>2. ASSUME WebhookNext, UNCHANGED <<refund, task>>
      PROVE  PayInv' /\ Happens
  <2>1. ASSUME NEW e \in Events, NEW t \in Txns, Notify(e, t) PROVE PayInv' /\ Happens
    BY <1>2, <2>1, NotifyKeeps
  <2>2. ASSUME NEW w \in Workers, NEW e \in Events, Receive(w, e) PROVE PayInv' /\ Happens
    BY <1>2, <2>2, ReceiveKeeps
  <2>3. ASSUME NEW w \in Workers, WebhookStep(w) PROVE PayInv' /\ Happens
    BY <1>2, <2>3, PersistKeeps, LocateKeeps, CompleteWebhookKeeps, FailWebhookKeeps DEF WebhookStep
  <2> QED BY <1>2, <2>1, <2>2, <2>3 DEF WebhookNext
<1>3. ASSUME RefundNext, UNCHANGED event
      PROVE  PayInv' /\ Happens
  <2>1. ASSUME NEW d \in Staff, NEW o \in Orders, RequestRefund(d, o) PROVE PayInv' /\ Happens
    BY <1>3, <2>1, RequestRefundKeeps
  <2>2. ASSUME NEW d \in Staff, NEW r \in Refunds, ConfirmRefund(d, r) PROVE PayInv' /\ Happens
    BY <1>3, <2>2, ConfirmRefundKeeps
  <2>3. ASSUME NEW d \in Staff, NEW r \in Refunds, CreateRefund(d, r) PROVE PayInv' /\ Happens
    BY <1>3, <2>3, CreateRefundKeeps
  <2>4. ASSUME NEW d \in Staff, CheckActive(d) \/ SubmitRefund(d) \/ MarkConfirmed(d) \/ RequireRecovery(d) \/ DropTask(d)
        PROVE  PayInv' /\ Happens
    BY <1>3, <2>4, CheckActiveKeeps, SubmitRefundKeeps, MarkConfirmedKeeps, DropTaskKeeps
  <2>5. ASSUME NEW d \in Staff, ReverseRefund(d) PROVE PayInv' /\ Happens
    BY <1>3, <2>5, ReverseRefundKeeps
  <2> QED BY <1>3, <2>1, <2>2, <2>3, <2>4, <2>5 DEF RefundNext, RefundStep
<1>4. ASSUME NEW w \in Workers, AppleStep(w)
      PROVE  PayInv' /\ Happens
  BY <1>4, EnsureProviderRefundKeeps, ReverseRevokedKeeps, RequireRecoveryRevokedKeeps DEF AppleStep
<1>5. CASE UNCHANGED vars
  <2>1. TypeOK' /\ RemoteIsSound' /\ EventsAreSound' /\ RefundsAreSound'
    BY <1>5 DEF vars, PayInv, TypeOK, RemoteIsSound, EventsAreSound, RefundsAreSound, Ledger!Used
  <2>2. Grows /\ SameGoods /\ Calm
    BY <1>5 DEF vars, Grows, SameGoods, Calm, Ledger!Used
  <2> QED BY <1>5, <2>1, <2>2, AllSound, AllTasksSound, Keeps DEF vars
<1> QED BY <1>1, <1>2, <1>3, <1>4, <1>5 DEF Next

LEMMA PayInvHolds == Spec => []PayInv
<1>1. PaymentsInit => PayInv
  BY PayInvHoldsInitially
<1>2. PayInv /\ [Next]_vars => PayInv'
  BY NextKeeps
<1> QED BY <1>1, <1>2, PTL DEF Spec

\* Shapes of the state.
THEOREM TypesHold == Spec => []TypeOK
<1>1. PayInv => TypeOK
  BY DEF PayInv
<1> QED BY <1>1, PayInvHolds, PTL

\* applyVerification and the fulfilment: an order is delivered only on a payment
\* of exactly that order, recorded against it.
THEOREM PaidBeforeDelivered == Spec => []DeliveredOnProof
<1>1. PayInv => DeliveredOnProof
  BY DEF PayInv
<1> QED BY <1>1, PayInvHolds, PTL

\* The fulfilment transaction: the date, the invoice and the credit or the grant
\* come and stay together.
THEOREM DeliveredAsAWhole == Spec => []DeliveryIsWhole
<1>1. PayInv => DeliveryIsWhole
  BY DEF PayInv
<1> QED BY <1>1, PayInvHolds, PTL

\* reverse: the invoice, the grant and the debit say that the delivery was taken
\* back exactly when a refund of the order completed.
THEOREM RefundsTakeBack == Spec => []RefundTakesBack
<1>1. PayInv => RefundTakesBack
  BY DEF PayInv
<1> QED BY <1>1, PayInvHolds, PTL

\* completeGooglePurchase: Google is told only of a purchase that was delivered.
THEOREM AcknowledgedOnceDelivered == Spec => []AcknowledgedOnlyIfDelivered
<1>1. PayInv => AcknowledgedOnlyIfDelivered
  BY DEF PayInv
<1> QED BY <1>1, PayInvHolds, PTL

\* persistWebhook: one handler at most works on an event, however often and
\* concurrently it is delivered.
THEOREM EventsAreHandledOnce == Spec => []EventHandledOnce
<1>1. PayInv => EventHandledOnce
  BY DEF PayInv
<1> QED BY <1>1, PayInvHolds, PTL

-----------------------------------------------------------------------------
\* Coins leave an account for what was bought with them or for a refund of an
\* order delivered before that step: whoever confirms, and however often.
THEOREM CoinsTakenAreOwed == Spec => DebitsAreOwed
<1> DEFINE Owed == \A m \in applied' \ applied :
             m.key[1] = "refund" => \E o \in CoinOrders :
               refund[m.key[2]].order = o /\ order[o].fulfilled /\ m.user = Owner[o]
<1>1. ASSUME PayInv, [Next]_vars PROVE [Owed]_vars
  <2>1. Happens
    BY <1>1, NextKeeps
  <2>2. CASE Calm
    BY <2>2 DEF Calm
  <2>3. ASSUME NEW o \in Orders, Sells(o) PROVE Owed
    BY <2>3 DEF Sells
  <2>4. ASSUME NEW o \in Orders, NEW r \in Refunds, Undoes(o, r) PROVE Owed
    BY <2>4 DEF Undoes
  <2>5. CASE Provides
    <3>1. applied' = applied
      BY <2>5 DEF Provides, Pay, Settle, GiveBack
    <3> QED BY <3>1
  <2> QED BY <2>1, <2>2, <2>3, <2>4, <2>5 DEF Happens
<1>2. Spec => [][Owed]_vars
  <2>1. Spec => [][Next]_vars
    BY PTL DEF Spec
  <2> QED BY <1>1, <2>1, PayInvHolds, PTL
<1> QED BY <1>2 DEF DebitsAreOwed

-----------------------------------------------------------------------------
(* The order's abstract life.                                                 *)
\* What the phase of an order depends on.
LEMMA SamePhase ==
  ASSUME NEW o \in Orders, Reversed(o)' <=> Reversed(o), Paid(o)' <=> Paid(o),
         order'[o].fulfilled <=> order[o].fulfilled
  PROVE  PhaseOf'[o] = PhaseOf[o]
BY DEF PhaseOf

LEMMA PhasesMove ==
  ASSUME NEW o \in Orders, NEW a, NEW b, PhaseOf[o] = a, PhaseOf'[o] = b,
         \A p \in Orders \ {o} : PhaseOf'[p] = PhaseOf[p]
  PROVE  PhaseOf' = [PhaseOf EXCEPT ![o] = b]
<1>1. PhaseOf = [p \in Orders |-> PhaseOf[p]] /\ PhaseOf' = [p \in Orders |-> PhaseOf'[p]]
  BY DEF PhaseOf
<1> QED BY <1>1

LEMMA PhasesStay ==
  ASSUME \A p \in Orders : PhaseOf'[p] = PhaseOf[p]
  PROVE  PhaseOf' = PhaseOf
<1>1. PhaseOf = [p \in Orders |-> PhaseOf[p]] /\ PhaseOf' = [p \in Orders |-> PhaseOf'[p]]
  BY DEF PhaseOf
<1> QED BY <1>1

LEMMA CalmPhases ==
  ASSUME PayInv, Calm
  PROVE  PhaseOf' = PhaseOf
<1>1. ASSUME NEW o \in Orders PROVE PhaseOf'[o] = PhaseOf[o]
  <2>1. Reversed(o)' <=> Reversed(o)
    BY DEF Calm, Reversed
  <2>2. Paid(o)' <=> Paid(o)
    BY DEF Calm, Paid, Pays
  <2> QED BY <2>1, <2>2, SamePhase DEF Calm
<1> QED BY <1>1, PhasesStay

LEMMA SellsPhases ==
  ASSUME PayInv, NEW o \in Orders, Sells(o)
  PROVE  Promise!Next
<1>1. \A p \in Orders : (Reversed(p)' <=> Reversed(p)) /\ (Paid(p)' <=> Paid(p))
  BY DEF Sells, Reversed, Paid, Pays
<1>2. ~Reversed(o)
  BY DEF Sells, Reversed, PayInv, RefundsAreSound
<1>3. PhaseOf[o] = "paid" /\ PhaseOf'[o] = "delivered"
  BY <1>1, <1>2 DEF Sells, PhaseOf
<1>4. \A p \in Orders \ {o} : PhaseOf'[p] = PhaseOf[p]
  BY <1>1, SamePhase DEF Sells
<1>5. PhaseOf' = [PhaseOf EXCEPT ![o] = "delivered"]
  BY <1>3, <1>4, PhasesMove
<1> QED BY <1>3, <1>5 DEF Promise!Next, Promise!Move

LEMMA UndoesPhases ==
  ASSUME PayInv, NEW o \in Orders, NEW r \in Refunds, Undoes(o, r)
  PROVE  Promise!Next \/ PhaseOf' = PhaseOf
<1>1. ASSUME NEW p \in Orders, p # o PROVE PhaseOf'[p] = PhaseOf[p]
  <2>1. Reversed(p)' <=> Reversed(p)
    BY <1>1 DEF Undoes, Reversed
  <2>2. Paid(p)' <=> Paid(p)
    BY DEF Undoes, Paid, Pays
  <2> QED BY <2>1, <2>2, SamePhase DEF Undoes
<1>2. Reversed(o)'
  BY DEF Undoes, Reversed
<1>3. PhaseOf'[o] = "reversed"
  BY <1>2 DEF PhaseOf
<1>4. CASE Reversed(o)
  <2>1. PhaseOf[o] = "reversed"
    BY <1>4 DEF PhaseOf
  <2> QED BY <1>1, <1>3, <2>1, PhasesStay
<1>5. CASE ~Reversed(o)
  <2>1. PhaseOf[o] = "delivered"
    BY <1>5 DEF PhaseOf, Undoes
  <2>2. PhaseOf' = [PhaseOf EXCEPT ![o] = "reversed"]
    BY <1>1, <1>3, <2>1, PhasesMove
  <2> QED BY <2>1, <2>2 DEF Promise!Next, Promise!Move
<1> QED BY <1>4, <1>5

LEMMA ProvidesPhases ==
  ASSUME PayInv, Provides
  PROVE  Promise!Next \/ PhaseOf' = PhaseOf
<1>1. UNCHANGED <<order, refund>>
  BY DEF Provides, Pay, Settle, GiveBack
<1>2. \A p \in Orders : (Reversed(p)' <=> Reversed(p)) /\ order'[p].fulfilled = order[p].fulfilled
  BY <1>1 DEF Reversed
<1>3. PICK t \in Txns : (\E o \in Orders : Pay(t, o)) \/ Settle(t) \/ GiveBack(t)
  BY DEF Provides
<1>4. remote \in [Txns -> Remote] /\ remote[t] \in Remote
  BY DEF PayInv, TypeOK
<1>5. ASSUME \A p \in Orders, s \in Txns : Pays(s, p)' <=> Pays(s, p)
      PROVE  PhaseOf' = PhaseOf
  <2>1. \A p \in Orders : Paid(p)' <=> Paid(p)
    BY <1>5 DEF Paid
  <2> QED BY <1>2, <2>1, SamePhase, PhasesStay
<1>6. CASE \E o \in Orders : Pay(t, o)
  <2>1. PICK o \in Orders, exact \in BOOLEAN :
          remote[t].status = "NONE" /\ remote' = [remote EXCEPT ![t] = [order |-> o, status |-> "PENDING", exact |-> exact]]
    BY <1>6 DEF Pay
  <2>2. remote'[t].status = "PENDING" /\ \A s \in Txns : s # t => remote'[s] = remote[s]
    BY <1>4, <2>1
  <2>3. \A p \in Orders, s \in Txns : Pays(s, p)' <=> Pays(s, p)
    BY <2>1, <2>2 DEF Pays
  <2> QED BY <1>5, <2>3
<1>7. CASE GiveBack(t)
  <2>1. remote[t].status = "SUCCESS" /\ remote'[t].status = "REFUNDED" /\ remote'[t].order = remote[t].order
        /\ remote'[t].exact = remote[t].exact /\ \A s \in Txns : s # t => remote'[s] = remote[s]
    BY <1>4, <1>7 DEF GiveBack, Remote
  <2>2. \A p \in Orders, s \in Txns : Pays(s, p)' <=> Pays(s, p)
    BY <2>1 DEF Pays
  <2> QED BY <1>5, <2>2
<1>8. CASE Settle(t)
  <2>0. PICK o \in Orders : remote[t].order = o
    BY <1>8 DEF Settle, PayInv, RemoteIsSound
  <2>1. remote[t].status = "PENDING" /\ remote'[t].order = o
        /\ remote'[t].exact = remote[t].exact /\ \A s \in Txns : s # t => remote'[s] = remote[s]
    BY <1>4, <1>8, <2>0 DEF Settle, Remote
  <2>2. \A p \in Orders \ {o} : Paid(p)' <=> Paid(p)
    BY <2>0, <2>1 DEF Paid, Pays
  <2>3. \A p \in Orders \ {o} : PhaseOf'[p] = PhaseOf[p]
    BY <1>2, <2>2, SamePhase
  <2>4. Paid(o) => Paid(o)'
    BY <2>0, <2>1 DEF Paid, Pays
  <2>5. CASE PhaseOf'[o] = PhaseOf[o]
    BY <2>3, <2>5, PhasesStay
  <2>6. CASE PhaseOf'[o] # PhaseOf[o]
    <3>1. PhaseOf[o] = "unpaid" /\ PhaseOf'[o] = "paid"
      <4>1. (Reversed(o)' <=> Reversed(o)) /\ order'[o].fulfilled = order[o].fulfilled
        BY <1>2
      <4>2. PhaseOf[o] = IF Reversed(o) THEN "reversed" ELSE IF order[o].fulfilled THEN "delivered"
                         ELSE IF Paid(o) THEN "paid" ELSE "unpaid"
        BY DEF PhaseOf
      <4>3. PhaseOf'[o] = IF Reversed(o)' THEN "reversed" ELSE IF order'[o].fulfilled THEN "delivered"
                          ELSE IF Paid(o)' THEN "paid" ELSE "unpaid"
        BY DEF PhaseOf
      <4> QED BY <2>4, <2>6, <4>1, <4>2, <4>3
    <3>2. PhaseOf' = [PhaseOf EXCEPT ![o] = "paid"]
      BY <2>1, <2>3, <3>1, PhasesMove
    <3> QED BY <2>1, <3>1, <3>2 DEF Promise!Next, Promise!Move
  <2> QED BY <2>5, <2>6
<1> QED BY <1>3, <1>6, <1>7, <1>8

\* Orders, webhooks and refunds together keep the promise of PaidDelivery: paid,
\* then delivered once, then taken back at most once.
THEOREM PaymentsKeepThePromise == Spec => ImplementsPaidDelivery
<1>1. PaymentsInit => Promise!Init
  <2> SUFFICES ASSUME PaymentsInit PROVE PhaseOf = [o \in Orders |-> "unpaid"]
    BY DEF Promise!Init
  <2>1. \A o \in Orders : ~Reversed(o) /\ ~order[o].fulfilled /\ ~Paid(o)
    BY DEF PaymentsInit, Init, RefundInit, Reversed, Paid, Pays
  <2> QED BY <2>1 DEF PhaseOf
<1>2. PayInv /\ [Next]_vars => [Promise!Next]_PhaseOf
  <2> SUFFICES ASSUME PayInv, [Next]_vars PROVE Promise!Next \/ PhaseOf' = PhaseOf
    OBVIOUS
  <2>1. Happens
    BY NextKeeps
  <2> QED BY <2>1, CalmPhases, SellsPhases, UndoesPhases, ProvidesPhases DEF Happens
<1> QED BY <1>1, <1>2, PayInvHolds, PTL DEF Spec, ImplementsPaidDelivery, Promise!Spec
=============================================================================
