---------------------------- MODULE PaidDelivery ----------------------------
(***************************************************************************)
(* What the payment system promises for an order, whatever the number of    *)
(* notifications, retries and refund requests: nothing is delivered before  *)
(* the provider confirmed a payment of exactly that order, an order is       *)
(* delivered once, and only a delivered order is taken back.                *)
(***************************************************************************)
CONSTANT Orders

VARIABLE phase

Phases == {"unpaid", "paid", "delivered", "reversed"}

Init == phase = [o \in Orders |-> "unpaid"]

Move(o, from, to) == phase[o] = from /\ phase' = [phase EXCEPT ![o] = to]

Next ==
  \E o \in Orders :
    Move(o, "unpaid", "paid") \/ Move(o, "paid", "delivered") \/ Move(o, "delivered", "reversed")

Spec == Init /\ [][Next]_phase
=============================================================================
