----------------------------- MODULE MCPayments -----------------------------
(* Small instances of the payment system: which orders exist, at which       *)
(* provider, and how many handlers, events and refunds may meet.             *)
EXTENDS Payments, TLC

CONSTANTS web1, web2, play, apple, user

MCProviders == (web1 :> "FLUTTERWAVE") @@ (web2 :> "FLUTTERWAVE")
                 @@ (play :> "GOOGLE_PLAY") @@ (apple :> "APPLE_APP_STORE")
MCProvider == [o \in Orders |-> MCProviders[o]]
MCOwner == [o \in Orders |-> user]
MCOpening == (user :> 0)
MCSavings == (user :> 1)
MCSymmetry == Permutations(Workers) \cup Permutations(Txns) \cup Permutations(Events)
                \cup Permutations(Refunds) \cup Permutations(Staff)
=============================================================================
