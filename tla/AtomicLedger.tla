---------------------------- MODULE AtomicLedger ----------------------------
(***************************************************************************)
(* What the KnowCoins ledger promises its callers, with no database, no    *)
(* transaction and no retry in sight: a movement of a signed amount takes   *)
(* effect at most once per idempotency key, in one step, and never takes    *)
(* an account below zero or beyond the width of the balance column.         *)
(* KnowCoinLedger is shown to implement this module; PaymentOrders is        *)
(* composed with it.                                                        *)
(***************************************************************************)
EXTENDS Integers

CONSTANTS
  Users,       \* accounts
  Keys,        \* idempotency keys
  Amounts,     \* amounts of one movement
  Opening,     \* User.knowCoins of each account when the ledger is introduced
  MaxBalance   \* largest value of the balance column (int4)

VARIABLES
  balance,     \* the authoritative balance of each account
  applied      \* the movements that took effect

ledgerVars == <<balance, applied>>

Init ==
  /\ balance = Opening
  /\ applied = {}

Used(k) == \E m \in applied : m.key = k

\* A movement that is a first use of its key and that the account can bear.
Apply(u, k, a) ==
  /\ ~Used(k)
  /\ balance[u] + a \in 0..MaxBalance
  /\ balance' = [balance EXCEPT ![u] = @ + a]
  /\ applied' = applied \cup {[key |-> k, user |-> u, amount |-> a]}

Next == \E u \in Users, k \in Keys, a \in Amounts : Apply(u, k, a)

Spec == Init /\ [][Next]_ledgerVars
=============================================================================
