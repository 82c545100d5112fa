SPECIFICATION Spec
CONSTANTS
  alice = alice
  bob = bob
  nobody = nobody
  k1 = k1
  k2 = k2
  c1 = c1
  c2 = c2
  Users = {alice, bob}
  Strangers = {nobody}
  Keys = {k1, k2}
  Amounts <- MCAmounts
  Callers = {c1, c2}
  Opening <- MCOpening
  MaxAmount = 3
  MaxBalance = 2
  Attempts = 2
SYMMETRY Symmetric
INVARIANTS CounterInStep ChainUnbroken KeyTakesEffectOnce AnswersAreTrue
PROPERTIES ImplementsAtomicLedger
CHECK_DEADLOCK FALSE
