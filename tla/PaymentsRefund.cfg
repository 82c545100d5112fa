SPECIFICATION Spec
CONSTANTS
  web1 = web1
  web2 = web2
  play = play
  apple = apple
  user = user
  None = None
  Orders = {apple, web1}
  CoinOrders = {apple}
  IdentityOrders = {}
  Txns = {t1}
  Workers = {h1}
  Events = {e1}
  Refunds = {r1, r2}
  Spendings = {s1, s2}
  Staff = {d1, d2}
  Users = {user}
  Owner <- MCOwner
  Provider <- MCProvider
  Opening <- MCSavings
  Quantity = 1
  MaxBalance = 2
SYMMETRY MCSymmetry
INVARIANTS RefundTakesBack
PROPERTIES DebitsAreOwed
CHECK_DEADLOCK FALSE
