SPECIFICATION Spec
CONSTANTS
  web1 = web1
  web2 = web2
  play = play
  apple = apple
  user = user
  None = None
  Orders = {apple}
  CoinOrders = {apple}
  IdentityOrders = {}
  Txns = {t1}
  Workers = {h1}
  Events = {e1}
  Refunds = {r1, r2}
  Spendings = {}
  Staff = {d1}
  Users = {user}
  Owner <- MCOwner
  Provider <- MCProvider
  Opening <- MCSavings
  Quantity = 1
  MaxBalance = 3
INVARIANTS OneReversalPerOrder
CHECK_DEADLOCK FALSE
