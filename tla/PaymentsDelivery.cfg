SPECIFICATION Spec
CONSTANTS
  web1 = web1
  web2 = web2
  play = play
  apple = apple
  user = user
  None = None
  Orders = {web1, play}
  CoinOrders = {play}
  IdentityOrders = {play}
  Txns = {t1}
  Workers = {h1, h2}
  Events = {e1}
  Refunds = {}
  Spendings = {}
  Staff = {}
  Users = {user}
  Owner <- MCOwner
  Provider <- MCProvider
  Opening <- MCOpening
  Quantity = 1
  MaxBalance = 2
SYMMETRY MCSymmetry
INVARIANTS DeliveredOnProof DeliveryIsWhole AcknowledgedOnlyIfDelivered EventHandledOnce
PROPERTIES ImplementsPaidDelivery
CHECK_DEADLOCK FALSE
