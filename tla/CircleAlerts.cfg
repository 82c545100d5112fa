SPECIFICATION FairSpec
CONSTANTS
  Alerts = {a1, a2}
  Mandatory = {}
  Handlers = {h1, h2}
  None = None
  Drift = FALSE
 
PROPERTIES  LeaseIsKept  DueIsSettled
CHECK_DEADLOCK FALSE
