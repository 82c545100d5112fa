SPECIFICATION FairSpec
CONSTANTS
  None = None
  alice = alice
  Users = {alice, bob}
  Leavers = {alice}
  Calls = {c1}
  Keys = {k1}
  Handlers = {h1, h2}
  Shared <- MCShared
  MaxCalls = 1
  Attempts = 2
INVARIANTS HistoryTellsLife MissedIsToldOnce
PROPERTIES ImplementsCallLifecycle RingingEnds
CHECK_DEADLOCK FALSE
