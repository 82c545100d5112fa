SPECIFICATION Spec
CONSTANTS
  None = None
  alice = alice
  Users = {alice, bob, carol}
  Leavers = {}
  Calls = {c1, c2}
  Keys = {k1}
  Handlers = {h1, h2}
  Shared <- MCShared
  MaxCalls = 1
  Attempts = 1
SYMMETRY MCSymmetry
INVARIANTS OneLiveCallPerParticipant KeyRingsOnce
CHECK_DEADLOCK FALSE
