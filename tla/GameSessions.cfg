SPECIFICATION FairSpec
CONSTANTS
  Nobody = Nobody
  Rounds = 2
  MaxValue = 2
  Keys = {k1, k2}
  Workers = {w1}
  MaxInFlight = 1
INVARIANTS SeedStaysHidden PlayedOutHasReplay JournalReplays
PROPERTIES DueGameEnds ImplementsGameLifecycle
CHECK_DEADLOCK FALSE
