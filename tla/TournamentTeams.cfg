SPECIFICATION FairSpec
CONSTANTS
  Captains = {1, 2}
  Owner = owner
  Endings = {"COMPLETED", "ABANDONED", "EXPIRED", "CANCELLED"}
  MaxGone = 3
  MaxEntrants = 2
  TeamSizes = {1, 2}
PROPERTIES GamesLiveOnce 
CHECK_DEADLOCK FALSE
