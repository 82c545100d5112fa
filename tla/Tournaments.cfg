SPECIFICATION Spec
CONSTANTS
  Captains = {1, 2, 3, 4}
  Owner = owner
  Endings = {"COMPLETED"}
  MaxGone = 1
  MaxEntrants = 4
  TeamSizes = {1}
INVARIANTS  OneOpenMatch InTheRunning LiveGameIsOfMatch
 
CHECK_DEADLOCK FALSE
