SPECIFICATION SlotsSpec
CONSTANTS
  Watchdogs = {1,2,3,4}
  MAX_CONCURRENT = 2
  MaxDeaths = 2
INVARIANTS SlotsTypeOK SlotIsMine
PROPERTY DeadFleetRecovers
CHECK_DEADLOCK FALSE
