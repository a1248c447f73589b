SPECIFICATION Spec
CONSTANTS
  Tasks = {"t1"}
  Workers = {"w1"}
  Kinds = {"checked", "result", "note"}
  PoolLimit = 1
  MaxId = 3
  MaxFaults = 1
  MaxSwitches = 1
INVARIANTS TypeOK NoResultPassedOver VerifiedOnce
PROPERTY EveryResultVerified
CHECK_DEADLOCK FALSE
