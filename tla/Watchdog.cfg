SPECIFICATION Spec
CONSTANTS
  Tasks = {"t1", "t2"}
  Outcomes = {"clean", "crash", "timeout", "rotated", "netdown", "limited"}
  Faults = {"peers", "flaky", "busy"}
  NO_OUTPUT_MAX = 2
  FOLLOWUP_MAX = 2
  MaxInbox = 3
INVARIANTS TypeOK RelaunchSeesWork IdleOnlyAfterGivingUp SpendBounded
CHECK_DEADLOCK FALSE
