SPECIFICATION Spec
CONSTANTS
  Names = {"api"}
  Faults = {"hasty", "spawn_crash", "recycle"}
  MaxPid = 4
INVARIANTS TypeOK OneWatchdog NoGhost StillInReach
CHECK_DEADLOCK FALSE
