SPECIFICATION CloseSpec
CONSTANTS
  Workers = {a, b}
  MaxWork = 2
  MaxRuns = 3
  MaxFaults = 2
SYMMETRY WorkerSymmetry
INVARIANTS CloseTypeOK NoWorkLost HandedOverUnlessBehind
CHECK_DEADLOCK FALSE
