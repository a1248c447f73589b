SPECIFICATION Spec
CONSTANTS
  build = build
  ship = ship
  Tasks <- ChainTasks
  Reviews = {r1, r2}
  Deps <- ChainDeps
  MaxId = 4
  MaxCrashes = 1
  MaxFaults = 1
SYMMETRY ReviewSymmetry
INVARIANTS LoopTypeOK ReleasedOnce DependenciesFirst HeldNotForgotten OneReviewOut ReviewCoversAll WakeKept
CHECK_DEADLOCK FALSE
