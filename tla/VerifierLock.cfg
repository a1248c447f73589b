SPECIFICATION LockSpec
CONSTANTS
  Starters = {"a", "b", "c"}
  Others = {"x"}
INVARIANT OneVerifier
CHECK_DEADLOCK FALSE
