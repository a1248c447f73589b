SPECIFICATION QuestionsSpec
CONSTANTS
  Tasks = {t1, t2}
  Workers = {"w1"}
  Orchestrators = {"orch"}
  Reviewers = {}
  Authors = {"w1"}
  Dispatchers = {"orch", "w1"}
  Deciders = {"orch", "w1"}
  Values = {"medium", "exempt", "approve", "amend", "reject", "waive", "PASS", "handoff"}
  SignalTypes = {"task", "result", "question"}
  Losses = {"delete", "purge", "prune"}
  SignalCuts = {0, 1, 2}
  MaxId = 4
  Askers = {"w1"}
  Replies = {"answer"}
INVARIANTS TypeOK OneRule ReviewQueueComplete HistoryNotRewritten
PROPERTIES RejectStands AnswersStand
CHECK_DEADLOCK FALSE
SYMMETRY TaskSymmetry
