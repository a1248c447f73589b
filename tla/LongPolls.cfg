SPECIFICATION PollsSpec
CONSTANTS
  Channels = {"ctl"}
  Senders = {"orch", "w1"}
  Consumers = {"w1"}
  TaskIds = {"t1"}
  Payloads <- SharedChannelPayloads
  Telemetry = {}
  Exempt = {}
  SignalTypes = {"task"}
  MaxId = 3
  Limits = {2}
  Sinces = {0, 1}
  Filters = {"task"}
  NoFilter = "none"
  Polls = {p1, p2}
INVARIANTS PollsTypeOK NoMissedWake
CHECK_DEADLOCK FALSE
SYMMETRY PollSymmetry
