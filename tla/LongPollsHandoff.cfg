SPECIFICATION PollsSpec
CONSTANTS
  Channels = {"inbox", "status"}
  Senders = {"orch", "w1"}
  Consumers = {"w1"}
  TaskIds = {"t1"}
  Payloads <- HandoffPayloads
  Telemetry = {}
  Exempt = {}
  SignalTypes = {"task"}
  MaxId = 4
  Limits = {1, 2}
  Sinces = {0}
  Filters = {"task"}
  NoFilter = "none"
  Polls = {"p1"}
PROPERTY HandoffTaskSeenAgain
CHECK_DEADLOCK FALSE
