SPECIFICATION AdoptionSpec
CONSTANTS
  Channels = {"inbox", "tele"}
  Senders = {"orch","w1","w2"}
  Consumers = {"w1","w2"}
  TaskIds = {"t1"}
  Payloads <- FleetPayloads
  Telemetry = {"tele"}
  Exempt = {}
  SignalTypes = {"task"}
  MaxId = 2
  Limits = {1,2}
  Sinces = {0,1}
  Filters = {"task"}
  NoFilter = "none"
  Entries = {"core"}
  LegacyKey <- OldName
  AdoptedKey <- NewName
  OwnChannels = {"inbox"}
INVARIANTS TypeOK NoSilentSkip NothingShownTwice
PROPERTY HandoffMakesTaskDue
CHECK_DEADLOCK FALSE
