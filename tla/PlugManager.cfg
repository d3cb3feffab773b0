SPECIFICATION ManagerSpec
CONSTANTS
  Plugs = {"p1", "p2"}
  Readings = {}
  Values = {0, 2}
  Eps = 1
  Subscribers = {}
  None = None
  Worker = "worker"
  Requests = {"web"}
  ForeignIDs = {"other"}
  Periodic = {"STATE", "SENSOR"}
  ReplyFormats = {"StatusSTS", "fallback", "mistyped", "error"}
  Load <- MCLoad
  CommandCap = 1
  LossyMQTT = TRUE
  DistinctTimes = FALSE
  MaxInputs = 2
  MaxEvents = 1
INVARIANTS
  ManagerTypeOK
  BusFollowsManager
  PublishedOnWasReal
