SPECIFICATION ManagerSpec
CONSTANTS
  Plugs = {"p1"}
  Readings = {"Power"}
  Values = {0, 2}
  Eps = 1
  Subscribers = {}
  None = None
  Worker = "worker"
  Requests = {"web1"}
  ForeignIDs = {}
  Periodic = {"STATE"}
  ReplyFormats = {"StatusSTS"}
  Load <- MCLoad
  CommandCap = 1
  LossyMQTT = FALSE
  DistinctTimes = TRUE
  MaxInputs = 2
  MaxEvents = 2
INVARIANTS
  ManagerInSync
