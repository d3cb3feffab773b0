SPECIFICATION ManagerSpec
CONSTANTS
  Plugs = {"p1"}
  Readings = {"Power"}
  Values = {0, 2}
  Eps = 1
  Subscribers = {}
  None = None
  Worker = "worker"
  Requests = {"web1","web2"}
  ForeignIDs = {}
  Periodic = {"STATE", "SENSOR"}
  ReplyFormats = {"StatusSTS"}
  Load <- MCLoad
  CommandCap = 1
  LossyMQTT = FALSE
  DistinctTimes = TRUE
  MaxInputs = 3
  MaxEvents = 2
INVARIANTS
  BusInSync
