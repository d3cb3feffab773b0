SPECIFICATION FairSpec
CONSTANTS
  Plugs = {"p1"}
  Readings = {}
  Values = {0, 2}
  Eps = 1
  Subscribers = {"hap", "web"}
  Hap = "hap"
  Web = "web"
  HomeKitPlugs = {"p1"}
  Writers = {"w1"}
  None = None
  Worker = "worker"
  Requests = {"request"}
  ForeignIDs = {}
  Periodic = {"STATE"}
  ReplyFormats = {"StatusSTS"}
  Load <- MCLoad
  CommandCap = 1
  LossyMQTT = TRUE
  DistinctTimes = TRUE
  MaxInputs = 2
  MaxEvents = 1
  MaxQueue = 1
INVARIANTS
  BridgeTypeOK
  InterfacesFollow
  ShownOnWasReal
PROPERTIES
  Converges
  CommandsAreServed
