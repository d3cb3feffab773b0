SPECIFICATION FairSpec
CONSTANTS
  Plugs = {"p1"}
  Monitor = "monitor"
  Events = "events"
  Page = "page"
  None = "none"
INVARIANTS
  MonitorTypeOK
  CallsAreUnlocked
PROPERTIES
  LockIsShared
  SilentIsReconfigured
  SilenceIsShown
