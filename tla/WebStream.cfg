SPECIFICATION FairSpec
CONSTANTS
  Plugs = {1, 2}
  Clients = {"page1", "page2"}
  ChanCap = 1
  MaxUpdates = 3
  None = None
\* After Close the program ends.
CHECK_DEADLOCK FALSE
INVARIANTS
  WebTypeOK
  StreamCatchesUp
  RegisteredAreOpen
  OnlyCloseInterrupts
PROPERTIES
  ServerNeverWaits
