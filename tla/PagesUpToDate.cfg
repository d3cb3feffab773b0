SPECIFICATION Spec
CONSTANTS
  Plugs = {1}
  Clients = {"page"}
  ChanCap = 2
  MaxUpdates = 2
  None = None
\* After Close the program ends.
CHECK_DEADLOCK FALSE
INVARIANTS
  PagesUpToDate
