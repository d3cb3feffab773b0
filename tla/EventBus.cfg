SPECIFICATION MCSpec
CONSTANTS
  Plugs = {"p1", "p2"}
  Readings = {"Power"}
  Values = {0, 1, 2}
  Eps = 2
  Subscribers = {"hap", "web"}
  None = None
  MaxLog = 3
INVARIANTS
  BusTypeOK
  DrainedViewIsLast
  SkippedIsNear
PROPERTIES
  ReadsTheLog
  ReadsAllOfTheLog
