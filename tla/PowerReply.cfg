SPECIFICATION Spec
CONSTANTS
  Plugs = {"plug"}
  Readings <- MCReadings
  Values <- MCValues
  Eps = 1
  Formats = {"RESULT", "STATE", "SENSOR", "STATUS10", "STATUS11", "TELEMETRY", "LWT"}
  ReplyFormats = {"StatusSTS", "Status", "fallback", "POWER", "error"}
INVARIANTS
  PowerIsLastReported
