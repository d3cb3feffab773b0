SPECIFICATION Spec
CONSTANTS
  Unset = Unset
  Empty = Empty
  Malformed = Malformed
  Texts <- MCTexts
  DefaultName = "tasmota-homekit"
  Environments <- MCEnvironments
  PlugFiles <- MCPlugFiles
  Callbacks = {}
  MaxCommands = 0
  MaxWaiting = 6
  Components = {"mqtt", "web"}
  None = None
INVARIANTS
  ServingIsShown
