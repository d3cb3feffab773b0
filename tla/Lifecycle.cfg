SPECIFICATION FairSpec
CONSTANTS
  Unset = Unset
  Empty = Empty
  Malformed = Malformed
  Texts <- MCTexts
  DefaultName = "tasmota-homekit"
  Environments <- MCEnvironments
  PlugFiles <- MCPlugFiles
  Callbacks = {"k1"}
  MaxCommands = 1
  MaxWaiting = 1
  Components = {"mqtt", "web"}
  None = None
INVARIANTS
  LifecycleTypeOK
  ConfigurationIsSound
  MetricsFollow
  TableFollows
  CommandsAreCounted
  CrashComesLast
PROPERTIES
  ShutdownEnds
