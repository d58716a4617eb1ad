CONSTANTS
  Configs <- MCConfigs
  MaxClients = 2
  MaxData = 1
  MaxStops = 1
  Scripts <- MCScripts
  PcSessions = {1, 2}
  Handlers <- MCHandlers
  MaxCommands = 3
  ScriptPaths = {"p", "q"}
  ScriptTexts = {"new", "a"}
  Template = "new"
  MaxOpened = 2
  MaxTyped = 1
  MaxOutside = 2
SPECIFICATION MCSpec
INVARIANTS
  ViewCatchesUp
  WiredOnce
  EachAsAllowed
  StaysWatched
PROPERTIES
  DisconnectShows
  NothingLostUnasked
CHECK_DEADLOCK FALSE
