CONSTANTS
  TabHosts = {"as400"}
  WantedNames <- MCWantedNames
  StemLength = 1
  MaxSuffix = 2
  MaxOpens = 3
  MaxDialogs = 1
  MaxToggles = 1
  BuiltinWords = {"green"}
  DefaultWord = "green"
  CustomWord <- MCCustomWord
  GivenWords = {"green"}
  Searches = {{}, {"green"}}
  Colours = {"green", "red"}
  ThemeTabs = {1}
  MaxThemeWrites = 2
  ProfileNames = {"a b", "a_b"}
  LegacyPaths = {"a_b.json"}
  LegacyPath <- MCLegacyPath
  MaxChanges = 2
  MaxWrites = 3
  MaxConnectDialogs = 1
  MaxTabs = 2
  Configs <- MCConfigs
  MaxClients = 5
  MaxData = 3
  MaxStops = 2
SPECIFICATION MCSpec
INVARIANTS
  TabsStayApart
  StoppedIsQuiet
  ClientOrTimer
PROPERTIES
  ThemesKept
  ProfilesKept
  KeepsPromise
CHECK_DEADLOCK FALSE
