SPECIFICATION DisplaySpec
CONSTANTS
  Characters <- MCCharacters
  Screens <- MCScreens
  ErrorText <- MCError
  RuleLists <- MCRules
  Pointed <- MCPointed
  MaxDepth = 2
  Plain <- MCPlain
  Streams <- MCStreams
  Records <- MCRecords
  Unescaped <- MCUnescaped
  MaxStream = 4
  MaxRecord = 2
  Items <- MCItems
  MaxItems = 2
  MaxPending = 4
  MaxFillEdges = 3
  Width = 5
  Height = 5
  Shapes <- MCShapes
  HostStreams <- MCHostStreams
  Cuts = {0, 3, 8, 14}
  HostIsn = {26}
  SeqModulus = 32
  OtherFrames <- MCOtherFrames
  MaxFrames = 4
PROPERTIES
  RulesSpareHidden
CHECK_DEADLOCK FALSE
