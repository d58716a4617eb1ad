CONSTANTS
  MaxMessages = 2
  MaxCalls = 2
  MaxClears = 1
  MaxChanges = 1
  Tabs = {t1, t2}
  MaxSignOnGrants = 3
  MaxConnections = 2
  MaxSignOns = 2
  Rows = 2
  Cols = 4
  HostScreens <- MCScreens
  SearchTexts <- MCSearch
  MaxInt = 5
  UserNames <- MCUsers
  SavedUsers <- MCSaved
  MaxOuter = 1
  Contents = {"new"}
SPECIFICATION MCSpec
INVARIANTS
  PasswordStaysHidden
CHECK_DEADLOCK FALSE
