SPECIFICATION MCSpec
CONSTANTS
  HostOptions = {"BINARY", "EOR", "ECHO", "NEW_ENVIRON", "OTHER"}
  Willing = {"BINARY", "NEW_ENVIRON", "OTHER"}
  Acks = {TRUE, FALSE}
  MaxOffers = 2
  MaxWithdrawals = 1
  KeepAlive = TRUE
  MaxAttempts = 2
  MaxData = 2
  MaxCalls = 3
INVARIANTS
  DeviceNameOfferedOnce
PROPERTIES
  StreamIntact
  AttemptsResolve
  KeepsLifecycle
  OptionsConverge
  CallsAnswered
CHECK_DEADLOCK FALSE
