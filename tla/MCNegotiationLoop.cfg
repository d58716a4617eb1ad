SPECIFICATION MCSpec
CONSTANTS
  HostOptions = {"BINARY", "EOR", "TERMINAL_TYPE", "OTHER"}
  Willing = {"BINARY", "TERMINAL_TYPE", "OTHER"}
  Acks = {FALSE}
  MaxOffers = 0
  MaxWithdrawals = 1
  KeepAlive = TRUE
  MaxAttempts = 1
  MaxData = 0
  MaxCalls = 0
PROPERTY
  AcknowledgementLoopsEnd
CHECK_DEADLOCK FALSE
