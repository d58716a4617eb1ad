CONSTANTS
  SmallRows = 1
  LargeRows = 2
  FieldLen = 1
  Modes <- MCModes
  MaxOrders = 2
  Pastes <- MCPastes
SPECIFICATION McpSpec
INVARIANTS
  LockRulesAgree
  OneAidPerRelease
PROPERTIES
  RecordDecidesKeyboard
  ResetUndoesError
