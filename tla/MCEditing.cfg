CONSTANTS
  Rows = 2
  Cols = 5
  Formats <- MCFormats
  Keys = {"1", "j"}
  MaxEdits = 2
  MaxRecords = 2
  Chords <- MCChords
  Shadowed <- MCShadowed
  Files <- MCFiles
  Earlier <- MCEarlier
  MaxUses = 2
SPECIFICATION MCSpec
INVARIANTS
  FieldsDisjoint
  RestoreKeepsText
  KeysDoAsShown
PROPERTIES
  TypedReachesHost
CHECK_DEADLOCK FALSE
