SPECIFICATION SettingsSpec
CONSTANTS
  Sections <- MCSections
  KeyNames <- MCNames
  Known <- MCKnown
  Long = "long"
  Cut = "cut"
  Texts = {"1", "2"}
  KEYS_MAX = 2
  MaxLines = 4
INVARIANT KeepsUnknownKeys
