SPECIFICATION MenuSpec
CONSTANTS
  Cards = {c1, c2}
  NoCard = NoCard
  ClickTime = 1
  OffTime = 2
  AutobootTime = 2
  ROW_H = 4
  SEC_H = 3
  PAD_H = 1
  MAIN_H = 14
  VIEW_H = 13
  ITEMS_MAX = 5
  TIMEOUT_MAX = 99
  BRIGHT_MIN = 10
  BRIGHT_MAX = 100
  BRIGHT_STEP = 10
  Cards_ <- MCCards
  MaxKeys = 11
  Values = {v1, v2}
  Chains = {k1, k2, k3}
  NoChain = NoChain
  Sections <- MCSections
  KeyNames <- MCNames
  Known <- MCKnown
  Long = "long"
  Cut = "cut"
  Texts = {"1", "2"}
  KEYS_MAX = 2
  MaxLines = 4
INVARIANTS AutobootQuiet FreshUnlessBlind ScreenIsTrue FocusIsVisible
           SaveIsAtomic SuccessReplaces SettingsSurvive
PROPERTIES AutobootHappens HoldEnds SaveImplementsFile
