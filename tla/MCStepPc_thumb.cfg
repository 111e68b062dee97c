SPECIFICATION StepSpec
CONSTANTS
  W = 6
  RegValues = {0, 12}
CHECK_DEADLOCK FALSE
INVARIANTS ThumbIsUndecided
