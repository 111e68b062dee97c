SPECIFICATION SaveSpec
CONSTANTS
  Values = {v1, v2}
  Chains = {c1, c2, c3}
  NoChain = NoChain
SYMMETRY Symmetry
INVARIANTS FailureLeavesACopy
