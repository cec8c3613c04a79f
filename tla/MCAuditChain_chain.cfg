SPECIFICATION Spec
CONSTANTS
  MaxAppends = 5
  MaxOpens = 4
  WritesFail = TRUE
  CrashCuts = {"head", "rest"}
CHECK_DEADLOCK FALSE
INVARIANTS
  ChainInv
  SealedStays
