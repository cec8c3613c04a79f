SPECIFICATION Spec
CONSTANTS
  MaxAppends = 3
  MaxOpens = 1
  WritesFail = TRUE
  CrashCuts = {}
CHECK_DEADLOCK FALSE
INVARIANTS
  Verifies
