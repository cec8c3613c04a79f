SPECIFICATION Spec
CONSTANTS
  patch = patch
  Calls <- MCCalls
  AlertSeqs <- MCAlertSeqs
  MaxBytes = 2
  Keep = 2
  TailLines = 2
  PipeCap = 3
  MaxLines = 7
  MaxFaults = 1
CHECK_DEADLOCK FALSE
INVARIANTS
  LogInv
  ShownAsRaised
PROPERTIES
  PipeDrained
