SPECIFICATION Spec
CONSTANTS
  MonitorTimeouts = {0, 1, 4}
  Ttls = {0, 2, 11}
  EnvTimeouts = {0, 7, 13}
  ClaudeTimeoutMax = 13
  MaxBacklog = 2
CHECK_DEADLOCK FALSE
INVARIANTS
  ToldNoMilder
  KilledOnlyIfStalled
  DecisionArrives
PROPERTIES
  ReviewFits
