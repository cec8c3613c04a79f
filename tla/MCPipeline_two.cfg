SPECIFICATION ServedSpec
CONSTANTS
  Requests <- MCRequests
  Events = {"e1", "e2"}
  LlmWorkers = {w1}
  Llm = "llm"
  Http = http
  Sock = sock
  None = none
  AuditCanFail = FALSE
  Rules <- MCRules
  OnError = "ask"
  EventCap = 1
  JobCap = 1
  MaxAttempts = 2
  Shapes <- MCShapes
  MaxMatches = 1
  MaxRuled = 1
  MaxLost = 1
CHECK_DEADLOCK FALSE
INVARIANTS
  PipelineInv
  NoAllowUnreviewed
PROPERTIES
  EndsWithoutReaper
  StopEnds
