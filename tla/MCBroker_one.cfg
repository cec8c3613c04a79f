SPECIFICATION Spec
CONSTANTS
  Requests = {r1}
  Events = {e1, e2}
  LlmWorkers = {w1}
  Llm = llm
  Http = http
  Sock = sock
  None = none
  AuditCanFail = FALSE
CHECK_DEADLOCK FALSE
SYMMETRY Symmetry
INVARIANTS
  TypeOK
  AnsweredOnce
  LenientAnswerIsComplete
  ParkedOrCompleted
  TrailIsTrue
