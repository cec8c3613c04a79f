SPECIFICATION TimedSpec
CONSTANTS
  Requests = {r1}
  Events = {e1, e2}
  LlmWorkers = {w1}
  Llm = llm
  Http = http
  Sock = sock
  None = none
  AuditCanFail = TRUE
CHECK_DEADLOCK FALSE
INVARIANTS
  AnswerAsStrictAsSignals
  SignoffKeepsAskFromAgent
  IInv
PROPERTIES
  ImplementsGate
  ReaperEndsAll
  CompletesOnLastSignal
