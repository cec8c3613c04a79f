SPECIFICATION Spec
CONSTANTS
  MaxRecords = 3
  Limit = 2
  Polls = {q1, q2}
SYMMETRY Symmetry
CHECK_DEADLOCK FALSE
INVARIANTS
  TailInv
  PageShowsOnce
