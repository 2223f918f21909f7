SPECIFICATION Spec
CONSTANTS
  Cap = 2
  MaxJobs = 2
  MaxHead = 2
  Careful = FALSE
INVARIANTS
  HistoryIsKept
CHECK_DEADLOCK FALSE
