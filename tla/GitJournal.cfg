SPECIFICATION FairSpec
CONSTANTS
  Cap = 2
  MaxJobs = 3
  MaxHead = 2
  Careful = TRUE
INVARIANTS
  HistoryIsKept
  JournalTellsHead
PROPERTIES
  UndoTakesBackOne
  StoppedIsSettled
CHECK_DEADLOCK FALSE
