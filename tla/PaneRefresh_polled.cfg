SPECIFICATION Spec
CONSTANTS First = 2 Batch = 1 MaxCommits = 3 MaxGen = 3 MaxReading = 4 Careful = {"load", "poll", "page"}
INVARIANT
  GraphIsCurrent
CHECK_DEADLOCK FALSE
