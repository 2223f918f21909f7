SPECIFICATION Spec
CONSTANTS
  MaxJobs = 4
  Careful = {"request"}
INVARIANT
  PushesAreAsked
CHECK_DEADLOCK FALSE
