SPECIFICATION FairSpec
CONSTANTS
  Warnings = {}
  BackoffCap = 3
  U64Max = 3
  Workspaces = {w1}
  Ports = {p1}
  Events = {e1}
  MaxEpoch = 4
  MaxAttempts = 2
  Patient = TRUE
INVARIANTS
  DrainedIsDelivered
  HooksReachApp
  NothingLeaks
PROPERTIES
  QueueIsCollected
  KeptThenForgotten
CHECK_DEADLOCK FALSE
