SPECIFICATION FairSpec
CONSTANTS
  Warnings = {}
  BackoffCap = 3
  U64Max = 3
  Workspaces = {w1}
  Ports = {}
  Events = {}
  MaxEpoch = 4
  MaxAttempts = 3
  Patient = FALSE
INVARIANTS
  ShownIsUnderWay
PROPERTIES
  DeathIsNoticed
CHECK_DEADLOCK FALSE
