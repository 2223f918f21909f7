SPECIFICATION FairSpec
CONSTANTS
  Warnings = {w1}
  BackoffCap = 4
  U64Max = 5
  MaxEpoch = 3
  MaxNow = 7
INVARIANTS
  TypeOK
  PhaseIsLatestAttempts
  ReportsAreTheAttempts
  TrustFollowsDialog
PROPERTIES
  OutageIsKeptAndRetried
  NothingHangs
CHECK_DEADLOCK FALSE
