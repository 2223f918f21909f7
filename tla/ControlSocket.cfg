SPECIFICATION FairSpec
CONSTANTS
  Apps = {a1, a2}
  NoApp = NoApp
  Inodes = {i1, i2, i3}
  NoFile = NoFile
  LocksFail = FALSE
INVARIANTS
  WinnersAreReached
PROPERTIES
  SocketsAreNotStolen
  ImplementsSingleInstance
  CallsEnd
