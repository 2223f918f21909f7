SPECIFICATION FairSpec
CONSTANTS
  Files = {f1, f2, f3}
  NoFile = NoFile
  MaxChanges = 3
  Quiet = TRUE
  Roots = {l1}
  Folder = l2
  Inside = l1
  Hosted = {h1}
  Repos = {r1}
  Remotes = {m1}
  None = None
  MaxIds = 3
  Restores = TRUE
  MaxPanes = 4
  MaxDepth = 3
  MaxHooks = 1
  StaleAfter = 2
  Cap = 2
  MaxNow = 2
  MaxReports = 2
  MaxRows = 3
  Ids = {w1, w2}
  MaxEpoch = 3
  MaxPorts = 1
  MaxOut = 2
  Patient = TRUE
  MaxOsc = 2
  MaxReads = 5
INVARIANTS
  SavedIsWhole
  SidebarIsSound
  TabsAreSound
  HostIsFollowed
  ForwardsAreListed
  ReportsTheStream
PROPERTIES
  ChangesReachDisk
  OnlyClosingCloses
  UserIsTold
CHECK_DEADLOCK FALSE
