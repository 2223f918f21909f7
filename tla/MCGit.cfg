SPECIFICATION Spec
CONSTANTS
  First = 1
  Batch = 1
  MaxCommits = 3
  MaxGen = 3
  MaxReading = 4
  Careful = {"load", "twice", "poll", "page"}
  MaxDrawn = 4
  MaxParents = 3
  Colors = 3
  x = x
  y = y
  Texts = {x}
  MaxLines = 3
  MaxEdits = 1
  MaxClicks = 1
  Context = 1
  Absent = Absent
  Fresh = TRUE
  Originals = 3
  MaxMade = 1
  MaxRuns = 2
  Actions = {"pick", "reword", "edit", "squash", "fixup", "drop"}
  Later = {"edit"}
  Calm = TRUE
  MaxJobs = 4
  Patience = {"answer", "request"}
INVARIANTS
  LinesLeadToParents
  OnlyWhatWasPicked
  RebaseIsThePlan
  RunsAreTracked
  PushesAreAsked
  EndedIsReported
PROPERTIES
  PaneIsCurrent
CHECK_DEADLOCK FALSE
