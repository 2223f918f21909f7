SPECIFICATION FairSpec
CONSTANTS
  Events = {e1, e2}
  Writers = {w1, w2}
  Drainers = {d1, d2}
  Nobody = Nobody
  Files = {f1, f2, f3}
  NoFile = NoFile
  MaxCrashes = 1
INVARIANTS
  LinesAreConserved
PROPERTIES
  ImplementsFifo
  EventsComeOut
CHECK_DEADLOCK FALSE
