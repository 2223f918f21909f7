SPECIFICATION Spec
CONSTANTS
  Ids = {w1, w2}
  MaxEpoch = 3
  MaxOut = 2
  MaxPorts = 1
  Patient = FALSE
INVARIANT
  DisconnectCloses
CHECK_DEADLOCK FALSE
