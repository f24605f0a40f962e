SPECIFICATION Spec
CONSTANTS
  None = None
  Slots = {f1, atime}
  Pipes = {f1}
  Workers = {w1, w2, w3, w4, w5, w6, w7, w8}
  ReplantMax = 1
  MaxFaults = 3
CHECK_DEADLOCK FALSE
INVARIANTS
  StopIsComplete
  OneWorkerEach
PROPERTIES
  ServedAgain
  ExitEnds
