SPECIFICATION Spec
CONSTANTS
  Tripwires = {t1}
  Foreign = {f1, f2}
  Requests = {r1, r2}
  Commands = {c1, c2}
  PageSize = 1
  MaxIds = 4
  MaxFaults = 2
  None = None
INVARIANTS OneEachIfUndisturbed OrphanOnlyHalfway ReportedIsInForce
PROPERTY DistributeEnds
CHECK_DEADLOCK FALSE
