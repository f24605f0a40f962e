SPECIFICATION Spec
CONSTANTS
  Processes = {p1, p2}
  None = None
INVARIANTS ServesWholeSchema VersionTellsTruth FailsOnlyIfBroken
PROPERTIES NoTableLost RevisedOnce
CHECK_DEADLOCK FALSE
