SPECIFICATION Spec
CONSTANTS
  None = None
  Pids = {p1, p2, p3}
INVARIANTS
  RunningOwnsLock
PROPERTIES
  NoEviction
  StartsEnd
