SPECIFICATION Spec
CONSTANTS
  None = None
  Main = main
  Watcher = watcher
  Registrants = {r1}
  Machines = {m1, m2}
  Tokens = {t1, t2, t3, t4}
  MaxEvents = 3
INVARIANTS
  RecoverableIfClean
  OneEndpointIfClean
PROPERTIES
  Recovers
CHECK_DEADLOCK FALSE
