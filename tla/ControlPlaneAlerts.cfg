SPECIFICATION Spec
CONSTANTS
  None = None
  Tripwires = {t1}
  Endpoints = {e1, e2}
  Deployments = {d1}
  Alerts = {a1}
  Machines = {m1}
  Requests = {r1, r2}
  Ops <- AlertOps
  Lifetimes <- AnyLifetime
SYMMETRY Symmetry
INVARIANTS
  KillOnlyWhenAsked
  UndeliveredOnlyIfRemoved
PROPERTIES
  FailedStaysFailed
  ImplementsRegistry
