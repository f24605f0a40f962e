SPECIFICATION Spec
CONSTANTS
  None = None
  Tripwires = {t1, t2}
  Endpoints = {e1, e2}
  Deployments = {d1, d2}
  Alerts = {a1}
  Machines = {m1}
  Requests = {r1, r2, r3}
  Ops <- RegistryOps
  Lifetimes <- Persistent
SYMMETRY Symmetry
INVARIANTS
  TypeOK
  RefIntegrity
  OneInstancePerPair
  EnrollNeverConflicts
  EnrollCoversInstall
