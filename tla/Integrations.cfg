SPECIFICATION Spec
CONSTANTS
  None = None
  AlertPlugins = {w1}
  DeployPlugins = {d1, d2}
  Fields = {f1}
  Values = {v1}
  Keys = {k1}
  Requests = {r1, r2}
  Alerts = {}
  Ops <- AllOps
SYMMETRY Symmetry
INVARIANTS
  DistributeAnswersAll
PROPERTIES
  BlankKeepsSaved
